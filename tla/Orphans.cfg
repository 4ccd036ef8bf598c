SPECIFICATION Spec
CONSTANTS
  a = a
  b = b
  None = None
  Unparsable = Unparsable
  Names = {a}
  Pids = {p1, p2, p3}
  Configs <- AllConfigs
  ConfigFiles <- RestartFile
  ExitStatuses <- OneExit
  MaxId = 1
  UserSignals = {15}
  Ops = {}
  Faults = {"frame", "status"}
  FifoCap = 1
  Descendants = TRUE
SYMMETRY PidSymmetry
INVARIANTS
  EveryChildSupervised
  DeadChildNoticed
  OrphansCleaned
PROPERTIES
  NoEarlyKill
