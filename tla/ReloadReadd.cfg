SPECIFICATION Spec
CONSTANTS
  a = a
  b = b
  None = None
  Unparsable = Unparsable
  Names = {a}
  Pids = {p1, p2}
  Configs <- AllConfigs
  ConfigFiles <- ReaddFiles
  ExitStatuses <- OneExit
  MaxId = 3
  UserSignals = {1}
  Ops = {}
  Faults = {}
  FifoCap = 0
  Descendants = FALSE
SYMMETRY PidSymmetry
INVARIANTS
  ReloadKeepsConfigured
