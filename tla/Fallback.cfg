SPECIFICATION Spec
CONSTANTS
  a = a
  b = b
  None = None
  Unparsable = Unparsable
  Names = {a}
  Pids = {p1, p2}
  Configs <- AllConfigs
  ConfigFiles <- RestartFile
  ExitStatuses <- Crash
  MaxId = 1
  UserSignals = {}
  Ops = {"Stop"}
  Faults = {}
  FifoCap = 1
  Descendants = FALSE
SYMMETRY PidSymmetry
PROPERTIES
  FallbackNotAfterStop
