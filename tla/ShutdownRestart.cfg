SPECIFICATION FairSpec
CONSTANTS
  a = a
  b = b
  None = None
  Unparsable = Unparsable
  Names = {a, b}
  Pids = {p1, p2}
  Configs <- AllConfigs
  ConfigFiles <- SelfRestart
  ExitStatuses <- OneExit
  MaxId = 2
  UserSignals = {15}
  Ops = {}
  Faults = {}
  FifoCap = 0
  Descendants = FALSE
PROPERTIES
  ShutdownCompletes
