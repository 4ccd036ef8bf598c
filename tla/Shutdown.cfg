SPECIFICATION FairSpec
CONSTANTS
  a = a
  b = b
  None = None
  Unparsable = Unparsable
  Names = {a, b}
  Pids = {p1, p2}
  Configs <- AllConfigs
  ConfigFiles <- NoRestart
  ExitStatuses <- OneExit
  MaxId = 2
  UserSignals = {2, 15}
  Ops = {}
  Faults = {}
  FifoCap = 0
  Descendants = FALSE
INVARIANTS
  CleanExit
PROPERTIES
  ShutdownCompletes
