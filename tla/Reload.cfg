SPECIFICATION Spec
CONSTANTS
  a = a
  b = b
  None = None
  Unparsable = Unparsable
  Names = {a, b}
  Pids = {p1, p2}
  Configs <- AllConfigs
  ConfigFiles <- ReloadFiles
  ExitStatuses <- OneExit
  MaxId = 2
  UserSignals = {1}
  Ops = {"Restart"}
  Faults = {}
  FifoCap = 1
  Descendants = FALSE
SYMMETRY PidSymmetry
INVARIANTS
  EveryChildSupervised
  OneServicePerName
  StatusCurrent
  ReloadApplied
  OutdatedReplaced
  CommandsReachTheirService
PROPERTIES
  RemovalSticks
  RestartSticks
