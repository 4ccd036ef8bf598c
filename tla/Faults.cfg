SPECIFICATION Spec
CONSTANTS
  a = a
  b = b
  None = None
  Unparsable = Unparsable
  Names = {a}
  Pids = {p1, p2}
  Configs <- AllConfigs
  ConfigFiles <- BrokenFiles
  ExitStatuses <- OneExit
  MaxId = 2
  UserSignals = {1, 15}
  Ops = {"Restart"}
  Faults = {"start", "stop", "kill", "group", "loop"}
  FifoCap = 1
  Descendants = FALSE
SYMMETRY PidSymmetry
INVARIANTS
  TypeOK
  EveryChildSupervised
  CleanExit
  ReloadApplied
  OutdatedReplaced
  ArgvOfDefinition
PROPERTIES
  ImplementsLifecycle
