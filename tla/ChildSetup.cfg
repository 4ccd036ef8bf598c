SPECIFICATION Spec
CONSTANTS
  HUP = HUP
  INT = INT
  QUIT = QUIT
  USR1 = USR1
  USR2 = USR2
  TERM = TERM
  CHLD = CHLD
  KILL = KILL
  None = None
  Configs <- SomeConfigs
  Worlds <- SomeWorlds
INVARIANTS
  TypeOK
  NeverHalfSetUp
  SetupFailsOnlyForCause
  TerminalDoesNotReachPrograms
PROPERTIES
  StopSignalArrives
