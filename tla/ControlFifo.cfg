SPECIFICATION Spec
CONSTANTS
  Writers = {w1, w2}
  Base = 4
  IdBytes = 2
  Opcodes <- SmallOpcodes
  Commands <- SmallCommands
  Tear = TRUE
  PipeCap = 6
  MaxFrames = 3
INVARIANTS
  TypeOK
  OrderlyReadsAreFaithful
  ResultsExplained
  NoIdleWakeup
PROPERTIES
  InOrder
  PipeDrained
