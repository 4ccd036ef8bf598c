SPECIFICATION Spec
CONSTANTS
  Inodes = {i1, i2, i3}
  Readers = {r1}
  None = None
  Lines <- SmallLines
  MaxStarts = 2
CHECK_DEADLOCK FALSE
INVARIANTS
  TypeOK
  ReadersSeeWholeSnapshots
  FreshDirectory
PROPERTIES
  RegisterSpec
  FlushEnds
