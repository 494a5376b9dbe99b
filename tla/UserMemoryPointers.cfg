SPECIFICATION Spec
CONSTANTS
  Word = 64
  PageSize = 2
  UserBase = 4
  StackTop = 12
  Frame <- Reversed
  ChunkSize = 3
  StatusSize = 3
  MaxPathLen = 5
  FileLen = 9
  Pointers <- SomePointers
  Lengths <- SomeLengths
CHECK_DEADLOCK FALSE
INVARIANTS
  BadPointersReturn
