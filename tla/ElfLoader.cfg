SPECIFICATION Spec
CONSTANTS
  PageSize = 4
  Word = 64
  HeaderSize = 2
  PhSize = 1
  LoadStart = 8
  LoadEnd = 24
  StackTop = 36
  StackPages = 1
  Files <- AllFiles
  Programs <- Fixtures
CHECK_DEADLOCK FALSE
INVARIANTS
  ParserIsExact
  
  ImageIsExact
  HeapFollowsImage
  
