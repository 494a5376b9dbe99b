SPECIFICATION Spec
CONSTANTS
  Procs = {p1, p2}
  PageSize = 2
  TableSpan = 4
  LoadStart = 6
  Limit = 12
  StackTop = 16
  StackPages = 1
  Frames = 14
  Images <- SmallImages
SYMMETRY ProcSymmetry
CHECK_DEADLOCK FALSE
INVARIANTS
  HeapIsMapped
  BrkErrorsAreTrue
  FramesArePrivate
PROPERTIES
  FailedBrkKeepsHeap
  MappedPagesSurvive
