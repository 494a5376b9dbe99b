SPECIFICATION Spec
CONSTANTS
  Height = 2
  Width = 2
  Capacity = 3
  Printable = {"a", "b"}
  MaxText = 5
  MaxSent = 4
  MaxChunk = 2
INVARIANTS
  ScreenShowsTail
  BufferIsExact
