SPECIFICATION Spec
CONSTANTS
  Pids = {p1, p2}
  MaxOpenFiles = 4
  MaxFds = 3
  Embedded = {"motd"}
  FileLen <- OneByte
  MaxLen = 2
SYMMETRY Symmetry
CHECK_DEADLOCK FALSE
INVARIANTS
  RefsMatchDescriptors
  DescriptorsArePrivate
  OffsetsInRange
PROPERTIES
  FailureChangesNothing
  ImplementsDescriptors
