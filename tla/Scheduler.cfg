SPECIFICATION Spec
CONSTANTS
  MaxTasks = 3
  MaxProcesses = 3
  Ptrs = {heap}
  NoPtr = null
  ExitCodes = {6}
  CodeModulus = 4
INVARIANTS
  NoKernelPanic
  TasksAndProcessesAgree
  WaiterWillBeServed
  AddressSpaceCoherent
  FamilyConsistent
  SchedulerInv
PROPERTIES
  WokenWaiterHasResult
  ExitStatusNotLost
  MainResumesWhenAllEnded
  NothingComesBack
