SPECIFICATION Spec
CONSTANTS
  MaxTasks = 2
  MaxProcesses = 2
  Ptrs = {}
  NoPtr = null
  ExitCodes = {6}
  CodeModulus = 4
INVARIANTS
  ChildOfExitedIsParentless
