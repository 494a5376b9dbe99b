SPECIFICATION Spec
CONSTANTS
  MaxTasks = 2
  MaxProcesses = 1
  Ptrs = {}
  NoPtr = null
  ExitCodes = {6}
  CodeModulus = 4
PROPERTIES
  ArgumentOnlyBeforeFirstRun
