SPECIFICATION LiveSpec
CONSTANTS
  MaxTasks = 3
  MaxProcesses = 3
  Ptrs = {}
  NoPtr = null
  ExitCodes = {6}
  CodeModulus = 4
PROPERTIES
  NoStarvation
  RunCompletes
