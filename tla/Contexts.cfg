SPECIFICATION Spec
CONSTANTS
  KernelTasks = {1}
  UserTasks = {2, 3}
  Parent <- ParentAndChild
  StackSize = 26
  HandlerDepth = 2
  MaxDepth = 1
INVARIANTS
  RegistersSurvive
  StacksSurvive
  FramesAreSaved
  UserEntryStack
