SPECIFICATION Spec
CONSTANTS
  Main = main
  KernelTasks = {k1, k2}
  UserTasks = {u1, u2}
SYMMETRY Symmetry
INVARIANTS
  
  
  EveryInterruptEnds
  InterruptsComeBack
