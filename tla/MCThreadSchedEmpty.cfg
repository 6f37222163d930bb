SPECIFICATION Spec
CONSTANTS
  Applications = {a, b}
  Kernel = kernel
  MaxTimers = 1
  NULL = NULL
SYMMETRY Symmetry
INVARIANT SomeThreadToRun
CHECK_DEADLOCK FALSE
