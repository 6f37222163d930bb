SPECIFICATION Spec
CONSTANTS
  Threads = {t1, t2}
  Kernel = kernel
  Messages = {m1, m2}
  NoMessage = none
  Capacity = 3
  NULL = NULL
  UIntMax = 7
CONSTRAINT UntilOverlap
INVARIANTS TypeOK RingSound
PROPERTY IsFifo
SYMMETRY Symmetry
