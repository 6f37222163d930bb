SPECIFICATION Spec
CONSTANTS
  Applications = {a, b, c}
  Kernel = kernel
  NULL = NULL
  MaxTimers = 2
  Slices = {0, 1}
  Wrap = 4
  Callers = {t1, t2}
  OsQueue = os_queue
  Places = {os_queue, q1, q2}
  MaxCreated = 4
CONSTRAINT UntilHarmed
SYMMETRY Symmetry
INVARIANTS TypesOK RingIntact RegistersKept WaitBounded QueuesIntact
CHECK_DEADLOCK FALSE
