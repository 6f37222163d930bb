SPECIFICATION FairSpec
CONSTANTS
  t1 = t1
  t2 = t2
  t3 = t3
  Threads = {t1, t2, t3}
  Kernel = kernel
  Calls <- SomeCalls
  NoMessage = none
  Capacity = 2
  NULL = NULL
  UIntMax = 7
CONSTRAINT UntilOverlap
INVARIANTS TypeOK ExecutedAfterSent
PROPERTIES ReexecutedOnlyWhileSending CountedCallIsExecuted StuckSender
CHECK_DEADLOCK FALSE
