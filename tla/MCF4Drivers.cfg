SPECIFICATION Spec
CONSTANTS
  t1 = t1
  t2 = t2
  Threads = {t1, t2}
  Handlers = {TIM6}
  StreamCount = 2
  Bits = 2
  CopiesAndMessages <- FewRequests
  MoreCalls = 3
  Anything <- AllRequests
  MaxCalls = 2
  Length = 2
  EchoLength = 1
  PrintSize = 8
  MaxMessages = 2
  MaxEchoes = 1
  BufferSize = 2
  Sizes = {1, 3}
  MaxBytes = 3
  None = None
ACTION_CONSTRAINTS T2AsksForAll T1First
INVARIANTS TypesOK ExactUnlessRaced WholeUnlessMixed LossHasCause PrintedAsExpected
PROPERTIES StartedIsDone
CHECK_DEADLOCK FALSE
