SPECIFICATION FairSpec
CONSTANTS
  Timers = {a, b, c}
  MaxTicks = 4
  NULL = NULL
INVARIANTS TypeOK OnTimeUnlessDelayed 
PROPERTIES EarlyOnlyInLinkHead EveryTimerEnds
CHECK_DEADLOCK FALSE
