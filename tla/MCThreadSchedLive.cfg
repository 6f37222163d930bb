SPECIFICATION FairSpec
CONSTANTS
  Applications = {a, b, c}
  Kernel = kernel
  MaxTimers = 1
  NULL = NULL
CONSTRAINT UntilHarmed
PROPERTIES EveryReadyThreadRuns EverySleeperWakes
CHECK_DEADLOCK FALSE
