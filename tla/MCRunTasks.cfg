CONSTANTS
  b1 = b1
  b2 = b2
  b3 = b3
  d1 = d1
  d2 = d2
  NoLimit = NoLimit
  MaxConcurrency = 2
  MaxMemory = 3
  WindowFactor = 1
  Attempts <- MCAttempts
  Memory <- MCMemory
  Batch <- MCBatch
SPECIFICATION RunFairSpec
INVARIANTS
  NoLostWakeup
  WholeBatchReturned
PROPERTIES
  ImplementsSemaphore
  EveryRequestEnds
  RunTasksReturns
CHECK_DEADLOCK FALSE
