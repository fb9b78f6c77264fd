CONSTANTS
  p1 = p1
  p2 = p2
  p3 = p3
  t1 = t1
  t2 = t2
  None = None
  MaxJobs = 2
  MaxCrashes = 2
  Processes <- MCTwo
  Attempts <- MCAttempts
  Wanted <- MCWanted
  Matches <- MCSamePrefix
SPECIFICATION FairSpec
PROPERTIES
  BoundJobsComplete
CHECK_DEADLOCK FALSE
