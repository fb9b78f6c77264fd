CONSTANTS
  p1 = p1
  p2 = p2
  p3 = p3
  t1 = t1
  t2 = t2
  None = None
  MaxJobs = 2
  MaxCrashes = 2
  Processes <- MCThree
  Attempts <- MCAttempts
  Wanted <- MCWanted
  Matches <- MCMatches
SPECIFICATION FairSpec
INVARIANTS
  OneResultPerAttempt
  DurableResultsReachable
  HarborNeverOvercounts
  FinalMeansAllDurable
PROPERTIES
  ImplementsLedger
  BoundJobsComplete
CHECK_DEADLOCK FALSE
