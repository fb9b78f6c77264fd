CONSTANTS
  a1 = a1
  a2 = a2
  None = None
  Capacity = 2
  Expected = 2
  Attempts <- MCAttempts
  Script <- MCScript
  Results <- MCResults
SPECIFICATION FairSpec
INVARIANTS
  TrajectoriesMatchEvents
  CommitMeansAllRecorded
  ReportIsComplete
PROPERTIES
  FinishReturns
CHECK_DEADLOCK FALSE
