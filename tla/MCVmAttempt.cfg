CONSTANTS
  first = first
  second = second
  one = one
  two = two
  None = None
  Processes = {first, second}
  Attempts = {one, two}
  Owner <- MCOwner
  RetainPassed = FALSE
  MaxRetries = 1
  MaxFailures = 1
  MaxDeletions = 1
SPECIFICATION FairSpec
INVARIANTS
  AttemptsStartWarm
  SkippedSetupIsPopulated
  DisksOutliveVms
  ScoredDisks
PROPERTIES
  PublishedIsPopulated
  RunsEnd
CHECK_DEADLOCK FALSE
