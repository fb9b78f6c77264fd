CONSTANTS
  c1 = c1
  c2 = c2
  c3 = c3
  None = None
  MaxCalls = 3
  Callers <- MCThree
SPECIFICATION FairSpec
INVARIANTS
  ExecutedInOrder
  NeverMismatched
  ShutdownIsLast
PROPERTIES
  CallsReturn
CHECK_DEADLOCK FALSE
