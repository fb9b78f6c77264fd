CONSTANTS
  first = first
  second = second
  proxy = proxy
  secrets = secrets
  None = None
  Browsers = {first, second}
  Ports = {8001, 8002}
  Offered <- MCOffered
  MaxFaults = 1
SPECIFICATION FairSpec
INVARIANTS
  EndpointIsOwn
  RunningVmmKeepsItsHost
  LeasesAreWhole
PROPERTIES
  NothingLeftBehind
CHECK_DEADLOCK FALSE
