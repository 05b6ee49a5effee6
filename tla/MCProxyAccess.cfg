CONSTANTS
  None = None
  Here = Here
  c1 = c1
  c2 = c2
  a = a
  b = b
  Calls <- MCCalls
  Hosts <- MCHosts
  Requests <- MCRequests
  MaxAgents = 2
  MaxDeaths = 1
SPECIFICATION FairSpec
INVARIANTS
  NothingOrphaned
PROPERTIES
  EndpointMatches
  CallsSettle
CHECK_DEADLOCK FALSE
