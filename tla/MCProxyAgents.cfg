CONSTANTS
  old = old
  new = new
  other = other
  client = client
  operator = operator
  guest = guest
  None = None
  Procs = {old, new}
  Past = {}
  Clients = {client}
  Operators = {operator}
  Version <- MCVersion
  Wants <- MCWants
  MaxCrashes = 1
SPECIFICATION AgentsSpec
INVARIANTS
  AgentsTypeOK
  OneFrontDoor
  EndpointNamesHolder
PROPERTIES
  SessionsFinish
  ShutdownEnds
CHECK_DEADLOCK FALSE
