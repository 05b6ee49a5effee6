CONSTANTS
  MaxBkpts = 4
  MaxFaults = 1
  MaxRequests = 3
  Kinds <- AllKinds
  BkptsWanted = 1
  RunAfterReset = TRUE
SPECIFICATION DebugSpec
INVARIANTS
  AnsweredOnce
  BreakpointsOnRecord
  ViewIsTrue
PROPERTIES
  RequestsEnd
CHECK_DEADLOCK FALSE
