CONSTANTS
  a = a
  b = b
  Paths <- One
  Session = Session
  MaxChan = 6
  MaxPlugs = 2
  MaxBytes = 0
  MaxDeaths = 1
  MaxPending = 1
  KeepPending = 1
  MaxEarly = 1
  Labellings <- Unlabelled
  MaxSessions = 2
  MaxCloses = 0
  MaxTyped = 0
  MaxFaults = 0
SPECIFICATION MCSpec
INVARIANTS
  ViewsAreFedInEveryScene
  OwnBytesInEveryScene
PROPERTIES
  ReplugReconnects
CHECK_DEADLOCK FALSE
