SPECIFICATION FairSpec
CONSTANTS
  x = x
  y = y
  Blank = Blank
  Exprs <- Two
  MaxLines = 2
  Starts = {TRUE}
  Saved <- One
  SeesStop = TRUE
  OpenOcd = TRUE
  MaxChanges = 1
  MaxHalts = 1
  MaxAsks = 2
  MaxSessions = 1
INVARIANTS
  ObjectsBalance
PROPERTIES
  ShownCatchesUp
CHECK_DEADLOCK FALSE
