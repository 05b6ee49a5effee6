CONSTANTS
  Size = 3
  Start = 2
  Chunk = 2
  MaxBytes = 2
  MaxBurst = 2
  MaxTurns = 1
SPECIFICATION RttSpec
INVARIANTS
  BytesInOrder
PROPERTIES
  OutputShown
CHECK_DEADLOCK FALSE
