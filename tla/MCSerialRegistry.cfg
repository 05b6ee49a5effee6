CONSTANTS
  a = a
  b = b
  admin = admin
  Sessions <- MCSessions
  Admin = admin
  MaxHandles = 2
  MaxIds = 2
  MaxDeaths = 1
SPECIFICATION RegSpec
SYMMETRY Symmetry
INVARIANTS
  Bookkeeping
CHECK_DEADLOCK FALSE
