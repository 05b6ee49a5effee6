CONSTANTS
  MaxAsks = 2
  Inputs <- SomeInputs
  Listings <- SomeListings
SPECIFICATION DisasmSpec
INVARIANTS
  AnswersOwnRequest
  WindowsCentred
  RttNotMissed
PROPERTIES
  RequestsSettle
CHECK_DEADLOCK FALSE
