\* Ring of 2 bytes, reads of up to 2: the third byte overwrites, and a full read
\* replaces the ring.  Queues of 1 chunk: a client one chunk behind is dropped.
CONSTANTS
  c1 = c1
  c2 = c2
  Clients <- MCClients
  Cap = 2
  Depth = 1
  MaxRead = 2
  MaxBytes = 3
  FlakyPeers <- MCFlakyPeers
SPECIFICATION MCSpec
INVARIANTS
  TypeOK
  ExactlyOnce
  DetachFlushes
  BridgeServesOne
PROPERTIES
  ImplementsFeed
  EndsAreNotHeldUp
  StopReturnsOrServes
CHECK_DEADLOCK FALSE
