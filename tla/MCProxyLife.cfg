CONSTANTS
  gdb = gdb
  live = live
  Locals = {gdb}
  Talkers = {}
  MaxConns = 1
  FirstId = 3
  MaxOut = 1
  MaxChunks = 0
  MaxAsk = 0
  Prompt = TRUE
  Mishaps = {"stop", "link", "exit", "hangup"}
SPECIFICATION ProxySpec
INVARIANTS
  NoServerLeftBehind
PROPERTIES
  EndsAreNoticed
  StopReturns
CHECK_DEADLOCK FALSE
