CONSTANTS
  gdb = gdb
  live = live
  Locals <- MCConversations
  Talkers <- MCConversations
  MaxConns = 2
  FirstId = 3
  MaxOut = 0
  MaxChunks = 1
  MaxAsk = 1
  Prompt = TRUE
  Mishaps = {"hangup"}
  unit = unit
  unitPath = unitPath
  outer = outer
  inner = inner
  num = num
  rec = rec
  stat = stat
  glob = glob
  reg = reg
  allRegs = allRegs
  part = part
  Register = reg
  Group = allRegs
  Member = part
  Funs = {outer, inner}
  LocalsOf <- MCLocals
  FileOf <- MCFile
  StaticsOf <- MCStatics
  Globals <- MCGlobals
  Structs = {rec}
  Cold <- MCStack
  Watched = {num}
  MaxStops = 2
  MaxDepth = 2
  MaxAsks <- MCAsks
  eldest = eldest
  middle = middle
  youngest = youngest
  stranger = stranger
  Adapters <- MCAdapters
  Launches <- MCLaunches
  Managed = {middle, youngest}
  Detached = {middle}
  AtServer = {middle}
  Casts = {{eldest, middle, youngest}, {eldest, stranger}}
  MaxEnds = 1
  Cores = 2
  Channels = 1
  RttBase = 5
  LastPort = 6
  Machines <- MCMachines
SPECIFICATION MCSpec
INVARIANTS
  OneConversation
  ShownIsTrue
  ObjectsHold
  HoldsWhatItGathers
  PortsKeptApart
  ChildrenFollow
CHECK_DEADLOCK FALSE
