---------------------------- MODULE ProxyAgentsProofs ----------------------------
(***************************************************************************)
(* Safety of the agents of ProxyAgents, for any number of processes,       *)
(* clients, operators and crashes: one front door, an endpoint.json that   *)
(* names whoever holds the lock, and no accepted connection left behind.   *)
(*                                                                         *)
(* None of the three is inductive.  That nobody else listens follows from  *)
(* who holds the lock (HolderInv) and from when run() moves on (DoorInv);  *)
(* that nobody overwrites the file, from what the threads are about to     *)
(* write (FileInv); and that nothing is left behind, from there being no   *)
(* new thread once the stop flag is set (DoorInv, ThreadInv).              *)
(***************************************************************************)
EXTENDS ProxyAgents, TLAPS

\* Who has taken the lock, for a probe or for good, has it until it lets go itself.
HolderInv ==
  \A p \in Procs :
    pc[p] \in {"probed", "freed", "owner", "binding", "serving", "joined"} => lock = p

\* A process listens from when it serves to its end, on loopback only while it serves; and
\* a loop that has ended was told to stop.
DoorInv ==
  \A p \in Procs :
    /\ listener[p] # {} => Watched(p)
    /\ Loopback \in listener[p] => pc[p] = "serving"
    /\ pc[p] = "serving" => Loopback \in bound[p]
    /\ pc[p] = "serving" => Loopback \in listener[p] \/ stop[p]
    /\ pc[p] \in {"joined", "finishing", "removing"} => stop[p]

\* A connection hangs on an agent that is there, and has a thread only while run() has
\* still to join it.
ThreadInv ==
  \A c \in Conns :
    /\ at[c] \in Active \cup {"backlog"} <=> to[c] # None
    /\ to[c] # None => Watched(to[c])
    /\ at[c] \in Active => pc[to[c]] # "removing"

\* The file names the agent that holds the lock, and so does what its threads write.
FileInv ==
  /\ EndpointNamesHolder
  /\ \A c \in Conns :
       at[c] = "writing" =>
         /\ copy[c] # None
         /\ lock = to[c] /\ ~strayed => copy[c].pid = to[c]

\* A launcher that asks or reuses an agent has read the file.
SeenInv == \A p \in Procs : pc[p] \in {"asking", "reusing"} => seen[p] # None

IInv == AgentsTypeOK /\ HolderInv /\ DoorInv /\ ThreadInv /\ FileInv /\ SeenInv

-----------------------------------------------------------------------------
(* Types *)

\* What TLAPS cannot see in the constants: the hosts that may be asked for are not loopback.
LEMMA HostsHold ==
  /\ Loopback \in Hosts
  /\ \A p \in Procs : Wants[p] \subseteq Hosts /\ Loopback \notin Wants[p]
  /\ None \notin Procs \cup Endpoints
BY AgentAssumption DEF Hosts

\* A connection that asks to widen was opened by a process.
LEMMA WidenHosts ==
  ASSUME NEW c \in Conns, c[2] = "widen"
  PROVE  Wants[c[1]] \subseteq Hosts /\ Loopback \notin Wants[c[1]]
<1>1. c[1] \in Procs
  BY DEF Conns
<1> QED
  BY <1>1, HostsHold

\* The file an agent publishes, of whatever addresses it has bound.
LEMMA EndpointType ==
  ASSUME NEW p \in Procs, NEW hs \in SUBSET Hosts
  PROVE  Endpoint(p, hs) \in Endpoints /\ Endpoint(p, hs).pid = p
BY AgentAssumption DEF Endpoint, Endpoints

\* A file has a process and its hosts, and keeps its process when the hosts are replaced.
LEMMA EndpointParts ==
  ASSUME NEW e \in Endpoints, NEW hs \in SUBSET Hosts
  PROVE  /\ e.pid \in Procs
         /\ [e EXCEPT !.hosts = hs] \in Endpoints
         /\ [e EXCEPT !.hosts = hs].pid = e.pid
BY DEF Endpoints

\* The part of the type invariant that is about connections.
ConnTypeOK ==
  /\ at \in [Conns -> Active \cup {"none", "backlog", "refused", "closed", "replied"}]
  /\ to \in [Conns -> Procs \cup {None}] /\ via \in [Conns -> Hosts]

\* A connection that goes on, one that is over and one that is opened keep those types.
LEMMA MovesType ==
  ASSUME ConnTypeOK, NEW c \in Conns, NEW there \in Active, Moves(c, there)
  PROVE  ConnTypeOK'
BY DEF ConnTypeOK, Moves

LEMMA EndType ==
  ASSUME ConnTypeOK, NEW cs, NEW how \in {"refused", "closed", "replied"}, End(cs, how)
  PROVE  ConnTypeOK'
BY HostsHold DEF ConnTypeOK, End

LEMMA ConnectType ==
  ASSUME ConnTypeOK, NEW c, NEW q \in Procs, NEW h \in Hosts, Connect(c, q, h)
  PROVE  ConnTypeOK'
<1>1. CASE h \in listener[q]
  BY <1>1 DEF ConnTypeOK, Connect
<1>2. CASE h \notin listener[q]
  BY <1>2, EndType DEF Connect
<1> QED
  BY <1>1, <1>2

-----------------------------------------------------------------------------
(* The actions *)

\* How a process comes to hold the lock, or does not.
LEMMA StartStep ==
  ASSUME IInv, NEW p \in Procs,
         \/ Launch(p) \/ Probe(p) \/ ProbeAgain(p) \/ DropProbe(p)
         \/ WaitTimesOut(p) \/ Take(p) \/ RemoveStale(p) \/ BindFails(p)
  PROVE  IInv'
<1> USE DEF IInv, Launch, Probe, ProbeAgain, DropProbe, WaitTimesOut, Take, RemoveStale,
            BindFails, Goes
<1>1. AgentsTypeOK'
  BY DEF AgentsTypeOK, Gone, fileVars, flagVars, doorVars, monVars, connVars
<1>2. HolderInv'
  BY HostsHold DEF AgentsTypeOK, HolderInv, fileVars
<1>3. DoorInv'
  BY DEF AgentsTypeOK, DoorInv, Watched, doorVars, flagVars
<1>4. ThreadInv'
  BY DEF AgentsTypeOK, ThreadInv, Watched, connVars
<1>5. FileInv'
  BY HostsHold DEF AgentsTypeOK, FileInv, HolderInv, ThreadInv, EndpointNamesHolder, Watched,
     fileVars, connVars
<1>6. SeenInv'
  BY DEF AgentsTypeOK, SeenInv
<1> QED
  BY <1>1, <1>2, <1>3, <1>4, <1>5, <1>6

\* The agent binds its addresses, publishes its file and serves.
LEMMA ServeStep ==
  ASSUME IInv, NEW p \in Procs, Serve(p)
  PROVE  IInv'
<1> USE DEF IInv
<1>0. PICK hs \in SUBSET Hosts :
        /\ pc[p] = "binding" /\ pc' = [pc EXCEPT ![p] = "serving"]
        /\ bound' = [bound EXCEPT ![p] = hs] /\ listener' = [listener EXCEPT ![p] = hs]
        /\ Loopback \in hs
        /\ endpoint' \in Endpoints /\ endpoint'.pid = p
        /\ monitors' = [monitors EXCEPT ![p] = {"idle"}]
        /\ UNCHANGED <<seen, lock, strayed, flagVars, woken, late, wakers, connVars, crashes>>
  <2>1. PICK ws \in {{}, Wants[p]} :
          /\ bound' = [bound EXCEPT ![p] = {Loopback} \cup ws]
          /\ listener' = [listener EXCEPT ![p] = {Loopback} \cup ws]
          /\ endpoint' = Endpoint(p, {Loopback} \cup ws)
    BY DEF Serve
  <2>2. {Loopback} \cup ws \in SUBSET Hosts
    BY HostsHold
  <2>3. endpoint' \in Endpoints /\ endpoint'.pid = p
    BY <2>1, <2>2, EndpointType
  <2> QED
    BY <2>1, <2>2, <2>3 DEF Serve, Goes
<1>1. AgentsTypeOK'
  BY <1>0 DEF AgentsTypeOK, flagVars, connVars, DoorInv, Watched
<1>2. HolderInv'
  BY <1>0 DEF HolderInv
<1>3. DoorInv'
  BY <1>0 DEF AgentsTypeOK, DoorInv, Watched, flagVars
<1>4. ThreadInv'
  BY <1>0 DEF ThreadInv, Watched, connVars
<1>5. FileInv'
  BY <1>0, HostsHold DEF FileInv, HolderInv, EndpointNamesHolder, connVars
<1>6. SeenInv'
  BY <1>0 DEF SeenInv
<1> QED
  BY <1>1, <1>2, <1>3, <1>4, <1>5, <1>6

\* What a launcher does without opening a connection, while another holds the lock.
LEMMA HeldStep ==
  ASSUME IInv, NEW p \in Procs,
         ReadEndpoint(p) \/ ReadGivesUp(p) \/ AskAnswered(p) \/ AskFails(p) \/ Reuse(p)
  PROVE  IInv'
<1> USE DEF IInv, ReadEndpoint, ReadGivesUp, AskAnswered, AskFails, Reuse, Goes
<1>1. AgentsTypeOK'
  BY DEF AgentsTypeOK, Gone, fileVars, flagVars, doorVars, monVars, connVars
<1>2. HolderInv'
  BY DEF AgentsTypeOK, HolderInv, fileVars
<1>3. DoorInv'
  BY DEF AgentsTypeOK, DoorInv, Watched, doorVars, flagVars
<1>4. ThreadInv'
  BY DEF AgentsTypeOK, ThreadInv, Watched, connVars
<1>5. FileInv'
  BY DEF AgentsTypeOK, FileInv, EndpointNamesHolder, fileVars, connVars
<1>6. SeenInv'
  BY DEF AgentsTypeOK, SeenInv
<1> QED
  BY <1>1, <1>2, <1>3, <1>4, <1>5, <1>6

\* A connection, whoever opens it and whether it is accepted or refused.
LEMMA ConnectStep ==
  ASSUME IInv, NEW c, NEW q \in Procs, NEW h \in Hosts, Connect(c, q, h),
         UNCHANGED <<runVars, fileVars, flagVars, doorVars, monVars, crashes>>
  PROVE  IInv'
<1> USE DEF IInv
<1>1. AgentsTypeOK'
  <2>1. ConnTypeOK'
    BY ConnectType DEF AgentsTypeOK, ConnTypeOK
  <2> QED
    BY <2>1 DEF AgentsTypeOK, ConnTypeOK, Connect, runVars, fileVars, flagVars, doorVars,
       monVars
<1>2. HolderInv'
  BY DEF HolderInv, runVars, fileVars
<1>3. DoorInv'
  BY DEF DoorInv, Watched, runVars, doorVars, flagVars
<1>4. ThreadInv'
  BY HostsHold DEF AgentsTypeOK, ThreadInv, DoorInv, Watched, Active, runVars, Connect, End
<1>5. FileInv'
  BY DEF AgentsTypeOK, FileInv, EndpointNamesHolder, runVars, fileVars, Connect, End
<1>6. SeenInv'
  BY DEF SeenInv, runVars
<1> QED
  BY <1>1, <1>2, <1>3, <1>4, <1>5, <1>6

\* A launcher connects to the agent it has read of.
LEMMA LauncherAsksStep ==
  ASSUME IInv, NEW p \in Procs, Ask(p) \/ AskToWiden(p)
  PROVE  IInv'
<1>1. seen[p] \in Endpoints
  BY DEF Ask, AskToWiden, IInv, SeenInv, AgentsTypeOK
<1>2. seen[p].pid \in Procs
  BY <1>1 DEF Endpoints
<1> QED
  BY <1>2, HostsHold, ConnectStep DEF Ask, AskToWiden

\* A client connects to any address of an agent, an operator to the one that is published.
LEMMA VisitorStep ==
  ASSUME IInv, NEW c \in Conns, ClientConnects(c) \/ OperatorConnects(c)
  PROVE  IInv'
<1>1. CASE ClientConnects(c)
  <2>1. \A q \in Procs : listener[q] \subseteq Hosts
    BY DEF IInv, AgentsTypeOK
  <2> QED
    BY <1>1, <2>1, ConnectStep DEF ClientConnects
<1>2. CASE OperatorConnects(c)
  <2>1. endpoint.pid \in Procs
    BY <1>2 DEF OperatorConnects, IInv, AgentsTypeOK, Endpoints
  <2> QED
    BY <1>2, <2>1, HostsHold, ConnectStep DEF OperatorConnects
<1> QED
  BY <1>1, <1>2

\* run() waits for the accept loops, then for the threads.
LEMMA EndingStep ==
  ASSUME IInv, NEW p \in Procs, JoinListeners(p) \/ HandOver(p) \/ Finish(p)
  PROVE  IInv'
<1> USE DEF IInv, JoinListeners, HandOver, Finish, Goes
<1>1. AgentsTypeOK'
  BY DEF AgentsTypeOK, fileVars, flagVars, doorVars, monVars, connVars
<1>2. HolderInv'
  BY DEF AgentsTypeOK, HolderInv, fileVars
<1>3. DoorInv'
  BY DEF AgentsTypeOK, DoorInv, Watched, doorVars, flagVars
<1>4. ThreadInv'
  BY DEF AgentsTypeOK, ThreadInv, Watched, connVars
<1>5. FileInv'
  BY HostsHold DEF AgentsTypeOK, FileInv, ThreadInv, EndpointNamesHolder, fileVars, connVars
<1>6. SeenInv'
  BY DEF AgentsTypeOK, SeenInv
<1> QED
  BY <1>1, <1>2, <1>3, <1>4, <1>5, <1>6

\* A process is gone, by itself or not.
LEMMA VanishStep ==
  ASSUME IInv, NEW p \in Procs, Exit(p) \/ Crash(p)
  PROVE  IInv'
<1> USE DEF IInv, Vanish, Gone
<1>0. PICK g \in {"exited", "crashed"} :
        /\ pc' = [pc EXCEPT ![p] = g]
        /\ Vanish(p)
        /\ crashes' \in 0 .. MaxCrashes
        /\ UNCHANGED <<endpoint, strayed>>
  BY AgentAssumption DEF Exit, Crash, Goes, AgentsTypeOK
<1>1. AgentsTypeOK'
  <2>1. ConnTypeOK'
    BY <1>0, EndType DEF AgentsTypeOK, ConnTypeOK
  <2> QED
    BY <1>0, <2>1 DEF AgentsTypeOK, ConnTypeOK
<1>2. HolderInv'
  BY <1>0 DEF AgentsTypeOK, HolderInv
<1>3. DoorInv'
  BY <1>0 DEF AgentsTypeOK, DoorInv, Watched
<1>4. ThreadInv'
  BY <1>0 DEF ThreadInv, Watched, Active, End
<1>5. FileInv'
  BY <1>0, HostsHold DEF FileInv, ThreadInv, EndpointNamesHolder, Active, End
<1>6. SeenInv'
  BY <1>0 DEF AgentsTypeOK, SeenInv
<1> QED
  BY <1>1, <1>2, <1>3, <1>4, <1>5, <1>6

\* An accept loop ends.
LEMMA LoopStopsStep ==
  ASSUME IInv, NEW p \in Procs, NEW h \in Hosts, LoopStops(p, h)
  PROVE  IInv'
<1> USE DEF IInv, LoopStops, Backlog
<1>1. AgentsTypeOK'
  <2>1. ConnTypeOK'
    BY EndType DEF AgentsTypeOK, ConnTypeOK
  <2> QED
    BY <2>1 DEF AgentsTypeOK, ConnTypeOK, runVars, fileVars, flagVars, monVars
<1>2. HolderInv'
  BY DEF HolderInv, runVars, fileVars
<1>3. DoorInv'
  BY DEF DoorInv, Watched, runVars, flagVars
<1>4. ThreadInv'
  BY DEF ThreadInv, Watched, Active, runVars, End
<1>5. FileInv'
  BY DEF FileInv, EndpointNamesHolder, runVars, fileVars, End
<1>6. SeenInv'
  BY DEF SeenInv, runVars
<1> QED
  BY <1>1, <1>2, <1>3, <1>4, <1>5, <1>6

\* A monitor sets the stop flag, then wakes the accept loops.
LEMMA WatchStep ==
  ASSUME IInv, NEW p \in Procs, NEW m \in {"idle", "drain"},
         MonitorFires(p, m) \/ MonitorWakes(p, m)
  PROVE  IInv'
<1> USE DEF IInv, MonitorFires, MonitorWakes, WakeAll
<1>1. AgentsTypeOK'
  <2>1. CASE MonitorFires(p, m)
    BY <2>1 DEF AgentsTypeOK, runVars, fileVars, doorVars, connVars
  <2>2. CASE MonitorWakes(p, m)
    BY <2>2 DEF AgentsTypeOK, runVars, fileVars, flagVars, connVars
  <2> QED
    BY <2>1, <2>2
<1>2. HolderInv'
  BY DEF HolderInv, runVars, fileVars
<1>3. DoorInv'
  BY DEF AgentsTypeOK, DoorInv, Watched, runVars, doorVars, flagVars
<1>4. ThreadInv'
  BY DEF ThreadInv, Watched, runVars, connVars
<1>5. FileInv'
  BY DEF FileInv, EndpointNamesHolder, runVars, fileVars, connVars
<1>6. SeenInv'
  BY DEF SeenInv, runVars
<1> QED
  BY <1>1, <1>2, <1>3, <1>4, <1>5, <1>6

\* A connection is accepted or turned away, becomes a session, and ends with nothing done.
LEMMA ServedStep ==
  ASSUME IInv, NEW c \in Conns,
         Accept(c) \/ SessionBegins(c) \/ ThreadEnds(c) \/ WidenFails(c)
  PROVE  IInv'
<1> USE DEF IInv, Accept, SessionBegins, ThreadEnds, WidenFails
<1>1. AgentsTypeOK'
  <2>1. ConnTypeOK'
    BY MovesType, EndType DEF AgentsTypeOK, ConnTypeOK, Active
  <2> QED
    BY <2>1 DEF AgentsTypeOK, ConnTypeOK, runVars, fileVars, flagVars, doorVars, monVars
<1>2. HolderInv'
  BY DEF HolderInv, runVars, fileVars
<1>3. DoorInv'
  BY DEF DoorInv, Watched, runVars, doorVars, flagVars
<1>4. ThreadInv'
  BY DEF AgentsTypeOK, ThreadInv, DoorInv, Watched, Active, runVars, Moves, End
<1>5. FileInv'
  BY DEF AgentsTypeOK, FileInv, EndpointNamesHolder, runVars, fileVars, Moves, End
<1>6. SeenInv'
  BY DEF SeenInv, runVars
<1> QED
  BY <1>1, <1>2, <1>3, <1>4, <1>5, <1>6

\* A thread drains the agent, or stops it for a newer one.
LEMMA AdminStep ==
  ASSUME IInv, NEW c \in Conns,
         Shutdown(c) \/ Upgrade(c) \/ UpgradeTriggers(c) \/ UpgradeWakes(c)
  PROVE  IInv'
<1> USE DEF IInv, Shutdown, Upgrade, UpgradeTriggers, UpgradeWakes, WakeAll
<1>1. AgentsTypeOK'
  <2>1. ConnTypeOK'
    BY MovesType, EndType DEF AgentsTypeOK, ConnTypeOK, Active
  <2>2. CASE Shutdown(c) \/ Upgrade(c) \/ UpgradeTriggers(c)
    BY <2>1, <2>2 DEF AgentsTypeOK, ConnTypeOK, runVars, fileVars, doorVars, monVars
  <2>3. CASE UpgradeWakes(c)
    BY <2>1, <2>3 DEF AgentsTypeOK, ConnTypeOK, runVars, fileVars, flagVars, monVars
  <2> QED
    BY <2>2, <2>3
<1>2. HolderInv'
  BY DEF HolderInv, runVars, fileVars
<1>3. DoorInv'
  BY DEF AgentsTypeOK, DoorInv, Watched, runVars, doorVars, flagVars
<1>4. ThreadInv'
  BY DEF AgentsTypeOK, ThreadInv, Watched, Active, runVars, Moves, End
<1>5. FileInv'
  BY DEF AgentsTypeOK, FileInv, EndpointNamesHolder, runVars, fileVars, Moves, End
<1>6. SeenInv'
  BY DEF SeenInv, runVars
<1> QED
  BY <1>1, <1>2, <1>3, <1>4, <1>5, <1>6

\* A thread adds an address to the agent's.
LEMMA WidenStep ==
  ASSUME IInv, NEW c \in Conns, Widen(c)
  PROVE  IInv'
<1> DEFINE p == to[c]
<1> USE DEF IInv
<1>0. PICK h \in Hosts :
        /\ h # Loopback
        /\ bound' = [bound EXCEPT ![p] = @ \cup {h}]
        /\ listener' = [listener EXCEPT ![p] = IF h \in bound[p] THEN @ ELSE @ \cup {h}]
        /\ late' = [late EXCEPT ![p] = IF stop[p] /\ h \notin bound[p] THEN @ \cup {h} ELSE @]
  BY WidenHosts DEF Widen
<1>a. /\ at[c] = "accepted" /\ Moves(c, "reading")
      /\ p \in Procs
      /\ UNCHANGED <<runVars, fileVars, flagVars, woken, monVars, copy, crashes>>
  BY DEF Widen, ThreadInv, AgentsTypeOK
<1> HIDE DEF p
<1>1. AgentsTypeOK'
  <2>1. ConnTypeOK'
    BY <1>a, MovesType DEF AgentsTypeOK, ConnTypeOK, Active
  <2> QED
    BY <2>1, <1>0, <1>a DEF AgentsTypeOK, ConnTypeOK, runVars, fileVars, flagVars, monVars
<1>2. HolderInv'
  BY <1>a DEF HolderInv, runVars, fileVars
<1>3. DoorInv'
  <2>1. Watched(p)
    BY <1>a, HostsHold DEF ThreadInv, p
  <2> QED
    BY <2>1, <1>0, <1>a DEF DoorInv, Watched, runVars, flagVars
<1>4. ThreadInv'
  BY <1>a DEF ThreadInv, Watched, Active, runVars, Moves
<1>5. FileInv'
  BY <1>a DEF FileInv, EndpointNamesHolder, runVars, fileVars, Moves
<1>6. SeenInv'
  BY <1>a DEF SeenInv, runVars
<1> QED
  BY <1>1, <1>2, <1>3, <1>4, <1>5, <1>6

\* A thread reads the file, then writes it.
LEMMA FileStep ==
  ASSUME IInv, NEW c \in Conns, ReadFile(c) \/ WriteFile(c)
  PROVE  IInv'
<1> USE DEF IInv, Updated
<1>0. to[c] \in Procs /\ Watched(to[c]) /\ pc[to[c]] # "removing"
  BY DEF ReadFile, WriteFile, ThreadInv, AgentsTypeOK
<1>a. endpoint # None =>
         /\ [endpoint EXCEPT !.hosts = bound[to[c]]] \in Endpoints
         /\ [endpoint EXCEPT !.hosts = bound[to[c]]].pid = endpoint.pid
  <2>1. bound[to[c]] \in SUBSET Hosts
    BY <1>0 DEF AgentsTypeOK
  <2> QED
    BY <2>1, EndpointParts DEF AgentsTypeOK
<1>1. AgentsTypeOK'
  <2>1. ConnTypeOK'
    BY MovesType, EndType DEF AgentsTypeOK, ConnTypeOK, ReadFile, WriteFile, Active
  <2>2. CASE ReadFile(c)
    <3>1. copy' \in [Conns -> Endpoints \cup {None}]
      BY <1>a, <2>2 DEF ReadFile, AgentsTypeOK
    <3> QED
      BY <2>1, <2>2, <3>1 DEF ReadFile, AgentsTypeOK, ConnTypeOK, runVars, fileVars, flagVars,
         doorVars
  <2>3. CASE WriteFile(c)
    BY <2>1, <2>3 DEF WriteFile, AgentsTypeOK, ConnTypeOK, runVars, flagVars, doorVars
  <2> QED
    BY <2>2, <2>3
<1>2. HolderInv'
  BY DEF ReadFile, WriteFile, HolderInv, runVars, fileVars
<1>3. DoorInv'
  BY DEF ReadFile, WriteFile, DoorInv, Watched, runVars, doorVars, flagVars
<1>4. ThreadInv'
  BY DEF ReadFile, WriteFile, AgentsTypeOK, ThreadInv, Watched, Active, runVars, Moves, End
<1>5. FileInv'
  <2>1. CASE ReadFile(c)
    <3>1. EndpointNamesHolder'
      BY <2>1 DEF ReadFile, FileInv, EndpointNamesHolder, runVars, fileVars
    <3>2. at'[c] = "writing" => copy'[c] # None /\ copy'[c].pid = endpoint.pid
      <4>1. CASE endpoint = None
        BY <4>1, <2>1 DEF ReadFile, AgentsTypeOK, Moves, End
      <4>2. CASE endpoint # None
        <5>1. endpoint \in Endpoints
          BY <4>2 DEF AgentsTypeOK
        <5>2. copy'[c] = [endpoint EXCEPT !.hosts = bound[to[c]]] \/ copy'[c] = endpoint
          BY <4>2, <2>1 DEF ReadFile, AgentsTypeOK
        <5> QED
          BY <5>1, <5>2, <1>a, HostsHold
      <4> QED
        BY <4>1, <4>2
    <3>3. \A d \in Conns \ {c} : at'[d] = at[d] /\ to'[d] = to[d] /\ copy'[d] = copy[d]
      BY <2>1 DEF ReadFile, AgentsTypeOK, Moves, End
    <3>4. at'[c] = "writing" => to'[c] = to[c] /\ endpoint # None
      BY <2>1 DEF ReadFile, AgentsTypeOK, Moves, End
    <3> QED
      BY <1>0, <2>1, <3>1, <3>2, <3>3, <3>4 DEF ReadFile, FileInv, EndpointNamesHolder, Watched,
         fileVars
  <2>2. CASE WriteFile(c)
    <3>1. at[c] = "writing" /\ endpoint' = copy[c] /\ strayed' = (strayed \/ lock # to[c])
          /\ lock' = lock /\ pc' = pc
      BY <2>2 DEF WriteFile, runVars
    <3>2. EndpointNamesHolder'
      BY <3>1 DEF FileInv, EndpointNamesHolder
    <3>3. at'[c] # "writing"
          /\ \A d \in Conns \ {c} : at'[d] = at[d] /\ to'[d] = to[d] /\ copy'[d] = copy[d]
      BY <2>2 DEF WriteFile, AgentsTypeOK, Moves, End
    <3> QED
      BY <3>1, <3>2, <3>3 DEF FileInv
  <2> QED
    BY <2>1, <2>2
<1>6. SeenInv'
  BY DEF ReadFile, WriteFile, SeenInv, runVars
<1> QED
  BY <1>1, <1>2, <1>3, <1>4, <1>5, <1>6

-----------------------------------------------------------------------------
(* The theorems *)

\* No process runs yet, and a file may be left from one that was killed.
LEMMA InitOK ==
  ASSUME Init
  PROVE  IInv
<1> USE AgentAssumption, HostsHold DEF Init, Gone, Active
<1>1. AgentsTypeOK
  <2>1. endpoint \in Endpoints \cup {None}
    <3>1. Leftovers \subseteq Endpoints \cup {None}
      BY EndpointType DEF Leftovers
    <3> QED
      BY <3>1
  <2>2. crashes \in 0 .. MaxCrashes
    OBVIOUS
  <2> QED
    BY <2>1, <2>2, Zenon DEF AgentsTypeOK
<1>2. HolderInv /\ DoorInv
  BY DEF HolderInv, DoorInv
<1>3. ThreadInv /\ SeenInv
  BY DEF ThreadInv, SeenInv
<1>4. FileInv
  BY DEF FileInv, EndpointNamesHolder
<1> QED
  BY <1>1, <1>2, <1>3, <1>4 DEF IInv

\* Every step keeps the invariant.
LEMMA StepOK ==
  ASSUME IInv, [Next]_vars
  PROVE  IInv'
<1>1. CASE \E p \in Procs : Launch(p) \/ RunStep(p) \/ Crash(p)
  BY <1>1, StartStep, ServeStep, HeldStep, LauncherAsksStep, EndingStep, VanishStep DEF RunStep
<1>2. CASE \E p \in Procs : MonitorStep(p) \/ LoopStep(p)
  BY <1>2, WatchStep, LoopStopsStep DEF MonitorStep, LoopStep
<1>3. CASE \E c \in Conns : ClientConnects(c) \/ OperatorConnects(c)
  BY <1>3, VisitorStep
<1>4. CASE \E c \in Conns : ThreadStep(c) \/ SessionBegins(c) \/ ThreadEnds(c)
  BY <1>4, ServedStep, AdminStep, WidenStep, FileStep DEF ThreadStep
<1>5. CASE UNCHANGED vars
  BY <1>5 DEF vars, runVars, fileVars, flagVars, doorVars, monVars, connVars, IInv,
     AgentsTypeOK, HolderInv, DoorInv, ThreadInv, FileInv, EndpointNamesHolder, SeenInv, Watched
<1> QED
  BY <1>1, <1>2, <1>3, <1>4, <1>5 DEF Next

\* The inductive invariant.
LEMMA Inductive == AgentsSpec => []IInv
BY InitOK, StepOK, PTL DEF AgentsSpec

\* The variables of the agents have their types, whatever the processes, clients and
\* operators and however many of them crash.
THEOREM AgentsTypeCorrect == AgentsSpec => []AgentsTypeOK
<1>1. IInv => AgentsTypeOK
  BY DEF IInv
<1> QED
  BY <1>1, Inductive, PTL

\* At most one process listens on loopback for an instance at any time: who does serves,
\* who serves holds the lock (run.rs), and the lock has one holder.
THEOREM OneFrontDoorHolds == AgentsSpec => []OneFrontDoor
<1>1. IInv => OneFrontDoor
  BY DEF IInv, HolderInv, DoorInv, OneFrontDoor
<1> QED
  BY <1>1, Inductive, PTL

\* endpoint.json names the agent that holds the lock, from when it serves until it is done
\* (run.rs, admin.rs), unless an admin thread of an agent without the lock has written it.
THEOREM EndpointNamesHolderHolds == AgentsSpec => []EndpointNamesHolder
<1>1. IInv => EndpointNamesHolder
  BY DEF IInv, FileInv
<1> QED
  BY <1>1, Inductive, PTL

\* An agent that ends by itself leaves no accepted connection behind (run.rs waits for the
\* accept loops and then for their threads, and there is no thread after that).
THEOREM SessionsFinishHolds == AgentsSpec => SessionsFinish
<1> DEFINE Left == \A p \in Procs : pc[p] = "removing" /\ pc'[p] = "exited" =>
                     \A c \in Conns : to[c] = p => at[c] \notin Active
<1>1. ASSUME IInv, [Next]_vars
      PROVE  [Left]_vars
  BY <1>1 DEF IInv, ThreadInv
<1>2. AgentsSpec => [][Left]_vars
  BY <1>1, Inductive, PTL DEF AgentsSpec
<1> QED
  BY <1>2 DEF SessionsFinish

=============================================================================
