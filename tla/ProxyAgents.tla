------------------------------- MODULE ProxyAgents -------------------------------
(***************************************************************************)
(* The Probe Agents of one user and instance: singleton.rs, run.rs,        *)
(* listeners.rs, lifetime.rs and admin.rs.  Every process started as       *)
(* `mdbg proxy --daemonized` probes the advisory lock of the instance and  *)
(* becomes the agent, reuses the one that endpoint.json names, or asks an  *)
(* older one to step aside.  The agent accepts connections on one or more  *)
(* addresses until its idle monitor, its drain monitor or an upgrade sets  *)
(* the stop flag and wakes the accept loops; it then waits for the threads *)
(* of its connections.                                                     *)
(*                                                                         *)
(* A connection is <<who, kind>>: a session of a client, an operator's     *)
(* shutdown, a launcher's upgrade or widen.  endpoint.json is the pid, the *)
(* version and the hosts it holds; its state is written and never read.    *)
(***************************************************************************)
EXTENDS Integers, FiniteSets

CONSTANTS
  Procs,       \* processes started for the instance
  Past,        \* those that were killed before any other was started
  Clients,     \* sessions that may be opened
  Operators,   \* `mdbg proxy --shutdown`
  Version,     \* Version[p]: self_version() of p
  Wants,       \* Wants[p]: the addresses p is asked to serve besides loopback
  MaxCrashes,  \* bound: processes that die without running any of their code
  None         \* no process, no file

Loopback == "loopback"

Hosts == {Loopback} \cup UNION {Wants[p] : p \in Procs}
Endpoint(p, hs) == [pid |-> p, version |-> Version[p], hosts |-> hs]
Endpoints == [pid : Procs, version : Nat, hosts : SUBSET Hosts]

ASSUME AgentAssumption ==
  /\ Version \in [Procs -> Nat]
  /\ \A p \in Procs : Loopback \notin Wants[p]
  /\ \A p \in Procs : Cardinality(Wants[p]) <= 1
  /\ Past \subseteq Procs
  /\ MaxCrashes \in Nat
  /\ None \notin Procs \cup Endpoints

Conns ==
  {<<p, "upgrade">> : p \in {n \in Procs : \E o \in Procs : Version[n] > Version[o]}}
    \cup {<<p, "widen">> : p \in {w \in Procs : Wants[w] # {}}}
    \cup (Clients \X {"session"}) \cup (Operators \X {"shutdown"})

VARIABLES
  pc,         \* where run() of each process is
  lock,       \* who holds proxy.lock
  endpoint,   \* endpoint.json
  seen,       \* the endpoint a launcher has read
  stop,       \* stop_flag
  draining,   \* draining
  superseded, \* superseded
  bound,      \* keys of the AcceptSet
  listener,   \* addresses whose accept loop runs
  woken,      \* those with a self-connection in their backlog
  monitors,   \* monitor threads still waiting: "idle", "drain"
  wakers,     \* those that have set the flag and not yet called wake_all
  at,         \* where each connection and its thread are
  to,         \* the process it was opened to
  via,        \* the address it was opened to
  copy,       \* what an admin thread is about to write to endpoint.json
  strayed,    \* history: an agent without the lock has written endpoint.json
  late,       \* history: addresses widened to when the stop flag was already set
  crashes     \* crashes so far

runVars   == <<pc, seen>>
fileVars  == <<lock, endpoint, strayed>>
flagVars  == <<stop, draining, superseded>>
doorVars  == <<bound, listener, woken, late>>
monVars   == <<monitors, wakers>>
connVars  == <<at, to, via, copy>>
vars      == <<runVars, fileVars, flagVars, doorVars, monVars, connVars, crashes>>

\* A connection whose thread has something left to do.
Active == {"accepted", "session", "reading", "writing", "triggering", "waking"}
Gone   == {"exited", "reused", "failed", "crashed"}
Alive(p) == pc[p] \notin Gone \cup {"off"}

\* A killed agent leaves its file.
Leftovers == {Endpoint(p, {Loopback}) : p \in Past} \cup (IF Past = {} THEN {None} ELSE {})

\* Sessions and nothing else hold a reference of the agent's Lifetime.
Refs(p) == Cardinality({c \in Conns : at[c] = "session" /\ to[c] = p})

Init ==
  /\ pc = [p \in Procs |-> IF p \in Past THEN "crashed" ELSE "off"]
  /\ lock = None
  /\ endpoint \in Leftovers
  /\ seen = [p \in Procs |-> None]
  /\ stop = [p \in Procs |-> FALSE]
  /\ draining = [p \in Procs |-> FALSE]
  /\ superseded = [p \in Procs |-> FALSE]
  /\ bound = [p \in Procs |-> {}]
  /\ listener = [p \in Procs |-> {}]
  /\ woken = [p \in Procs |-> {}]
  /\ monitors = [p \in Procs |-> {}]
  /\ wakers = [p \in Procs |-> {}]
  /\ at = [c \in Conns |-> "none"]
  /\ to = [c \in Conns |-> None]
  /\ via = [c \in Conns |-> Loopback]
  /\ copy = [c \in Conns |-> None]
  /\ strayed = FALSE
  /\ late = [p \in Procs |-> {}]
  /\ crashes = 0

-----------------------------------------------------------------------------
(* Connections *)

Moves(c, there) == at' = [at EXCEPT ![c] = there] /\ UNCHANGED <<to, via>>

\* Connections cs are over, each the way `how` says; nothing else is remembered of them.
End(cs, how) ==
  /\ at' = [c \in Conns |-> IF c \in cs THEN how ELSE at[c]]
  /\ to' = [c \in Conns |-> IF c \in cs THEN None ELSE to[c]]
  /\ via' = [c \in Conns |-> IF c \in cs THEN Loopback ELSE via[c]]

\* The kernel accepts a connection as long as the address is listened on.
Connect(c, q, h) ==
  /\ at[c] = "none"
  /\ IF h \in listener[q] THEN
       /\ at' = [at EXCEPT ![c] = "backlog"]
       /\ to' = [to EXCEPT ![c] = q]
       /\ via' = [via EXCEPT ![c] = h]
     ELSE End({c}, "refused")
  /\ UNCHANGED copy

ClientConnects(c) ==
  /\ c[2] = "session"
  /\ \E q \in Procs : \E h \in listener[q] : Connect(c, q, h)
  /\ UNCHANGED <<runVars, fileVars, flagVars, doorVars, monVars, crashes>>

OperatorConnects(c) ==
  /\ c[2] = "shutdown"
  /\ endpoint # None
  /\ Connect(c, endpoint.pid, Loopback)
  /\ UNCHANGED <<runVars, fileVars, flagVars, doorVars, monVars, crashes>>

Backlog(p, h) == {c \in Conns : at[c] = "backlog" /\ to[c] = p /\ via[c] = h}

\* accept() returns the self-connection or a client and the loop sees the flag: the
\* listener is dropped, and with it what else hangs on it.
LoopStops(p, h) ==
  /\ h \in listener[p]
  /\ stop[p]
  /\ h \in woken[p] \/ Backlog(p, h) # {}
  /\ listener' = [listener EXCEPT ![p] = @ \ {h}]
  /\ woken' = [woken EXCEPT ![p] = @ \ {h}]
  /\ End(Backlog(p, h), "closed")
  /\ UNCHANGED <<runVars, fileVars, flagVars, bound, late, monVars, copy, crashes>>

\* accept() returns a client: it is refused while draining, or given a tracked thread.
Accept(c) ==
  /\ at[c] = "backlog"
  /\ ~stop[to[c]]
  /\ IF draining[to[c]] THEN End({c}, "closed") ELSE Moves(c, "accepted")
  /\ UNCHANGED <<runVars, fileVars, flagVars, doorVars, monVars, copy, crashes>>

\* discriminate() sees a session: from here on it holds a reference.
SessionBegins(c) ==
  /\ c[2] = "session" /\ at[c] = "accepted"
  /\ Moves(c, "session")
  /\ UNCHANGED <<runVars, fileVars, flagVars, doorVars, monVars, copy, crashes>>

\* A client that says nothing for 5 s, or leaves; a session that ends.
ThreadEnds(c) ==
  /\ at[c] = "accepted" \/ at[c] = "session"
  /\ End({c}, "closed")
  /\ UNCHANGED <<runVars, fileVars, flagVars, doorVars, monVars, copy, crashes>>

-----------------------------------------------------------------------------
(* Shutting down *)

Watched(p) == pc[p] \in {"serving", "joined", "finishing", "removing"}

\* wait_until_idle returned: no reference for the idle window, or at all when draining.
MonitorFires(p, m) ==
  /\ Watched(p)
  /\ m \in monitors[p]
  /\ Refs(p) = 0
  /\ monitors' = [monitors EXCEPT ![p] = @ \ {m}]
  /\ stop' = [stop EXCEPT ![p] = TRUE]
  /\ wakers' = [wakers EXCEPT ![p] = @ \cup {m}]
  /\ UNCHANGED <<runVars, fileVars, draining, superseded, doorVars, connVars, crashes>>

\* Faulty variant: only the published address is woken.
WakePublished(p) == woken' = [woken EXCEPT ![p] = @ \cup ({Loopback} \cap listener[p])]

\* Faulty variant: the loops that have ended are counted in.
WakeBound(p) == woken' = [woken EXCEPT ![p] = @ \cup bound[p]]

\* A self-connection to every address of the set whose loop still runs.
WakeAll(p) == woken' = [woken EXCEPT ![p] = @ \cup (bound[p] \cap listener[p])]

MonitorWakes(p, m) ==
  /\ Watched(p)
  /\ m \in wakers[p]
  /\ WakeAll(p)
  /\ wakers' = [wakers EXCEPT ![p] = @ \ {m}]
  /\ UNCHANGED <<runVars, fileVars, flagVars, bound, listener, late, monitors, connVars, crashes>>

-----------------------------------------------------------------------------
(* Admin requests, in a thread each *)

\* begin_drain
Shutdown(c) ==
  LET p == to[c] IN
  /\ c[2] = "shutdown" /\ at[c] = "accepted"
  /\ draining' = [draining EXCEPT ![p] = TRUE]
  /\ IF draining[p] THEN End({c}, "replied") ELSE Moves(c, "reading")
  /\ UNCHANGED <<runVars, fileVars, stop, superseded, doorVars, monVars, copy, crashes>>

\* begin_upgrade
Upgrade(c) ==
  LET p == to[c] IN
  /\ c[2] = "upgrade" /\ at[c] = "accepted"
  /\ IF Version[c[1]] <= Version[p] THEN
       /\ End({c}, "closed")
       /\ UNCHANGED <<superseded, draining>>
     ELSE IF superseded[p] THEN
       /\ End({c}, "replied")
       /\ UNCHANGED <<superseded, draining>>
     ELSE
       /\ superseded' = [superseded EXCEPT ![p] = TRUE]
       /\ draining' = [draining EXCEPT ![p] = TRUE]
       /\ Moves(c, "reading")
  /\ UNCHANGED <<runVars, fileVars, stop, doorVars, monVars, copy, crashes>>

\* widen: an address of the set is left as it is, another is bound and accepted on.
Widen(c) ==
  LET p == to[c] IN
  /\ c[2] = "widen" /\ at[c] = "accepted"
  /\ \E h \in Wants[c[1]] :
       /\ bound' = [bound EXCEPT ![p] = @ \cup {h}]
       /\ listener' = [listener EXCEPT ![p] = IF h \in bound[p] THEN @ ELSE @ \cup {h}]
       /\ late' = [late EXCEPT ![p] = IF stop[p] /\ h \notin bound[p] THEN @ \cup {h} ELSE @]
  /\ Moves(c, "reading")
  /\ UNCHANGED <<runVars, fileVars, flagVars, woken, monVars, copy, crashes>>

\* The address cannot be bound.
WidenFails(c) ==
  /\ c[2] = "widen" /\ at[c] = "accepted"
  /\ ~(Wants[c[1]] \subseteq bound[to[c]])
  /\ End({c}, "replied")
  /\ UNCHANGED <<runVars, fileVars, flagVars, doorVars, monVars, copy, crashes>>

\* What follows the update of the file: a shutdown starts its monitor, an upgrade pulls
\* the trigger, a widen is done.
Updated(c) ==
  /\ IF c[2] = "upgrade" THEN Moves(c, "triggering") ELSE End({c}, "replied")
  /\ monitors' = IF c[2] = "shutdown" THEN [monitors EXCEPT ![to[c]] = @ \cup {"drain"}]
                 ELSE monitors

\* read_endpoint; nothing is written when there is no file.
ReadFile(c) ==
  /\ at[c] = "reading"
  /\ IF endpoint = None THEN
       /\ Updated(c)
       /\ UNCHANGED copy
     ELSE
       /\ Moves(c, "writing")
       /\ copy' = [copy EXCEPT ![c] =
            IF c[2] = "widen" THEN [endpoint EXCEPT !.hosts = bound[to[c]]] ELSE endpoint]
       /\ UNCHANGED monitors
  /\ UNCHANGED <<runVars, fileVars, flagVars, doorVars, wakers, crashes>>

\* write_endpoint_atomic, of what was read.
WriteFile(c) ==
  /\ at[c] = "writing"
  /\ endpoint' = copy[c]
  /\ strayed' = (strayed \/ lock # to[c])
  /\ copy' = [copy EXCEPT ![c] = None]
  /\ Updated(c)
  /\ UNCHANGED <<runVars, lock, flagVars, doorVars, wakers, crashes>>

UpgradeTriggers(c) ==
  /\ at[c] = "triggering"
  /\ stop' = [stop EXCEPT ![to[c]] = TRUE]
  /\ Moves(c, "waking")
  /\ UNCHANGED <<runVars, fileVars, draining, superseded, doorVars, monVars, copy, crashes>>

UpgradeWakes(c) ==
  /\ at[c] = "waking"
  /\ WakeAll(to[c])
  /\ End({c}, "replied")
  /\ UNCHANGED <<runVars, fileVars, flagVars, bound, listener, late, monVars, copy, crashes>>

-----------------------------------------------------------------------------
(* run(): becoming the agent *)

Goes(p, there) == pc' = [pc EXCEPT ![p] = there]

Launch(p) ==
  /\ pc[p] = "off"
  /\ Goes(p, "probing")
  /\ UNCHANGED <<seen, fileVars, flagVars, doorVars, monVars, connVars, crashes>>

\* try_write(): the guard of a probe that succeeds is dropped at once, but not before it
\* was taken.
Probe(p) ==
  /\ pc[p] = "probing"
  /\ lock' = IF lock = None THEN p ELSE lock
  /\ Goes(p, IF lock = None THEN "probed" ELSE "held")
  /\ UNCHANGED <<seen, endpoint, strayed, flagVars, doorVars, monVars, connVars, crashes>>

ProbeAgain(p) ==
  /\ pc[p] = "waiting"
  /\ lock = None
  /\ lock' = p
  /\ Goes(p, "freed")
  /\ UNCHANGED <<seen, endpoint, strayed, flagVars, doorVars, monVars, connVars, crashes>>

DropProbe(p) ==
  /\ pc[p] \in {"probed", "freed"}
  /\ lock' = None
  /\ Goes(p, IF pc[p] = "probed" THEN "waiting" ELSE "taking")
  /\ UNCHANGED <<seen, endpoint, strayed, flagVars, doorVars, monVars, connVars, crashes>>

\* After 10 s.
WaitTimesOut(p) ==
  /\ pc[p] = "waiting"
  /\ lock # None
  /\ Goes(p, "failed")
  /\ UNCHANGED <<seen, fileVars, flagVars, doorVars, monVars, connVars, crashes>>

\* The lock for good, unless another process was quicker.
Take(p) ==
  /\ pc[p] = "taking"
  /\ lock' = IF lock = None THEN p ELSE lock
  /\ Goes(p, IF lock = None THEN "owner" ELSE "failed")
  /\ UNCHANGED <<seen, endpoint, strayed, flagVars, doorVars, monVars, connVars, crashes>>

RemoveStale(p) ==
  /\ pc[p] = "owner"
  /\ endpoint' = None
  /\ Goes(p, "binding")
  /\ UNCHANGED <<seen, lock, strayed, flagVars, doorVars, monVars, connVars, crashes>>

\* Loopback must be bound, the address asked for may fail to; then the file is published
\* and the accept loops start.
Serve(p) ==
  /\ pc[p] = "binding"
  /\ \E hs \in {{}, Wants[p]} :
       /\ bound' = [bound EXCEPT ![p] = {Loopback} \cup hs]
       /\ listener' = [listener EXCEPT ![p] = {Loopback} \cup hs]
       /\ endpoint' = Endpoint(p, {Loopback} \cup hs)
  /\ monitors' = [monitors EXCEPT ![p] = {"idle"}]
  /\ Goes(p, "serving")
  /\ UNCHANGED <<seen, lock, strayed, flagVars, woken, late, wakers, connVars, crashes>>

BindFails(p) ==
  /\ pc[p] = "binding"
  /\ lock' = None
  /\ Goes(p, "failed")
  /\ UNCHANGED <<seen, endpoint, strayed, flagVars, doorVars, monVars, connVars, crashes>>

-----------------------------------------------------------------------------
(* acquire_or_reuse(): another process holds the lock *)

\* A newer launcher asks the agent to step aside, any other reuses it.
ReadEndpoint(p) ==
  /\ pc[p] = "held"
  /\ endpoint # None
  /\ seen' = [seen EXCEPT ![p] = endpoint]
  /\ Goes(p, IF Version[p] > endpoint.version THEN "asking" ELSE "reusing")
  /\ UNCHANGED <<fileVars, flagVars, doorVars, monVars, connVars, crashes>>

\* No file for 2 s.
ReadGivesUp(p) ==
  /\ pc[p] = "held"
  /\ endpoint = None
  /\ Goes(p, "failed")
  /\ UNCHANGED <<seen, fileVars, flagVars, doorVars, monVars, connVars, crashes>>

Ask(p) ==
  /\ pc[p] = "asking"
  /\ Connect(<<p, "upgrade">>, seen[p].pid, Loopback)
  /\ UNCHANGED <<runVars, fileVars, flagVars, doorVars, monVars, crashes>>

AskAnswered(p) ==
  /\ pc[p] = "asking"
  /\ at[<<p, "upgrade">>] = "replied"
  /\ Goes(p, "waiting")
  /\ UNCHANGED <<seen, fileVars, flagVars, doorVars, monVars, connVars, crashes>>

\* Refused, closed without a word, or no answer for 5 s: the agent is reused after all.
AskFails(p) ==
  /\ pc[p] = "asking"
  /\ at[<<p, "upgrade">>] \notin {"none", "replied"}
  /\ Goes(p, "reusing")
  /\ UNCHANGED <<seen, fileVars, flagVars, doorVars, monVars, connVars, crashes>>

\* widen_running_proxy, when an address is asked for that the file does not list.
AskToWiden(p) ==
  /\ pc[p] = "reusing"
  /\ ~(Wants[p] \subseteq seen[p].hosts)
  /\ Connect(<<p, "widen">>, seen[p].pid, Loopback)
  /\ UNCHANGED <<runVars, fileVars, flagVars, doorVars, monVars, crashes>>

\* Answered or not, the endpoint that was read is printed as ready.
Reuse(p) ==
  /\ pc[p] = "reusing"
  /\ \/ Wants[p] \subseteq seen[p].hosts
     \/ \E c \in Conns : c = <<p, "widen">> /\ at[c] # "none"
  /\ seen' = [seen EXCEPT ![p] = None]
  /\ Goes(p, "reused")
  /\ UNCHANGED <<fileVars, flagVars, doorVars, monVars, connVars, crashes>>

-----------------------------------------------------------------------------
(* run(): the end of the agent *)

\* Faulty variant: run() moves on as soon as the stop flag is set.
JoinNoListener(p) ==
  /\ pc[p] = "serving"
  /\ stop[p]
  /\ bound' = [bound EXCEPT ![p] = {}]
  /\ Goes(p, "joined")
  /\ UNCHANGED <<seen, fileVars, flagVars, listener, woken, late, monVars, connVars, crashes>>

\* AcceptSet::join_all
JoinListeners(p) ==
  /\ pc[p] = "serving"
  /\ bound[p] \cap listener[p] = {}
  /\ bound' = [bound EXCEPT ![p] = {}]
  /\ Goes(p, "joined")
  /\ UNCHANGED <<seen, fileVars, flagVars, listener, woken, late, monVars, connVars, crashes>>

\* A superseded agent lets go of the lock before its connections have ended.
HandOver(p) ==
  /\ pc[p] = "joined"
  /\ lock' = IF superseded[p] THEN None ELSE lock
  /\ Goes(p, "finishing")
  /\ UNCHANGED <<seen, endpoint, strayed, flagVars, doorVars, monVars, connVars, crashes>>

\* Faulty variant: run() waits for the references instead of the threads.
FinishIdle(p) ==
  /\ pc[p] = "finishing"
  /\ Refs(p) = 0
  /\ endpoint' = IF lock = p THEN None ELSE endpoint
  /\ Goes(p, "removing")
  /\ UNCHANGED <<seen, lock, strayed, flagVars, doorVars, monVars, connVars, crashes>>

\* Faulty variant: the file is removed whoever it belongs to.
FinishRemoves(p) ==
  /\ pc[p] = "finishing"
  /\ \A c \in Conns : to[c] = p => at[c] \notin Active
  /\ endpoint' = None
  /\ Goes(p, "removing")
  /\ UNCHANGED <<seen, lock, strayed, flagVars, doorVars, monVars, connVars, crashes>>

\* Every connection thread has been joined; who was not superseded removes the file.
Finish(p) ==
  /\ pc[p] = "finishing"
  /\ \A c \in Conns : to[c] = p => at[c] \notin Active
  /\ endpoint' = IF lock = p THEN None ELSE endpoint
  /\ Goes(p, "removing")
  /\ UNCHANGED <<seen, lock, strayed, flagVars, doorVars, monVars, connVars, crashes>>

\* What is left of a process that is gone: no lock, sockets, threads or memory.
Vanish(p) ==
  /\ lock' = IF lock = p THEN None ELSE lock
  /\ bound' = [bound EXCEPT ![p] = {}]
  /\ listener' = [listener EXCEPT ![p] = {}]
  /\ woken' = [woken EXCEPT ![p] = {}]
  /\ monitors' = [monitors EXCEPT ![p] = {}]
  /\ wakers' = [wakers EXCEPT ![p] = {}]
  /\ stop' = [stop EXCEPT ![p] = FALSE]
  /\ draining' = [draining EXCEPT ![p] = FALSE]
  /\ superseded' = [superseded EXCEPT ![p] = FALSE]
  /\ late' = [late EXCEPT ![p] = {}]
  /\ seen' = [seen EXCEPT ![p] = None]
  /\ End({c \in Conns : to[c] = p}, "closed")
  /\ copy' = [c \in Conns |-> IF to[c] = p THEN None ELSE copy[c]]

Exit(p) ==
  /\ pc[p] = "removing"
  /\ Vanish(p)
  /\ Goes(p, "exited")
  /\ UNCHANGED <<endpoint, strayed, crashes>>

Crash(p) ==
  /\ Alive(p)
  /\ crashes < MaxCrashes
  /\ crashes' = crashes + 1
  /\ Vanish(p)
  /\ Goes(p, "crashed")
  /\ UNCHANGED <<endpoint, strayed>>

-----------------------------------------------------------------------------

RunStep(p) ==
  \/ Probe(p) \/ ProbeAgain(p) \/ DropProbe(p) \/ WaitTimesOut(p) \/ Take(p)
  \/ RemoveStale(p) \/ Serve(p) \/ BindFails(p)
  \/ ReadEndpoint(p) \/ ReadGivesUp(p)
  \/ Ask(p) \/ AskAnswered(p) \/ AskFails(p) \/ AskToWiden(p) \/ Reuse(p)
  \/ JoinListeners(p) \/ HandOver(p) \/ Finish(p) \/ Exit(p)

ThreadStep(c) ==
  \/ Accept(c) \/ Shutdown(c) \/ Upgrade(c) \/ Widen(c) \/ WidenFails(c)
  \/ ReadFile(c) \/ WriteFile(c) \/ UpgradeTriggers(c) \/ UpgradeWakes(c)

MonitorStep(p) ==
  \E m \in {"idle", "drain"} : MonitorFires(p, m) \/ MonitorWakes(p, m)

LoopStep(p) == \E h \in Hosts : LoopStops(p, h)

Next ==
  \/ \E p \in Procs : Launch(p) \/ RunStep(p) \/ MonitorStep(p) \/ LoopStep(p) \/ Crash(p)
  \/ \E c \in Conns : ClientConnects(c) \/ OperatorConnects(c) \/ ThreadStep(c)
                        \/ SessionBegins(c) \/ ThreadEnds(c)

\* What is never left undone: threads run, the accept loops return what hangs on them, and
\* the timeouts of the launcher expire.  The idle monitor may be disabled (--idle-timeout 0);
\* clients, operators, sessions and crashes are the environment's.
Progress ==
  \/ \E p \in Procs : RunStep(p) \/ MonitorFires(p, "drain") \/ LoopStep(p)
  \/ \E p \in Procs : \E m \in {"idle", "drain"} : MonitorWakes(p, m)
  \/ \E c \in Conns : ThreadStep(c)

\* No behaviour takes infinitely many of these steps, so one condition on all of them leaves
\* none enabled for ever.
AgentsSpec == Init /\ [][Next]_vars /\ WF_vars(Progress)

-----------------------------------------------------------------------------
(* Properties *)

\* The variables have their types.
AgentsTypeOK ==
  /\ pc \in [Procs -> {"off", "probing", "probed", "held", "asking", "reusing", "waiting",
                       "freed", "taking", "owner", "binding", "serving", "joined",
                       "finishing", "removing"} \cup Gone]
  /\ lock \in Procs \cup {None}
  /\ endpoint \in Endpoints \cup {None}
  /\ seen \in [Procs -> Endpoints \cup {None}]
  /\ stop \in [Procs -> BOOLEAN] /\ draining \in [Procs -> BOOLEAN]
  /\ superseded \in [Procs -> BOOLEAN]
  /\ bound \in [Procs -> SUBSET Hosts] /\ listener \in [Procs -> SUBSET Hosts]
  /\ woken \in [Procs -> SUBSET Hosts]
  /\ \A p \in Procs : woken[p] \subseteq listener[p]
  /\ monitors \in [Procs -> SUBSET {"idle", "drain"}]
  /\ wakers \in [Procs -> SUBSET {"idle", "drain"}]
  /\ at \in [Conns -> Active \cup {"none", "backlog", "refused", "closed", "replied"}]
  /\ to \in [Conns -> Procs \cup {None}] /\ via \in [Conns -> Hosts]
  /\ copy \in [Conns -> Endpoints \cup {None}]
  /\ strayed \in BOOLEAN /\ late \in [Procs -> SUBSET Hosts]
  /\ crashes \in 0 .. MaxCrashes

\* Two processes never listen on loopback for one instance: run() lets go of the lock only
\* when every accept loop has ended, and nobody binds without the lock.  Each has a port of
\* its own, so the kernel would not object.
OneFrontDoor ==
  \A p, q \in Procs : Loopback \in listener[p] /\ Loopback \in listener[q] => p = q

\* endpoint.json names the agent that holds the lock, from when it serves until it is done,
\* across crashes, hand-overs and the end of its predecessor; unless an admin thread of the
\* predecessor, caught between its read and its write of the file, has overwritten it.
EndpointNamesHolder ==
  \A p \in Procs :
    /\ pc[p] \in {"serving", "joined", "finishing"}
    /\ lock = p
    /\ ~strayed
    => endpoint # None /\ endpoint.pid = p

\* An agent that ends by itself leaves no connection it has accepted behind, whether the
\* end came from idling, a drain or an upgrade, and though a thread counts as a session
\* only once it has seen the first byte.
SessionsFinish ==
  [][\A p \in Procs : pc[p] = "removing" /\ pc'[p] = "exited" =>
       \A c \in Conns : to[c] = p => at[c] \notin Active]_vars

Busy(p) == \E c \in Conns : to[c] = p /\ at[c] \in {"accepted", "session"}

\* An agent that drains or stops never stays, once its sessions have ended, on whatever
\* addresses its accept loops wait.  Not so where one was added after the stop flag was set
\* (`late`): what is added behind wake_all's list nobody wakes.
ShutdownEnds ==
  \A p \in Procs :
    []<>~(Alive(p) /\ (draining[p] \/ stop[p]) /\ ~Busy(p) /\ late[p] = {})

=============================================================================
