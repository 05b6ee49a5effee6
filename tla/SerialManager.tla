----------------------------- MODULE SerialManager -----------------------------
(***************************************************************************)
(* The serial manager of the extension and of the CLI (serial-manager.ts)  *)
(* with one Probe Agent it reaches by the funnel: the connection, the      *)
(* listener of each channel, the views that connect to them, a debug       *)
(* session that opens the configured ports, and the reconnects of ports    *)
(* whose device was lost.                                                  *)
(*                                                                         *)
(* JavaScript runs one continuation at a time: an action is what happens   *)
(* between two awaits. A listener is named by its channel: closePort never *)
(* finds it by its TCP port (tcp_port is null for a funnel), so a          *)
(* connection keeps the listener of every channel it ever had.             *)
(***************************************************************************)
EXTENDS SerialAgent

CONSTANTS
  Session,      \* the task of createSerialPorts
  MaxPending,   \* MaxPendingBytes of a listener
  KeepPending,  \* KeepPendingBytes
  MaxEarly,     \* MaxEarlyStreamBytes
  Labellings,   \* the sets of paths that may be configured with a label
  MaxSessions, MaxCloses, MaxTyped, MaxFaults   \* bounds

ASSUME ManagerAssumption ==
  /\ Session \notin Paths
  /\ {MaxPending, KeepPending, MaxEarly} \subseteq Nat
  /\ KeepPending <= MaxPending
  /\ Labellings \subseteq SUBSET Paths
  /\ {MaxSessions, MaxCloses, MaxTyped, MaxFaults} \subseteq Nat

Nobody == "nobody"
Old    == "old"                       \* the views another view of their path replaced
Tasks  == Paths \union {Session}      \* a path: its attemptReconnect

VARIABLES
  sock,       \* the control socket: "none", "up", "dead" (its close not seen)
  available,  \* availablePorts
  openPorts,  \* paths with an entry in openPorts
  listener,   \* a channel's, in clientStreams: "none", "binding", "bound", "failed"
  early,      \* earlyStreamData, by channel
  pending,    \* bytes a listener holds for a client
  client,     \* the view, of a path or Old, whose socket a listener has
  configs,    \* paths in serialPortConfigs
  views,      \* paths in serialPortViews
  timers,     \* paths in reconnectTimers
  tabs,       \* paths the host shows a tab for
  labelled,   \* paths whose tab has its label, or a prefix of the CLI, for a name
  port,       \* the listener a path's view was told
  link,       \* the listener its socket is connected to, or 0
  dials,      \* listeners a view, or the Old ones, have sockets dialing to
  cut,        \* paths whose view has a socket that its listener destroyed
  task,       \* what each task awaits
  todo,       \* ports the session has still to open
  shown,      \* bytes a path's view showed
  dropped,    \* channels that lost bytes to a full buffer
  doubt,      \* what befell a path's port or view, as <<path, why>> (history)
  budget      \* what the bounds have left

wireVars    == <<sock, available, openPorts>>
streamVars  == <<listener, early, pending, dropped>>
socketVars  == <<client, port, link, dials, cut>>
viewVars    == <<socketVars, tabs, labelled, shown>>
policyVars  == <<configs, views, timers>>
taskVars    == <<task, todo>>
managerVars == <<wireVars, streamVars, viewVars, policyVars, taskVars, doubt, budget>>
vars        == <<agentVars, managerVars>>

Idle       == [at |-> "idle", path |-> Nobody, chan |-> 0]
At(w, p)   == [at |-> w, path |-> p, chan |-> 0]
Become(t, s) == task' = [task EXCEPT ![t] = s]

\* Each bound is a number of times left.
Spend(b) == budget[b] > 0 /\ budget' = [budget EXCEPT ![b] = @ - 1]

ManagerInit ==
  /\ sock = "none" /\ available = {} /\ openPorts = {}
  /\ listener = [c \in Chans |-> "none"] /\ dropped = {}
  /\ early = [c \in Chans |-> << >>] /\ pending = [c \in Chans |-> << >>]
  /\ client = [c \in Chans |-> Nobody]
  /\ configs = {} /\ views = {} /\ timers = {} /\ tabs = {}
  /\ labelled \in Labellings
  /\ port = [p \in Paths |-> 0] /\ link = [p \in Paths |-> 0]
  /\ dials = [v \in Paths \union {Old} |-> << >>] /\ cut = {}
  /\ task = [t \in Tasks |-> Idle] /\ todo = {}
  /\ shown = [p \in Paths |-> << >>]
  /\ doubt = {}
  /\ budget = [sessions |-> MaxSessions, closes |-> MaxCloses,
               typed |-> MaxTyped, faults |-> MaxFaults]

-----------------------------------------------------------------------------
(* Bytes: listeners, the views connected to them, what waits for either. *)

\* While bytes exceed the keep mark, whole chunks go from the front.
Trimmed(bytes) ==
  IF Len(bytes) > MaxPending
    THEN SubSeq(bytes, Len(bytes) - (IF KeepPending = 0 THEN 1 ELSE KeepPending) + 1, Len(bytes))
    ELSE bytes

Connected(c) == client[c] # Nobody

\* What a view shows; what an old one does is not followed.
Seen(v, bytes) == IF v \in Paths THEN [shown EXCEPT ![v] = @ \o bytes] ELSE shown

\* dataFromServer: to the connected view, else held for one.
DataFromServer(c, bytes) ==
  LET held == pending[c] \o bytes IN
  IF Connected(c)
    THEN /\ shown' = Seen(client[c], bytes)
         /\ UNCHANGED <<pending, dropped>>
    ELSE /\ pending' = [pending EXCEPT ![c] = Trimmed(held)]
         /\ dropped' = IF Len(held) > MaxPending THEN dropped \union {c} ELSE dropped
         /\ UNCHANGED shown

\* A stream nobody registered yet: kept up to a cap, and nothing after it.
BufferEarlyStreamData(c, b) ==
  /\ IF Len(early[c]) < MaxEarly /\ c \notin dropped
       THEN early' = [early EXCEPT ![c] = Append(@, b)] /\ UNCHANGED dropped
       ELSE dropped' = dropped \union {c} /\ UNCHANGED early
  /\ UNCHANGED <<pending, shown>>

\* listen() of a new listener; one that was made stays as it is.
Listen(c) == listener' = IF listener[c] = "none" THEN [listener EXCEPT ![c] = "binding"] ELSE listener

\* (Mutant: what came early is not taken out of earlyStreamData.)
EnsureRepeatedly(c) ==
  /\ Listen(c)
  /\ UNCHANGED early
  /\ DataFromServer(c, early[c])

\* The listener of a channel, made or found, gets what came before it.
EnsureStreamServer(c) ==
  /\ Listen(c)
  /\ early' = [early EXCEPT ![c] = << >>]
  /\ DataFromServer(c, early[c])

-----------------------------------------------------------------------------
(* The sockets of the views.  A view keeps the socket that connected last;  *)
(* one that is dialing is out of its reach, and one it forgot stays open.   *)

\* What befalls a port or its view, and stays until what ends it.
Mark(p, why)  == doubt \union {<<p, why>>}
Clear(p, whys) == doubt \ ({p} \X whys)

\* destroySocket: the listener's client is gone, unless it was destroyed there.
Unlinked(p) == [c \in Chans |-> IF c = link[p] /\ client[c] = p THEN Nobody ELSE client[c]]

DestroySocket(p) ==
  /\ link' = [link EXCEPT ![p] = 0]
  /\ client' = Unlinked(p)

\* Another socket of the view, or of an old one to the same listener, is under way.
DialsAlready(p, c) == dials[p] # << >> \/ Contains(dials[Old], c)

\* restartSocket of the view to a listener.
Dial(p, c) ==
  /\ DestroySocket(p)
  /\ port' = [port EXCEPT ![p] = c]
  /\ dials' = [dials EXCEPT ![p] = Append(@, c)]
  /\ doubt' = IF DialsAlready(p, c) \/ p \in cut THEN Mark(p, "redialed")
                                            ELSE Clear(p, {"undialed", "redialed"})
  /\ UNCHANGED cut

SetTcpPort(p, c) ==
  IF port[p] = c /\ link[p] # 0 THEN UNCHANGED <<socketVars, doubt>> ELSE Dial(p, c)

\* A new view dials; the path's last one, if there was one, keeps its sockets.
NewView(p, c) ==
  /\ link' = [link EXCEPT ![p] = 0]
  /\ client' = [d \in Chans |-> IF client[d] = p THEN Old ELSE client[d]]
  /\ port' = [port EXCEPT ![p] = c]
  /\ dials' = [dials EXCEPT ![Old] = @ \o dials[p], ![p] = <<c>>]
  /\ cut' = cut \ {p}
  /\ doubt' = IF DialsAlready(p, c) THEN Mark(p, "redialed") ELSE Clear(p, {"undialed", "redialed"})

\* The listener accepts: what it held is written to the new client, the one it
\* had is destroyed, and the view keeps the new socket.
ViewConnects(v) ==
  \E c \in Range(dials[v]) :
    /\ dials' = [dials EXCEPT ![v] = Remove(@, c)]
    /\ client' = [client EXCEPT ![c] = v]
    /\ cut' = cut \union ({client[c]} \intersect Paths)
    /\ link' = [p \in Paths |-> IF p = v THEN c ELSE link[p]]
    /\ shown' = Seen(v, pending[c])
    /\ pending' = [pending EXCEPT ![c] = << >>]
    /\ UNCHANGED <<agentVars, wireVars, listener, early, dropped, tabs, labelled, port>>
    /\ UNCHANGED <<policyVars, taskVars, doubt, budget>>

\* The view's socket that a listener destroyed closes: the view destroys the one
\* it keeps, whichever that is.
SocketEnds(p) ==
  /\ p \in cut
  /\ cut' = cut \ {p}
  /\ DestroySocket(p)
  /\ UNCHANGED <<agentVars, wireVars, streamVars, tabs, labelled, port, dials, shown>>
  /\ UNCHANGED <<policyVars, taskVars, doubt, budget>>

\* A byte typed into a view leaves with its listener's channel.
Types(p) ==
  /\ link[p] # 0 /\ client[link[p]] = p /\ sock = "up"
  /\ Spend("typed")
  /\ toAgent' = Append(toAgent, [k |-> "input", path |-> p, chan |-> link[p]])
  /\ UNCHANGED <<up, deviceVars, listed, sessionVars, events, toClient, misfed, deaths>>
  /\ UNCHANGED <<wireVars, streamVars, viewVars, policyVars, taskVars, doubt>>

-----------------------------------------------------------------------------
(* Requests: sendControlCommand, its answer, its timer. *)

Ask(t, op, p) == [k |-> op, to |-> t, path |-> p]

\* The frame is written; a socket that is gone swallows it.
Write(frame) == toAgent' = IF sock = "up" /\ up THEN Append(toAgent, frame) ELSE toAgent

agentButInput == <<up, deviceVars, listed, sessionVars, events, toClient, misfed, deaths>>
agentButFrames == <<up, deviceVars, listed, sessionVars, events, misfed, deaths>>

Awaiting == {"subscribing", "opening"}

\* Frames of task t, on their way there or back.
OfTask(t, q) == {i \in DOMAIN q : q[i].k \in {"subscribe", "open", "answer"} /\ q[i].to = t}
Answerable(t) == OfTask(t, toAgent) # {} \/ OfTask(t, toClient) # {}

\* (Mutant: a reconnect that fails is not scheduled again.)
GiveUpForGood(t) ==
  /\ Become(t, IF t = Session THEN At("next", Nobody) ELSE Idle)
  /\ UNCHANGED timers

\* An open that failed: the session goes on to its next port, a reconnect
\* is tried again later.
GiveUp(t) ==
  IF t = Session
    THEN /\ Become(t, At("next", Nobody))
         /\ UNCHANGED timers
    ELSE /\ Become(t, Idle)
         /\ timers' = timers \union {t}

\* 5 s passed. If the answer is still to come it will find nobody.
TimerExpires(t) ==
  /\ task[t].at \in Awaiting
  /\ IF Answerable(t)
       THEN /\ Spend("faults")
            /\ toAgent'  = [i \in DOMAIN toAgent |-> IF i \in OfTask(t, toAgent)
                               THEN [toAgent[i] EXCEPT !.to = Nobody] ELSE toAgent[i]]
            /\ toClient' = [i \in DOMAIN toClient |-> IF i \in OfTask(t, toClient)
                               THEN [toClient[i] EXCEPT !.to = Nobody] ELSE toClient[i]]
            /\ doubt' = IF task[t].at = "opening" THEN Mark(task[t].path, "late") ELSE doubt
       ELSE UNCHANGED <<budget, toAgent, toClient, doubt>>
  /\ IF task[t].at = "opening" THEN GiveUp(t)
                               ELSE Become(t, At("next", Nobody)) /\ UNCHANGED timers
  /\ UNCHANGED <<agentButFrames, wireVars, streamVars, viewVars, configs, views, todo>>

-----------------------------------------------------------------------------
(* A debug session: connect, subscribe, open the configured ports. *)

\* createSerialPorts up to its connect(), with the proxy resolved.
StartSession ==
  /\ task[Session].at = "idle" /\ Spend("sessions")
  /\ Become(Session, At("connecting", Nobody))
  /\ todo' = Paths
  /\ UNCHANGED <<agentVars, wireVars, streamVars, viewVars, policyVars, doubt>>

\* A socket that is not destroyed is kept; a new one starts by subscribing.
Connect ==
  /\ task[Session].at = "connecting"
  /\ \/ /\ sock # "none"
        /\ Become(Session, At("next", Nobody))
        /\ UNCHANGED <<sock, toAgent, todo>>
     \/ /\ sock = "none" /\ up
        /\ sock' = "up"
        /\ toAgent' = Append(toAgent, Ask(Session, "subscribe", Nobody))
        /\ Become(Session, At("subscribing", Nobody))
        /\ UNCHANGED todo
     \/ /\ sock = "none" /\ ~up
        /\ Become(Session, Idle) /\ todo' = {}
        /\ UNCHANGED <<sock, toAgent>>
  /\ UNCHANGED <<agentButInput, available, openPorts, streamVars, viewVars, policyVars, doubt, budget>>

\* waitForAvailableSnapshot: a list that is not empty ends the wait, and so
\* does its timer.
SnapshotEnds ==
  /\ task[Session].at = "listing"
  /\ Become(Session, At("next", Nobody))
  /\ UNCHANGED <<agentVars, wireVars, streamVars, viewVars, policyVars, todo, doubt, budget>>

\* The next port of the session; a send without a socket is rejected.
OpenNext ==
  /\ task[Session].at = "next"
  /\ IF todo = {}
       THEN Become(Session, Idle) /\ UNCHANGED <<todo, toAgent, doubt>>
       ELSE \E p \in todo :
              /\ todo' = todo \ {p}
              /\ doubt' = Clear(p, {"crossing"})
              /\ IF sock = "none"
                   THEN UNCHANGED <<task, toAgent>>
                   ELSE /\ Write(Ask(Session, "open", p))
                        /\ Become(Session, At("opening", p))
  /\ UNCHANGED <<agentButInput, wireVars, streamVars, viewVars, policyVars, budget>>

\* A listener of ours is being bound for p, which takes far less than 3 s.
Binding(p) == \E t \in Tasks : task[t].path = p /\ task[t].at \in {"answered", "binding"}

\* What an open that is answered mends, unless another's listener is still being
\* bound; an end of the port that crossed this one too has yet to come.
Mended == {"late", "lost", "crossed", "unbound"}
Mend(p) ==
  (IF Binding(p) THEN doubt ELSE Clear(p, Mended))
    \union (IF <<p, "crossing">> \in doubt THEN {<<p, "crossed">>} ELSE {})

\* The port is open on channel c: its entry, its configuration, its listener.
Register(t) ==
  LET p == task[t].path  c == task[t].chan IN
    /\ task[t].at = "answered"
    /\ openPorts' = openPorts \union {p}
    /\ configs' = configs \union {p}
    /\ EnsureStreamServer(c)
    /\ Become(t, [task[t] EXCEPT !.at = "binding"])
    /\ UNCHANGED <<agentVars, sock, available, socketVars, tabs, labelled, views, timers, todo>>
    /\ UNCHANGED <<doubt, budget>>

\* The view the manager has is told the listener. Else the host makes one, or
\* finds a tab by the name of the device and hands it out as it is.
ShowView(p, c) ==
  IF p \in views THEN SetTcpPort(p, c) /\ UNCHANGED tabs
  ELSE IF p \in tabs \ labelled
         THEN doubt' = Mark(p, "undialed") /\ UNCHANGED <<tabs, socketVars>>
         ELSE NewView(p, c) /\ tabs' = tabs \union {p}

Resume(t) == Become(t, IF t = Session THEN At("next", Nobody) ELSE Idle)

\* The listener is bound, and the view is created or updated.
Bound(t) ==
  LET p == task[t].path  c == task[t].chan IN
    /\ task[t].at = "binding" /\ listener[c] # "failed"
    /\ listener' = [listener EXCEPT ![c] = "bound"]
    /\ ShowView(p, c)
    /\ views' = views \union {p}
    /\ Resume(t)
    /\ UNCHANGED <<agentVars, wireVars, early, pending, dropped, labelled, shown>>
    /\ UNCHANGED <<configs, timers, todo, budget>>

\* It could not be bound, now or before: there is no view, and no other try.
BindFails(t) ==
  LET p == task[t].path  c == task[t].chan IN
    /\ task[t].at = "binding"
    /\ \/ listener[c] = "failed" /\ UNCHANGED budget
       \/ listener[c] = "binding" /\ Spend("faults")
    /\ listener' = [listener EXCEPT ![c] = "failed"]
    /\ doubt' = Mark(p, "unbound")
    /\ Resume(t)
    /\ UNCHANGED <<agentVars, wireVars, early, pending, dropped, viewVars, policyVars, todo>>

\* 3 s after the loss. Without a configuration there is nothing to do, and a
\* device that is not listed is waited for, as is a socket.
AttemptReconnect(p) ==
  /\ p \in timers /\ task[p].at = "idle" /\ ~Binding(p)
  /\ IF p \in configs /\ p \in available /\ sock # "none"
       THEN /\ timers' = timers \ {p}
            /\ Write(Ask(p, "open", p))
            /\ Become(p, At("opening", p))
            /\ doubt' = Clear(p, {"crossing"})
       ELSE /\ p \notin configs
            /\ timers' = timers \ {p}
            /\ UNCHANGED <<task, toAgent, doubt>>
  /\ UNCHANGED <<agentButInput, wireVars, streamVars, viewVars, configs, views, todo, budget>>

-----------------------------------------------------------------------------
(* What the connection delivers, and the ports' ends. *)

\* (Mutant: the agent is not told.)
ClosePortHere(p, skipClose) ==
  /\ openPorts' = openPorts \ {p}
  /\ UNCHANGED toAgent

\* closePort: nothing to do for a port without an entry.
ClosePort(p, skipClose) ==
  /\ openPorts' = openPorts \ {p}
  /\ IF p \in openPorts /\ ~skipClose /\ sock # "none"
       THEN Write(Ask(Nobody, "close", p))
       ELSE UNCHANGED toAgent

Engaged(p) == \E t \in Tasks : task[t].path = p /\ task[t].at # "idle"

RemoveSerialPortTab(p, skipClose, keepConfig) ==
  /\ configs' = IF keepConfig THEN configs ELSE configs \ {p}
  /\ views' = views \ {p}
  /\ ClosePort(p, skipClose)

\* Something ends the port while a task opens it: the answer is there and the
\* view is not, or a close follows the open on its way.
Crosses(p) ==
  LET told    == p \in openPorts /\ sock # "none"
      opening == \E t \in Tasks : task[t].path = p /\ task[t].at = "opening" IN
    doubt \union {w \in {<<p, "crossed">>, <<p, "crossing">>} :
                    IF w[2] = "crossed" THEN Binding(p) ELSE opening /\ told}

\* onPortError. A lost device of a port with a view is waited for; an error
\* that finds no view, or of another kind, ends what is known of the port.
OnPortError(p, kind) ==
  /\ IF kind = "disconnected" /\ p \in views
       THEN /\ DestroySocket(p)
            /\ RemoveSerialPortTab(p, TRUE, TRUE)
            /\ timers' = timers \union {p}
            /\ UNCHANGED doubt
       ELSE /\ RemoveSerialPortTab(p, FALSE, FALSE)
            /\ timers' = timers \ {p}
            /\ doubt' = Crosses(p)
            /\ UNCHANGED <<link, client>>
  /\ UNCHANGED <<sock, available, streamVars, tabs, labelled, port, dials, cut, shown, task>>

OnAvailable(ports) ==
  /\ available' = ports
  /\ IF task[Session].at = "listing" THEN Become(Session, At("next", Nobody)) ELSE UNCHANGED task
  /\ UNCHANGED <<sock, openPorts, streamVars, viewVars, policyVars, doubt, toAgent>>

OnData(c, b) ==
  /\ IF listener[c] # "none" THEN DataFromServer(c, <<b>>) /\ UNCHANGED early
                     ELSE BufferEarlyStreamData(c, b)
  /\ UNCHANGED <<wireVars, listener, socketVars, tabs, labelled, policyVars, task, doubt, toAgent>>

OnAnswer(m) ==
  /\ CASE m.to = Nobody -> UNCHANGED <<task, timers>>
       [] task[m.to].at = "subscribing" ->
            Become(m.to, At(IF available = {} THEN "listing" ELSE "next", Nobody)) /\ UNCHANGED timers
       [] m.ok -> Become(m.to, [at |-> "answered", path |-> task[m.to].path, chan |-> m.chan])
                  /\ UNCHANGED timers
       [] OTHER -> GiveUp(m.to)
  /\ doubt' = IF m.to # Nobody /\ task[m.to].at = "opening" /\ m.ok THEN Mend(task[m.to].path) ELSE doubt
  /\ UNCHANGED <<wireVars, streamVars, viewVars, configs, views, toAgent>>

HandleProxyMessage ==
  /\ sock = "up" /\ toClient # << >>
  /\ LET m == Head(toClient) IN
       \/ m.k = "error" /\ OnPortError(m.path, m.kind)
       \/ m.k = "available" /\ OnAvailable(m.ports)
       \/ m.k = "data" /\ OnData(m.chan, m.byte)
       \/ m.k = "answer" /\ OnAnswer(m)
  /\ toClient' = Tail(toClient)
  /\ UNCHANGED <<agentButFrames, todo, budget>>

\* The user closes a tab. A port that a task is opening is closed in vain.
UserCloses(p) ==
  /\ p \in tabs /\ Spend("closes")
  /\ tabs' = tabs \ {p}
  /\ DestroySocket(p)
  /\ RemoveSerialPortTab(p, FALSE, FALSE)
  /\ timers' = timers \ {p}
  /\ doubt' = Crosses(p)
  /\ UNCHANGED <<agentButInput, sock, available, streamVars, labelled, port, dials, cut, shown, taskVars>>

\* The connection is lost with the agent: no view is told, no request is
\* rejected, and what was known of the ports stays.
AgentDies ==
  /\ Dies
  /\ sock' = IF sock = "up" THEN "dead" ELSE sock
  /\ doubt' = doubt \union (Paths \X {"lost"})
  /\ UNCHANGED <<available, openPorts, streamVars, viewVars, policyVars, taskVars, budget>>

SocketCloses ==
  /\ sock = "dead" /\ sock' = "none"
  /\ UNCHANGED <<agentVars, available, openPorts, streamVars, viewVars, policyVars, taskVars, doubt, budget>>

-----------------------------------------------------------------------------
Init == AgentInit /\ ManagerInit

ManagerWorks ==
  \/ Connect \/ OpenNext \/ HandleProxyMessage \/ SocketCloses
  \/ \E t \in Tasks : Register(t) \/ Bound(t)
  \/ \E v \in Paths \union {Old} : ViewConnects(v)
  \/ \E p \in Paths : SocketEnds(p) \/ AttemptReconnect(p)

Next ==
  \/ ManagerWorks \/ SnapshotEnds
  \/ \E t \in Tasks : TimerExpires(t) \/ BindFails(t)
  \/ StartSession \/ AgentDies
  \/ \E p \in Paths : UserCloses(p) \/ Types(p)
  \/ /\ \/ AgentWorks \/ Starts
        \/ \E p \in Paths : PlugIn(p) \/ PullOut(p) \/ DeviceSends(p)
     /\ UNCHANGED managerVars

\* The event loops run, timers fire when nothing else ends a wait.
Fairness ==
  /\ WF_vars(AgentWorks /\ UNCHANGED managerVars)
  /\ WF_vars(HandleProxyMessage) /\ WF_vars(SocketCloses)
  /\ WF_vars(Connect) /\ WF_vars(OpenNext) /\ WF_vars(SnapshotEnds)
  /\ \A t \in Tasks : WF_vars(Register(t)) /\ WF_vars(Bound(t) \/ BindFails(t))
                     /\ WF_vars(~Answerable(t) /\ TimerExpires(t))
  /\ \A p \in Paths : WF_vars(SocketEnds(p)) /\ WF_vars(AttemptReconnect(p))
  /\ \A v \in Paths \union {Old} : WF_vars(ViewConnects(v))

Spec     == Init /\ [][Next]_vars
FairSpec == Spec /\ Fairness

-----------------------------------------------------------------------------
(* Properties. *)

Bytes == [from : Paths, chan : Chans, n : 1..MaxBytes]

\* Byte y follows byte x in a view: the next one of the channel, or the first
\* one of a later channel. A full buffer leaves a gap, never a step back.
Follows(x, y) ==
  IF y.chan = x.chan THEN IF y.chan \in dropped THEN y.n > x.n ELSE y.n = x.n + 1
                     ELSE y.chan > x.chan /\ (y.chan \in dropped \/ y.n = 1)

\* As long as the agent lives, a view shows the bytes of its port only, in the
\* order the device sent them, none twice, none left out unless a buffer
\* overflowed, and what is typed into it goes to that port. The history the
\* agent replays, the bytes that beat the registration of their channel, and
\* those that beat the view's socket all come in their place (earlyStreamData,
\* ensureStreamServer, dataFromServer).
OwnBytesInOrder ==
  deaths = 0 =>
    /\ ~misfed
    /\ \A p \in Paths : \A i \in DOMAIN shown[p] :
         /\ shown[p][i].from = p
         /\ i > 1 => Follows(shown[p][i - 1], shown[p][i])

Quiet(p) ==
  /\ ~Engaged(p) /\ p \notin timers /\ p \notin cut
  /\ toAgent = << >> /\ toClient = << >> /\ events = << >> /\ failing[p] = 0
  /\ dials[p] = << >> /\ dials[Old] = << >>

Doubted(p, whys) == doubt \intersect ({p} \X whys) # {}

\* Once nothing is under way, the agent holds a port if and only if the
\* manager has a view of it: no device is kept open for nobody. Except, until
\* the next open of the port is answered, when an answer came after its timer
\* (`late'), an error or a close of the port crossed an open of it that was
\* under way (`crossed'), the agent died (`lost') or the listener could not be
\* bound (`unbound').
\* And that view is connected to the listener of the channel the port has: no
\* view waits for bytes that go elsewhere. Except, until it is dialed again,
\* for a tab that the host found by its name and handed out without a socket
\* (`undialed'), and one that dialed while it was dialing (`redialed').
ViewsAreFed ==
  \A p \in Paths : Quiet(p) /\ sock = "up" /\ ~Doubted(p, Mended) =>
    /\ p \in views <=> opened[p] # 0
    /\ p \in views /\ ~Doubted(p, {"undialed", "redialed"}) =>
         link[p] = opened[p] /\ client[link[p]] = p

\* A port that waits for its device has its view again when the device is back
\* for good and the connection lasts, unless its configuration is gone (closed
\* by the user, or by an error that is not a disconnect or found no view) or
\* its listener could not be bound (`unbound').
ReplugReconnects ==
  \A p \in Paths :
    <>[](p \in present /\ sock = "up" /\ up) =>
      (p \in timers ~> (p \notin timers /\ (p \in views \/ p \notin configs \/ Doubted(p, {"unbound"}))))
=============================================================================
