------------------------------ MODULE ProxySession ------------------------------
(***************************************************************************)
(* One session of the Probe Agent (proxy_server/mod.rs, gdb_server.rs): the *)
(* message loop, the gdb-server it launches, the threads it starts (reaper, *)
(* port monitor, port waiters that become forwarders) and the streams that *)
(* join the client's funnel to TCP connections of the gdb-server.          *)
(*                                                                         *)
(* Every thread reports to the loop through one unbounded channel.  An     *)
(* event sits in its sender's state here until the loop takes it, which    *)
(* keeps each sender's order and leaves the order between senders open.    *)
(*                                                                         *)
(* The funnel socket is two sequences of frames.  Request k of the client  *)
(* carries seq k; connection k of the gdb-server is the k-th waiter.       *)
(***************************************************************************)
EXTENDS Integers, Sequences

CONSTANTS
  FirstId,    \* first dynamic stream id, 3 in the program
  MaxConns,   \* bound: connections to the gdb-server in one session
  MaxOut,     \* bound: chunks the gdb-server prints
  MaxChunks   \* bound: chunks it sends on one connection

ASSUME SessionAssumption ==
  /\ FirstId \in Nat \ {0}
  /\ MaxConns \in Nat
  /\ MaxOut \in Nat
  /\ MaxChunks \in Nat

VARIABLES
  toServer,    \* frames on their way from the client
  toClient,    \* frames on their way to the client
  loop,        \* message_loop: "running", "over", "dropped"
  nextId,      \* next_stream_id
  reserved,    \* stream ids in reserved_ports
  process,     \* self.process is Some
  intentional, \* intentional_stop
  child,       \* the gdb-server: "none", "running", "exited", "killed"
  listening,   \* it listens on its port
  pipe,        \* its output not yet forwarded: "out" chunks, then "eof"
  printed,     \* chunks it has printed
  reaper,      \* "none", "polling", "reaped", "reporting", "gone", or
               \* "lost" because it could not poll
  monitor,     \* "none", "watching", "found", "done"
  streams,     \* self.streams: stream id -> Absent, Unconnected or a connection
  conn         \* connection -> its waiter, then forwarder, and its traffic

childVars   == <<child, listening, pipe, printed>>
threadVars  == <<reaper, monitor>>
streamVars  == <<nextId, reserved, streams, conn>>
processVars == <<process, intentional>>
sessionVars == <<toServer, toClient, loop, streamVars, processVars, childVars, threadVars>>

Conns       == 1 .. MaxConns
Ids         == FirstId .. FirstId + MaxConns
Absent      == -1
Unconnected == 0

NoConn == [at |-> "none", id |-> 0, seq |-> 0, sent |-> 0, fwd |-> 0, hung |-> FALSE,
           got |-> << >>]

SessionInit ==
  /\ toServer = << >>
  /\ toClient = << >>
  /\ loop = "running"
  /\ nextId = FirstId
  /\ reserved = {}
  /\ process = FALSE
  /\ intentional = FALSE
  /\ child = "none"
  /\ listening = FALSE
  /\ pipe = << >>
  /\ printed = 0
  /\ reaper = "none"
  /\ monitor = "none"
  /\ streams = [i \in Ids |-> Absent]
  /\ conn = [k \in Conns |-> NoConn]

Frame(f)      == toClient' = Append(toClient, f)
Frames(fs)    == toClient' = toClient \o fs
Answer(s, ok, i) == [m |-> "response", seq |-> s, ok |-> ok, id |-> i]
Eof           == [m |-> "eof"]

-----------------------------------------------------------------------------
(* The gdb-server *)

ChildPrints ==
  /\ child = "running"
  /\ printed < MaxOut
  /\ printed' = printed + 1
  /\ pipe' = Append(pipe, "out")
  /\ UNCHANGED <<toServer, toClient, loop, streamVars, processVars, child, listening,
                 threadVars>>

ChildListens ==
  /\ child = "running"
  /\ ~listening
  /\ listening' = TRUE
  /\ UNCHANGED <<toServer, toClient, loop, streamVars, processVars, child, pipe, printed,
                 threadVars>>

\* It crashes, or gives up because it finds no probe.
ChildExits ==
  /\ child = "running"
  /\ child' = "exited"
  /\ listening' = FALSE
  /\ pipe' = Append(pipe, "eof")
  /\ UNCHANGED <<toServer, toClient, loop, streamVars, processVars, printed, threadVars>>

HasPeer(k) == child = "running" /\ ~conn[k].hung

ChildSends(k) ==
  /\ conn[k].at \in {"connected", "forwarding", "mute"}
  /\ HasPeer(k)
  /\ conn[k].sent < MaxChunks
  /\ conn' = [conn EXCEPT ![k].sent = @ + 1]
  /\ UNCHANGED <<toServer, toClient, loop, nextId, reserved, streams, processVars,
                 childVars, threadVars>>

\* It closes one connection and lives on.
ChildHangsUp(k) ==
  /\ conn[k].at \in {"connected", "forwarding", "mute"}
  /\ HasPeer(k)
  /\ conn' = [conn EXCEPT ![k].hung = TRUE]
  /\ UNCHANGED <<toServer, toClient, loop, nextId, reserved, streams, processVars,
                 childVars, threadVars>>

-----------------------------------------------------------------------------
(* The threads *)

\* try_wait has the status.
ReaperPolls ==
  /\ reaper = "polling"
  /\ child \in {"exited", "killed"}
  /\ reaper' = "reaped"
  /\ UNCHANGED <<toServer, toClient, loop, streamVars, processVars, childVars, monitor>>

\* try_wait reports an error: the reaper gives up without a word.
ReaperFails ==
  /\ reaper = "polling"
  /\ reaper' = "lost"
  /\ UNCHANGED <<toServer, toClient, loop, streamVars, processVars, childVars, monitor>>

\* Faulty variant: an exit of the server's own is taken for ours.
SilentReaperJudges ==
  /\ reaper = "reaped"
  /\ reaper' = "gone"
  /\ UNCHANGED <<toServer, toClient, loop, streamVars, processVars, childVars, monitor>>

\* An exit we caused is not reported.
ReaperJudges ==
  /\ reaper = "reaped"
  /\ reaper' = IF intentional THEN "gone" ELSE "reporting"
  /\ UNCHANGED <<toServer, toClient, loop, streamVars, processVars, childVars, monitor>>

ReaperCancelled ==
  /\ reaper = "polling"
  /\ loop = "dropped"
  /\ reaper' = "gone"
  /\ UNCHANGED <<toServer, toClient, loop, streamVars, processVars, childVars, monitor>>

\* The monitor sees the port in the list of listening sockets ...
MonitorFinds ==
  /\ monitor = "watching"
  /\ listening
  /\ monitor' = "found"
  /\ UNCHANGED <<toServer, toClient, loop, streamVars, processVars, childVars, reaper>>

\* ... or cannot obtain that list, and gives up without a word.
MonitorFails ==
  /\ monitor = "watching"
  /\ monitor' = "done"
  /\ UNCHANGED <<toServer, toClient, loop, streamVars, processVars, childVars, reaper>>

SetConn(k, at) ==
  /\ conn' = [conn EXCEPT ![k].at = at]
  /\ UNCHANGED <<toServer, toClient, loop, nextId, reserved, streams, processVars,
                 childVars, threadVars>>

WaiterConnects(k)  == conn[k].at = "waiting" /\ listening /\ SetConn(k, "connected")
WaiterFails(k)     == conn[k].at = "waiting" /\ ~listening /\ SetConn(k, "failed")
WaiterCancelled(k) == conn[k].at = "waiting" /\ loop = "dropped" /\ SetConn(k, "gone")

Threads ==
  \/ ReaperPolls \/ ReaperJudges \/ ReaperCancelled \/ MonitorFinds
  \/ \E k \in Conns : WaiterConnects(k) \/ WaiterFails(k) \/ WaiterCancelled(k)

-----------------------------------------------------------------------------
(* The end of the gdb-server and of the session *)

\* Faulty variant: the handle is let go without a kill.
AbandonProcess ==
  /\ monitor' = IF monitor = "watching" THEN "done" ELSE monitor
  /\ process' = FALSE
  /\ intentional' = (intentional \/ process)
  /\ UNCHANGED <<child, listening, pipe, printed>>

\* end_process: flag, kill, wait; the pipe and the connections reach their end.
EndProcess ==
  /\ monitor' = IF monitor = "watching" THEN "done" ELSE monitor
  /\ process' = FALSE
  /\ intentional' = (intentional \/ process)
  /\ IF process /\ child = "running"
     THEN /\ child' = "killed"
          /\ listening' = FALSE
          /\ pipe' = Append(pipe, "eof")
     ELSE UNCHANGED <<child, listening, pipe>>
  /\ UNCHANGED printed

\* The loop has ended: Drop cancels the threads, shuts the socket, ends the process.
DropSession ==
  /\ loop = "over"
  /\ loop' = "dropped"
  /\ EndProcess
  /\ Frame(Eof)
  /\ UNCHANGED <<toServer, streamVars, reaper>>

-----------------------------------------------------------------------------
(* What the loop does with a request of the client: frame f is next *)

Takes(m) ==
  /\ loop = "running"
  /\ toServer # << >>
  /\ Head(toServer).m = m
  /\ toServer' = Tail(toServer)

Request == Head(toServer)

\* handle_initialize: a bad token or version is answered and ends the session.
Initialize ==
  /\ Takes("initialize")
  /\ \/ Frame(Answer(Request.seq, TRUE, 0)) /\ UNCHANGED loop
     \/ Frames(<<Answer(Request.seq, FALSE, 0), Eof>>) /\ loop' = "over"
  /\ UNCHANGED <<streamVars, processVars, childVars, threadVars>>

\* handle_allocate_ports, for one port.
AllocatePorts ==
  /\ Takes("allocatePorts")
  /\ \/ /\ reserved' = reserved \cup {nextId}
        /\ nextId' = nextId + 1
        /\ Frame(Answer(Request.seq, TRUE, nextId))
     \/ Frame(Answer(Request.seq, FALSE, 0)) /\ UNCHANGED <<reserved, nextId>>
  /\ UNCHANGED <<loop, streams, conn, processVars, childVars, threadVars>>

SyncFile ==
  /\ Takes("syncFile")
  /\ \E ok \in BOOLEAN : Frame(Answer(Request.seq, ok, 0))
  /\ UNCHANGED <<loop, streamVars, processVars, childVars, threadVars>>

\* handle_start_gdb_server: the port reservations are released, the child, its
\* forwarders, its reaper and a monitor of its ports are started.
StartGdbServer ==
  /\ Takes("startGdbServer")
  /\ reserved' = {}
  /\ \/ /\ child' = "running"
        /\ process' = TRUE
        /\ intentional' = FALSE
        /\ reaper' = "polling"
        /\ monitor' = "watching"
        /\ Frame(Answer(Request.seq, TRUE, 0))
        /\ UNCHANGED loop
     \/ /\ monitor' = IF monitor = "watching" THEN "done" ELSE monitor
        /\ Frame(Answer(Request.seq, FALSE, 0))
        /\ loop' = "over"
        /\ UNCHANGED <<child, process, intentional, reaper>>
  /\ UNCHANGED <<nextId, streams, conn, listening, pipe, printed>>

\* A waiter for stream i, on behalf of request s.
SpawnWaiter(i, s) ==
  \E k \in Conns :
    /\ conn[k].at = "none"
    /\ \A j \in Conns : j < k => conn[j].at # "none"
    /\ conn' = [conn EXCEPT ![k] = [NoConn EXCEPT !.at = "waiting", !.id = i, !.seq = s]]

\* handle_start_stream: an unknown or connected stream gets no answer at all.
StartStream ==
  /\ Takes("startStream")
  /\ IF streams[Request.id] = Unconnected
     THEN SpawnWaiter(Request.id, Request.seq)
     ELSE UNCHANGED conn
  /\ UNCHANGED <<toClient, loop, nextId, reserved, streams, processVars, childVars,
                 threadVars>>

\* handle_duplicate_stream: another connection to the same port under a new id.
DuplicateStream ==
  /\ Takes("duplicateStream")
  /\ IF streams[Request.id] \in Conns
     THEN /\ nextId' = nextId + 1
          /\ reserved' = reserved \cup {nextId}
          /\ streams' = [streams EXCEPT ![nextId] = Unconnected]
          /\ SpawnWaiter(nextId, Request.seq)
     ELSE UNCHANGED <<nextId, reserved, streams, conn>>
  /\ UNCHANGED <<toClient, loop, processVars, childVars, threadVars>>

\* Faulty variant: the answer goes out and the kill is left to Drop.
HastyEndSession ==
  /\ Takes("endSession")
  /\ Frames(<<Answer(Request.seq, TRUE, 0), Eof>>)
  /\ loop' = "over"
  /\ UNCHANGED <<streamVars, processVars, childVars, threadVars>>

\* The server is killed before the answer goes out and the socket is shut.
EndSession ==
  /\ Takes("endSession")
  /\ EndProcess
  /\ Frames(<<Answer(Request.seq, TRUE, 0), Eof>>)
  /\ loop' = "over"
  /\ UNCHANGED <<streamVars, reaper>>

\* Bytes of a local client, written to the stream's connection if it has one.
ForwardIn ==
  /\ Takes("data")
  /\ LET k == streams[Request.id]
     IN  conn' = IF k \in Conns /\ HasPeer(k)
                 THEN [conn EXCEPT ![k].got = Append(@, Request.chunk)] ELSE conn
  /\ UNCHANGED <<toClient, loop, nextId, reserved, streams, processVars, childVars,
                 threadVars>>

\* IncomingClosed.
ClientClosed ==
  /\ Takes("eof")
  /\ EndProcess
  /\ loop' = "over"
  /\ UNCHANGED <<toClient, streamVars, reaper>>

Requests ==
  \/ Initialize \/ AllocatePorts \/ SyncFile \/ StartGdbServer \/ StartStream
  \/ DuplicateStream \/ EndSession \/ ForwardIn \/ ClientClosed

-----------------------------------------------------------------------------
(* What the loop does with the threads' events *)

PortReady ==
  /\ loop = "running"
  /\ monitor = "found"
  /\ monitor' = "done"
  /\ streams' = [streams EXCEPT ![FirstId] = Unconnected]
  /\ Frame([m |-> "streamReady", id |-> FirstId])
  /\ UNCHANGED <<toServer, loop, nextId, reserved, conn, processVars, childVars, reaper>>

\* Registered, forwarding allowed, answered, in that order.
PortConnected(k) ==
  /\ loop = "running"
  /\ conn[k].at = "connected"
  /\ streams' = [streams EXCEPT ![conn[k].id] = k]
  /\ conn' = [conn EXCEPT ![k].at = "forwarding"]
  /\ Frame(Answer(conn[k].seq, TRUE, conn[k].id))
  /\ UNCHANGED <<toServer, loop, nextId, reserved, processVars, childVars, threadVars>>

\* The same, when the waiter has given up after 2 s: nobody will forward.
PortConnectedLate(k) ==
  /\ loop = "running"
  /\ conn[k].at = "connected"
  /\ streams' = [streams EXCEPT ![conn[k].id] = k]
  /\ conn' = [conn EXCEPT ![k].at = "mute"]
  /\ Frame(Answer(conn[k].seq, TRUE, conn[k].id))
  /\ UNCHANGED <<toServer, loop, nextId, reserved, processVars, childVars, threadVars>>

PortFailed(k) ==
  /\ loop = "running"
  /\ conn[k].at = "failed"
  /\ conn' = [conn EXCEPT ![k].at = "gone"]
  /\ Frame(Answer(conn[k].seq, FALSE, 0))
  /\ UNCHANGED <<toServer, loop, nextId, reserved, streams, processVars, childVars,
                 threadVars>>

StreamData(k) ==
  /\ loop = "running"
  /\ conn[k].at = "forwarding"
  /\ conn[k].fwd < conn[k].sent
  /\ conn' = [conn EXCEPT ![k].fwd = @ + 1]
  /\ Frame([m |-> "data", id |-> conn[k].id, chunk |-> <<k, conn[k].fwd + 1>>])
  /\ UNCHANGED <<toServer, loop, nextId, reserved, streams, processVars, childVars,
                 threadVars>>

\* The forwarder has read the end of its connection.
StreamClosed(k) ==
  /\ loop = "running"
  /\ conn[k].at = "forwarding"
  /\ conn[k].fwd = conn[k].sent
  /\ ~HasPeer(k)
  /\ conn' = [conn EXCEPT ![k].at = "gone"]
  /\ streams' = [streams EXCEPT ![conn[k].id] = Absent]
  /\ Frame([m |-> "streamClosed", id |-> conn[k].id])
  /\ UNCHANGED <<toServer, loop, nextId, reserved, processVars, childVars, threadVars>>

\* The server's own output: stream 1, which ends like any other.
Output ==
  /\ loop = "running"
  /\ pipe # << >>
  /\ pipe' = Tail(pipe)
  /\ Frame(IF Head(pipe) = "out" THEN [m |-> "output"] ELSE [m |-> "streamClosed", id |-> 1])
  /\ UNCHANGED <<toServer, loop, streamVars, processVars, child, listening, printed,
                 threadVars>>

\* The exit is reported, and the session ends with it.
GdbServerExited ==
  /\ loop = "running"
  /\ reaper = "reporting"
  /\ reaper' = "gone"
  /\ process' = FALSE
  /\ monitor' = IF monitor = "watching" THEN "done" ELSE monitor
  /\ Frame([m |-> "gdbServerExited"])
  /\ loop' = "over"
  /\ UNCHANGED <<toServer, streamVars, intentional, childVars>>

Events ==
  \/ PortReady \/ Output \/ GdbServerExited
  \/ \E k \in Conns :
       \/ PortConnected(k) \/ PortFailed(k) \/ StreamData(k) \/ StreamClosed(k)

=============================================================================
