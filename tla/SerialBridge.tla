------------------------------ MODULE SerialBridge ------------------------------
(***************************************************************************)
(* The TCP bridge of a serial port (serial/bridge.rs) on top of the port   *)
(* it serves: the accept thread, the TCP->serial thread of the connection  *)
(* being served, and stop(), which another thread calls.  A connection is  *)
(* the client the bridge attaches for it.                                  *)
(***************************************************************************)
EXTENDS SerialPort

VARIABLES
  backlog,    \* the listener's queue: connections, and Wake from stop()
  conn,       \* connection -> read side: "none", "open", "closed"
  acceptor,   \* accept thread: "accept", "check", "track", "attach", "serve",
              \* "detach", "done"
  current,    \* what the accept thread accepted last, or Wake
  active,     \* active_conn: the tracked connections, at most one
  upstream,   \* connection -> TCP->serial thread: "none", "read", "done"
  stop        \* stop(): "no", "flagged", "taken", "join", "stopped"

bridgeVars == <<backlog, conn, acceptor, current, active, upstream, stop>>
vars       == <<portVars, bridgeVars>>

Wake == "wake"

BridgeInit ==
  /\ PortInit
  /\ backlog = << >>
  /\ conn = [c \in Clients |-> "none"]
  /\ acceptor = "accept"
  /\ current = Wake
  /\ active = {}
  /\ upstream = [c \in Clients |-> "none"]
  /\ stop = "no"

-----------------------------------------------------------------------------
(* The accept thread *)

Accept ==
  /\ acceptor = "accept"
  /\ backlog # << >>
  /\ current' = Head(backlog)
  /\ backlog' = Tail(backlog)
  /\ acceptor' = "check"
  /\ UNCHANGED <<portVars, conn, active, upstream, stop>>

\* accept() reports an error: the thread returns, stopped or not, and the listener goes
\* with the connections that were still in its queue.
AcceptFails ==
  /\ acceptor = "accept"
  /\ acceptor' = "done"
  /\ conn' = [c \in Clients |->
                IF \E i \in DOMAIN backlog : backlog[i] = c THEN "closed" ELSE conn[c]]
  /\ backlog' = << >>
  /\ UNCHANGED <<portVars, current, active, upstream, stop>>

\* With the flag set, whatever was accepted is discarded.
CheckStopped ==
  /\ acceptor = "check"
  /\ \/ /\ stop # "no"
        /\ acceptor' = "done"
        /\ conn' = [c \in Clients |-> IF c = current THEN "closed" ELSE conn[c]]
     \/ /\ stop = "no"
        /\ acceptor' = "track"
        /\ UNCHANGED conn
  /\ UNCHANGED <<portVars, backlog, current, active, upstream, stop>>

\* A clone of the socket is left where stop() finds it.
Track ==
  /\ acceptor = "track"
  /\ active' = {current}
  /\ acceptor' = "attach"
  /\ UNCHANGED <<portVars, backlog, conn, current, upstream, stop>>

\* handle_connection: attach the write half, start the TCP->serial thread.
Serve ==
  /\ acceptor = "attach"
  /\ Attach(current)
  /\ upstream' = [upstream EXCEPT ![current] = "read"]
  /\ acceptor' = "serve"
  /\ UNCHANGED <<backlog, conn, current, active, stop>>

\* Faulty variant: the detach is left to the reader's next failed send.
ForgetfulServeEnds ==
  /\ acceptor = "serve"
  /\ upstream[current] = "done"
  /\ active' = {}
  /\ acceptor' = "accept"
  /\ UNCHANGED <<portVars, backlog, conn, current, upstream, stop>>

\* The TCP->serial thread has been joined.
ServeEnds ==
  /\ acceptor = "serve"
  /\ upstream[current] = "done"
  /\ Detach(current)
  /\ acceptor' = "detach"
  /\ UNCHANGED <<backlog, conn, current, active, upstream, stop>>

Untrack ==
  /\ acceptor = "detach"
  /\ caller[current] \in {"detached", "absent"}
  /\ active' = {}
  /\ acceptor' = "accept"
  /\ UNCHANGED <<portVars, backlog, conn, current, upstream, stop>>

Acceptor == Accept \/ CheckStopped \/ Track \/ Serve \/ ServeEnds \/ Untrack

-----------------------------------------------------------------------------
(* The TCP->serial thread *)

\* shutdown(Both): the read side reports EOF, writes fail.
Shut(C) ==
  /\ conn' = [c \in Clients |-> IF c \in C THEN "closed" ELSE conn[c]]
  /\ writer' = [c \in Clients |-> IF c \in C THEN "broken" ELSE writer[c]]

\* Faulty variant: the write half is left open.
HalfUpstreamEnds(c) ==
  /\ upstream[c] = "read"
  /\ conn[c] = "closed" \/ reader = "gone"
  /\ upstream' = [upstream EXCEPT ![c] = "done"]
  /\ UNCHANGED <<portVars, backlog, conn, acceptor, current, active, stop>>

\* The read failed or ended, or the port refused what was read: shut both ways.
UpstreamEnds(c) ==
  /\ upstream[c] = "read"
  /\ conn[c] = "closed" \/ reader = "gone"
  /\ upstream' = [upstream EXCEPT ![c] = "done"]
  /\ Shut({c})
  /\ UNCHANGED <<readerVars, attached, queue, drain, chunk, received, joined, owed,
                 caller, closing, backlog, acceptor, current, active, stop>>

-----------------------------------------------------------------------------
(* stop() *)

StopFlag ==
  /\ stop = "no"
  /\ stop' = "flagged"
  /\ UNCHANGED <<portVars, backlog, conn, acceptor, current, active, upstream>>

\* Faulty variant: the tracked connection is forgotten and not shut.
GentleStopTake ==
  /\ stop = "flagged"
  /\ active' = {}
  /\ stop' = "taken"
  /\ UNCHANGED <<portVars, backlog, conn, acceptor, current, upstream>>

\* Force-close the connection being served, if one is tracked.
StopTake ==
  /\ stop = "flagged"
  /\ active' = {}
  /\ Shut(active)
  /\ stop' = "taken"
  /\ UNCHANGED <<readerVars, attached, queue, drain, chunk, received, joined, owed,
                 caller, closing, backlog, acceptor, current, upstream>>

\* The self-connect that unblocks accept(), refused when no listener is left.
StopWake ==
  /\ stop = "taken"
  /\ backlog' = IF acceptor = "done" THEN backlog ELSE Append(backlog, Wake)
  /\ stop' = "join"
  /\ UNCHANGED <<portVars, conn, acceptor, current, active, upstream>>

StopJoin ==
  /\ stop = "join"
  /\ acceptor = "done"
  /\ stop' = "stopped"
  /\ UNCHANGED <<portVars, backlog, conn, acceptor, current, active, upstream>>

Stop == StopTake \/ StopWake \/ StopJoin

-----------------------------------------------------------------------------
(* The clients at the other end *)

Connect(c) ==
  /\ conn[c] = "none"
  /\ acceptor # "done"
  /\ conn' = [conn EXCEPT ![c] = "open"]
  /\ backlog' = Append(backlog, c)
  /\ UNCHANGED <<portVars, acceptor, current, active, upstream, stop>>

\* A client that hangs up ends the read side; one that is gone fails writes too.
HangUp(c) ==
  /\ c \in FlakyPeers
  /\ conn[c] = "open"
  /\ conn' = [conn EXCEPT ![c] = "closed"]
  /\ \/ UNCHANGED portVars
     \/ PeerLeaves(c)
  /\ UNCHANGED <<backlog, acceptor, current, active, upstream, stop>>

-----------------------------------------------------------------------------

\* Steps of the port that involve the bridge in nothing.  The bridge's thread
\* holds the handle, so close() comes after it has ended.
PortStep ==
  /\ \/ Reader
     \/ CloseEnd
     \/ acceptor = "done" /\ CloseBegin
     \/ \E c \in Clients : DetachJoin(c) \/ Drain(c) \/ PeerStalls(c)
  /\ UNCHANGED bridgeVars

BridgeNext ==
  \/ PortStep
  \/ Acceptor
  \/ AcceptFails
  \/ StopFlag
  \/ Stop
  \/ \E c \in Clients : UpstreamEnds(c) \/ Connect(c) \/ HangUp(c)

\* Every thread of the program runs; clients and callers do as they please.
BridgeFairness ==
  /\ WF_vars(Reader /\ UNCHANGED bridgeVars)
  /\ WF_vars(Acceptor)
  /\ WF_vars(Stop)
  /\ \A c \in Clients :
       /\ WF_vars(Drain(c) /\ UNCHANGED bridgeVars)
       /\ WF_vars(DetachJoin(c) /\ UNCHANGED bridgeVars)
       /\ WF_vars(conn[c] = "closed" /\ UpstreamEnds(c))

BridgeSpec == BridgeInit /\ [][BridgeNext]_vars /\ BridgeFairness

-----------------------------------------------------------------------------
(* Properties *)

\* The port fans out to the connection being served and to no other: the one
\* before it was detached, its TCP->serial thread joined, before the next
\* accept(), and a stopped bridge leaves no client behind.
ServesOneConnection ==
  \A c \in Clients :
    /\ c \in attached => c = current /\ acceptor = "serve"
    /\ upstream[c] = "read" => c = current /\ acceptor = "serve"

\* A client that hangs up frees the bridge for the next connection, and leaves no
\* drain thread behind: what its TCP->serial thread shuts cannot keep
\* detach_client waiting on a write that never ends.
HangUpFreesBridge ==
  \A c \in Clients :
    LET hungUp == conn[c] = "closed" /\ current = c /\ acceptor = "serve"
    IN  /\ hungUp ~> (acceptor = "accept")
        /\ hungUp ~> ~Alive(c)

\* stop() returns, or it waits for a client it will never wake: one accepted
\* before the flag was set and tracked only after the force-close had looked for
\* a tracked connection.  Nothing ends that wait until the client hangs up or
\* writes to a dead device.
StopReturnsOrServes ==
  (stop = "flagged") ~>
    \/ stop = "stopped"
    \/ /\ stop = "join"
       /\ acceptor = "serve"
       /\ active = {current}
       /\ conn[current] = "open"

=============================================================================
