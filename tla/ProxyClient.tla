------------------------------- MODULE ProxyClient -------------------------------
(***************************************************************************)
(* The debug adapter's end of a Probe Agent session (proxy-client.ts, and  *)
(* startServer / stopServer of server-session.ts), joined to ProxySession: *)
(* the requests in flight and their timers, the launch of the gdb-server,  *)
(* the local TCP server that stands in for its port, and the local clients *)
(* (gdb, and the gdb of the live watch) that connect to it.                *)
(*                                                                         *)
(* The adapter is one event loop.  A frame, a timer or a socket event is   *)
(* handled together with the continuations it resolves, which all run      *)
(* before the next event.                                                  *)
(***************************************************************************)
EXTENDS ProxySession

CONSTANTS
  Locals,   \* local clients, each connecting at most once
  Talkers,  \* those of them that send something
  MaxAsk,   \* bound: chunks a local client sends
  Prompt,   \* bound: a proxy that answers at all does so within 20 s
  Mishaps   \* bound: of "stop", "link", "exit", "hangup" those that may happen

ASSUME ClientAssumption ==
  /\ Talkers \subseteq Locals
  /\ {"setup", "stop"} \cap Locals = {}   \* who else makes requests
  /\ "nobody" \notin Locals               \* a stream without a socket
  /\ MaxAsk \in Nat
  /\ Prompt \in BOOLEAN
  /\ Mishaps \subseteq {"stop", "link", "exit", "hangup"}

VARIABLES
  step,      \* startServer: next step to send, index into Steps
  outcome,   \* its promise: "pending", "started", "failed", "local" (no proxy)
  told,      \* of the gdb-server's exit: "no", "soon", "yes", "hushed"
  stopping,  \* stopServer: "no", "ending", "closing", "done"
  csock,     \* this.socket: "open", "ended" by us, "closed"
  pending,   \* pendingPromises: requests in flight, as [seq, of, dup]
  nextSeq,   \* nextSeq
  status,    \* pInfo.status of the port: "starting", "ready", "connected"
  known,     \* keys of clientStreams
  server,    \* the RemoteServer: "none", "opening", "listening", "closed"
  lsock,     \* local client -> its socket: "none", "open", "ended", "gone"
  sockets,   \* RemoteServer.sockets
  byId,      \* RemoteServer.socketsByStreamId
  sid,       \* RemoteStream.stream_id
  toBuf,     \* RemoteStream.toServerBuffer
  fromBuf,   \* RemoteStream.fromServerBuffer
  got,       \* what was written to the local client (history)
  asked,     \* what the local client sent (history)
  restless,  \* local clients that hung up, or whose request timed out (history)
  link       \* the network: "up", "frozen" (nothing arrives), "broken" (reset)

remoteVars == <<loop, streamVars, processVars, childVars, threadVars>>
startVars  == <<step, outcome, told>>
linkVars   == <<csock, pending, nextSeq>>
localVars  == <<status, known, server, lsock, sockets, byId, sid, toBuf, fromBuf, got>>
clientVars == <<startVars, stopping, linkVars, localVars, asked, restless, link>>
proxyVars  == <<sessionVars, clientVars>>

Nobody == "nobody"
NoId   == -1

Steps == <<"initialize", "allocatePorts", "syncFile", "startGdbServer">>

ClientInit ==
  /\ step = 1
  /\ outcome = "pending"
  /\ told = "no"
  /\ stopping = "no"
  /\ csock = "open"
  /\ pending = {}
  /\ nextSeq = 1
  /\ status = "starting"
  /\ known = {}
  /\ server = "none"
  /\ lsock = [l \in Locals |-> "none"]
  /\ sockets = {}
  /\ byId = [i \in Ids \cup {NoId} |-> Nobody]
  /\ sid = [l \in Locals |-> NoId]
  /\ toBuf = [l \in Locals |-> << >>]
  /\ fromBuf = [l \in Locals |-> << >>]
  /\ got = [l \in Locals |-> << >>]
  /\ asked = [l \in Locals |-> 0]
  /\ restless = {}
  /\ link = "up"

-----------------------------------------------------------------------------
(* Requests *)

\* sendCommandBytes: what is written after the socket has ended is lost.
Post(fs) == toServer' = IF csock = "open" THEN toServer \o fs ELSE toServer

Waiting(who) == \E r \in pending : r.of = who

\* sendControlCommand, on behalf of `who'.
Ask(who, method, id, dup) ==
  /\ pending' = pending \cup {[seq |-> nextSeq, of |-> who, dup |-> dup]}
  /\ nextSeq' = nextSeq + 1
  /\ Post(<<[m |-> method, seq |-> nextSeq, id |-> id]>>)

\* start() ignores a failed initialize, and startServer what start() returns.
SetupFails ==
  IF step = 1 THEN step' = 2 /\ UNCHANGED outcome
  ELSE UNCHANGED step /\ outcome' = IF outcome = "pending" THEN "failed" ELSE outcome

\* stopServer has taken the proxy client away before startServer looked whether there is
\* one, to ask for ports or to launch the server.
LocalInstead == stopping # "no" /\ step \in {2, 3}

\* startServer goes on as for a server of its own: it finds ports, and spawns the
\* gdb-server on the adapter's machine, after the stop that should have ended it.
SpawnsLocally ==
  /\ outcome = "pending"
  /\ ~Waiting("setup")
  /\ LocalInstead
  /\ outcome' = "local"
  /\ UNCHANGED <<sessionVars, step, told, stopping, linkVars, localVars, asked, restless, link>>

\* startServer sends its requests one after another; with no socket one fails at once.
SendSetup ==
  /\ outcome = "pending"
  /\ step <= Len(Steps)
  /\ ~Waiting("setup")
  /\ ~LocalInstead
  /\ IF csock = "closed"
     THEN SetupFails /\ UNCHANGED <<pending, nextSeq, toServer>>
     ELSE Ask("setup", Steps[step], 0, FALSE) /\ UNCHANGED <<step, outcome>>
  /\ UNCHANGED <<toClient, remoteVars, told, stopping, csock, localVars, asked, restless, link>>

\* The promises of the local clients' requests rs are rejected: socket.end().
Ended(rs) ==
  [l \in Locals |-> IF lsock[l] = "open" /\ \E r \in rs : r.of = l THEN "ended" ELSE lsock[l]]

\* RemoteServer.close, with the requests rs rejected in the same turn.
CloseServer(rs) ==
  /\ server' = IF server = "none" THEN "none" ELSE "closed"
  /\ lsock' = [l \in Locals |-> IF l \in sockets THEN "gone" ELSE Ended(rs)[l]]
  /\ sockets' = {}
  /\ byId' = [i \in Ids \cup {NoId} |-> Nobody]

\* The socket's "close" event: every request in flight fails, and a stop() that
\* waited for it goes on to close the streams.
SocketCloses ==
  /\ csock' = "closed"
  /\ pending' = {}
  /\ IF Waiting("setup") THEN SetupFails ELSE UNCHANGED <<step, outcome>>
  /\ IF stopping \in {"ending", "closing"}
     THEN stopping' = "done" /\ CloseServer(pending) /\ known' = {}
     ELSE /\ lsock' = Ended(pending)
          /\ UNCHANGED <<stopping, known, server, sockets, byId>>
  /\ UNCHANGED <<nextSeq, status, sid, toBuf, fromBuf, got>>

\* stop() half-closes the socket and waits for the other side.
HalfClose ==
  /\ stopping' = "closing"
  /\ csock' = "ended"
  /\ toServer' = Append(toServer, Eof)

\* The answer to a request is on its way, or will be.
OnItsWay(r) ==
  /\ link = "up"
  /\ \/ \E n \in 1 .. Len(toServer) : toServer[n].m \notin {"data", "eof"} /\ toServer[n].seq = r.seq
     \/ \E n \in 1 .. Len(toClient) : toClient[n].m = "response" /\ toClient[n].seq = r.seq
     \/ \E k \in Conns : conn[k].seq = r.seq /\ conn[k].at \in {"waiting", "connected", "failed"}

\* A request's 20 s are over.
Timeout(r) ==
  /\ r \in pending
  /\ Prompt => ~OnItsWay(r)
  /\ pending' = pending \ {r}
  /\ IF r.of = "setup" THEN SetupFails ELSE UNCHANGED <<step, outcome>>
  /\ IF r.of = "stop" THEN HalfClose ELSE UNCHANGED <<stopping, csock, toServer>>
  /\ lsock' = Ended({r})
  /\ restless' = restless \cup ({r.of} \cap Locals)
  /\ UNCHANGED <<toClient, remoteVars>>
  /\ UNCHANGED <<told, nextSeq, status, known, server, sockets, byId, sid, toBuf, fromBuf,
                 got, asked, link>>

-----------------------------------------------------------------------------
(* Frames of the proxy *)

\* RemoteStream.setStreamId on a stream that has none yet: its placeholder makes
\* way for the id, and what it buffered goes out.
SetStreamId(l, i) ==
  /\ byId' = IF byId[i] # Nobody THEN byId ELSE [byId EXCEPT ![NoId] = Nobody, ![i] = l]
  /\ sid' = [sid EXCEPT ![l] = i]
  /\ Post([n \in 1 .. Len(toBuf[l]) |-> [m |-> "data", id |-> i, chunk |-> toBuf[l][n]]])
  /\ got' = IF lsock[l] = "open" THEN [got EXCEPT ![l] = @ \o fromBuf[l]] ELSE got
  /\ fromBuf' = [fromBuf EXCEPT ![l] = << >>]

\* A start or a duplicate request of local client l is answered.
StreamAnswered(r, f) ==
  LET l == r.of
  IN  IF ~f.ok
      THEN /\ lsock' = Ended({r})
           /\ UNCHANGED <<status, known, byId, sid, fromBuf, got, toServer>>
      ELSE /\ SetStreamId(l, IF r.dup THEN f.id ELSE FirstId)
           /\ known' = IF r.dup THEN known \cup {f.id} ELSE known
           /\ status' = IF r.dup THEN status ELSE "connected"
           /\ lsock' = IF status' = "connected" THEN lsock ELSE Ended({r})

Answered(r, f) ==
  /\ pending' = pending \ {r}
  /\ IF r.of # "setup" THEN UNCHANGED <<step, outcome>>
     ELSE IF f.ok THEN step' = step + 1 /\ UNCHANGED outcome ELSE SetupFails
  /\ IF r.of = "stop" THEN HalfClose ELSE UNCHANGED <<stopping, csock>>
  /\ IF r.of \in Locals THEN StreamAnswered(r, f)
     ELSE /\ UNCHANGED <<status, known, lsock, byId, sid, fromBuf, got>>
          /\ r.of # "stop" => UNCHANGED toServer
  /\ UNCHANGED <<told, nextSeq, server, sockets, toBuf, asked, restless, link>>

\* handleStreamReady: a RemoteServer is made for the port and told to listen.
StreamReady(i) ==
  /\ status' = "ready"
  /\ server' = "opening"
  /\ known' = known \cup {i}
  /\ UNCHANGED <<toServer, startVars, stopping, linkVars, lsock, sockets, byId, sid, toBuf,
                 fromBuf, got, asked, restless, link>>

\* handleStreamClosed: the stream's RemoteServer is closed, with all its sockets.
RemoteClosed(i) ==
  /\ IF i \in known THEN CloseServer({}) /\ known' = known \ {i}
     ELSE UNCHANGED <<known, server, lsock, sockets, byId>>
  /\ UNCHANGED <<toServer, startVars, stopping, linkVars, status, sid, toBuf, fromBuf, got,
                 asked, restless, link>>

\* Data of stream i: to the socket that has it, else to one still without an id.
FromProxy(i, chunk) ==
  LET l == IF byId[i] # Nobody THEN byId[i] ELSE byId[NoId]
  IN  /\ IF i \in known /\ l # Nobody
         THEN IF sid[l] = NoId
              THEN fromBuf' = [fromBuf EXCEPT ![l] = Append(@, chunk)] /\ UNCHANGED got
              ELSE /\ got' = IF lsock[l] = "open" THEN [got EXCEPT ![l] = Append(@, chunk)]
                                                  ELSE got
                   /\ UNCHANGED fromBuf
         ELSE UNCHANGED <<got, fromBuf>>
      /\ UNCHANGED <<toServer, startVars, stopping, linkVars, status, known, server, lsock,
                     sockets, byId, sid, toBuf, asked, restless, link>>

ServerExitHeard ==
  /\ told' = "soon"
  /\ UNCHANGED <<toServer, step, outcome, stopping, linkVars, localVars, asked, restless,
                 link>>

\* The other side has shut the connection.
EofHeard ==
  /\ SocketCloses
  /\ UNCHANGED <<toServer, told, asked, restless, link>>

Ignored == UNCHANGED <<toServer, clientVars>>

\* handleProxyMessage: frame f, in order of arrival.
Receive ==
  /\ link = "up"
  /\ csock # "closed"
  /\ toClient # << >>
  /\ toClient' = Tail(toClient)
  /\ LET f == Head(toClient)
     IN  CASE f.m = "response" ->
                IF \E r \in pending : r.seq = f.seq
                THEN \E r \in pending : r.seq = f.seq /\ Answered(r, f)
                ELSE Ignored
           [] f.m = "streamReady"     -> StreamReady(f.id)
           [] f.m = "streamClosed"    -> RemoteClosed(f.id)
           [] f.m = "data"            -> FromProxy(f.id, f.chunk)
           [] f.m = "gdbServerExited" -> ServerExitHeard
           [] f.m = "eof"             -> EofHeard
           [] OTHER                   -> Ignored
  /\ UNCHANGED remoteVars

-----------------------------------------------------------------------------
(* The launch, and its end *)

\* The local server listens; for gdb's port, the launch has succeeded.
Listening ==
  /\ server = "opening"
  /\ server' = "listening"
  /\ outcome' = IF outcome = "pending" THEN "started" ELSE outcome
  /\ UNCHANGED <<sessionVars, step, told, stopping, linkVars, status, known, lsock, sockets,
                 byId, sid, toBuf, fromBuf, got, asked, restless, link>>

\* 100 ms after the exit was heard of: a pending launch fails; a session whose launch
\* has succeeded, or timed out, is told unless it asked for the stop.
ExitTimer ==
  /\ told = "soon"
  /\ told' = IF outcome # "pending" /\ step > Len(Steps) /\ stopping = "no" THEN "yes" ELSE "hushed"
  /\ outcome' = IF outcome = "pending" THEN "failed" ELSE outcome
  /\ UNCHANGED <<sessionVars, step, stopping, linkVars, localVars, asked, restless, link>>

\* The 5 minutes of a launched server to get ready; a stop disarms the timer.
LaunchTimer ==
  /\ outcome = "pending"
  /\ step > Len(Steps)
  /\ stopping = "no"
  /\ outcome' = "failed"
  /\ UNCHANGED <<sessionVars, step, told, stopping, linkVars, localVars, asked, restless, link>>

\* stopServer, then ProxyClient.stop.
Stop ==
  /\ "stop" \in Mishaps
  /\ stopping = "no"
  /\ IF csock = "open"
     THEN /\ stopping' = "ending"
          /\ Ask("stop", "endSession", 0, FALSE)
          /\ UNCHANGED <<known, server, lsock, sockets, byId>>
     ELSE /\ stopping' = "done"
          /\ CloseServer({})
          /\ known' = {}
          /\ UNCHANGED <<pending, nextSeq, toServer>>
  /\ UNCHANGED <<toClient, remoteVars, startVars,
                 csock, status, sid, toBuf, fromBuf, got, asked, restless, link>>

\* Faulty variant: the timer only unblocks the caller.
GentleCloseTimer ==
  /\ stopping = "closing"
  /\ stopping' = "done"
  /\ UNCHANGED <<sessionVars, startVars, linkVars, localVars, asked, restless, link>>

\* The proxy has not closed the connection within 2 s: it is destroyed.
CloseTimer ==
  /\ stopping = "closing"
  /\ SocketCloses
  /\ UNCHANGED <<sessionVars, told, asked, restless, link>>

-----------------------------------------------------------------------------
(* Local clients *)

\* The connection handler of RemoteServer, up to its first await.
Connect(l) ==
  /\ server = "listening"
  /\ lsock[l] = "none"
  /\ IF byId[NoId] # Nobody
     THEN /\ lsock' = [lsock EXCEPT ![l] = "ended"]
          /\ UNCHANGED <<pending, nextSeq, toServer, sockets, byId, sid>>
     ELSE /\ sockets' = sockets \cup {l}
          /\ IF sockets = {} /\ status = "connected"
             THEN /\ sid' = [sid EXCEPT ![l] = FirstId]
                  /\ byId' = [byId EXCEPT ![FirstId] = l]
                  /\ lsock' = [lsock EXCEPT ![l] = "open"]
                  /\ UNCHANGED <<pending, nextSeq, toServer>>
             ELSE /\ byId' = [byId EXCEPT ![NoId] = l]
                  /\ UNCHANGED sid
                  /\ IF csock = "closed" \/ FirstId \notin known
                     THEN /\ lsock' = [lsock EXCEPT ![l] = "ended"]
                          /\ UNCHANGED <<pending, nextSeq, toServer>>
                     ELSE /\ lsock' = [lsock EXCEPT ![l] = "open"]
                          /\ IF sockets # {} THEN Ask(l, "duplicateStream", FirstId, TRUE)
                                             ELSE Ask(l, "startStream", FirstId, FALSE)
  /\ UNCHANGED <<toClient, remoteVars, startVars,
                 stopping, csock, status, known, server, toBuf, fromBuf, got, asked, restless,
                 link>>

\* Faulty variant: bytes sent before the stream has an id are not kept.
ForgetfulLocalSends(l) ==
  /\ lsock[l] = "open"
  /\ asked[l] < MaxAsk
  /\ asked' = [asked EXCEPT ![l] = @ + 1]
  /\ IF sid[l] = NoId
     THEN UNCHANGED <<toBuf, toServer>>
     ELSE /\ Post(<<[m |-> "data", id |-> sid[l], chunk |-> <<l, asked[l] + 1>>]>>)
          /\ UNCHANGED toBuf
  /\ UNCHANGED <<toClient, remoteVars, startVars,
                 stopping, linkVars, status, known, server, lsock, sockets, byId, sid, fromBuf,
                 got, restless, link>>

\* dataFromClent: kept until the stream has its id.
LocalSends(l) ==
  /\ lsock[l] = "open"
  /\ asked[l] < MaxAsk
  /\ asked' = [asked EXCEPT ![l] = @ + 1]
  /\ IF sid[l] = NoId
     THEN toBuf' = [toBuf EXCEPT ![l] = Append(@, <<l, asked[l] + 1>>)] /\ UNCHANGED toServer
     ELSE /\ Post(<<[m |-> "data", id |-> sid[l], chunk |-> <<l, asked[l] + 1>>]>>)
          /\ UNCHANGED toBuf
  /\ UNCHANGED <<toClient, remoteVars, startVars,
                 stopping, linkVars, status, known, server, lsock, sockets, byId, sid, fromBuf,
                 got, restless, link>>

\* The local client closes its socket, of its own accord or because we ended ours.
\* The proxy is told nothing.
LocalCloses(l) ==
  /\ lsock[l] \in {"open", "ended"}
  /\ lsock' = [lsock EXCEPT ![l] = "gone"]
  /\ sockets' = sockets \ {l}
  /\ byId' = [i \in Ids \cup {NoId} |-> IF byId[i] = l THEN Nobody ELSE byId[i]]
  /\ restless' = IF lsock[l] = "open" THEN restless \cup {l} ELSE restless
  /\ UNCHANGED <<sessionVars, startVars, stopping, linkVars, status, known, server, sid, toBuf,
                 fromBuf, got, asked, link>>

-----------------------------------------------------------------------------
(* The network, and both ends together *)

\* A tunnel dies silently: nothing arrives any more.
LinkFreezes ==
  /\ "link" \in Mishaps
  /\ link = "up"
  /\ csock # "closed"
  /\ link' = "frozen"
  /\ UNCHANGED <<sessionVars, startVars, stopping, linkVars, localVars, asked, restless>>

\* The connection is reset: both sides see it end.
LinkBreaks ==
  /\ "link" \in Mishaps
  /\ link = "up"
  /\ csock # "closed"
  /\ link' = "broken"
  /\ SocketCloses
  /\ toServer' = <<Eof>>
  /\ UNCHANGED <<toClient, remoteVars, told, asked,
                 restless>>

\* A frame the loop writes to a client that has gone fails, which ends the loop.
WriteFails ==
  /\ loop = "running"
  /\ csock = "closed"
  /\ link # "frozen"
  /\ EndProcess
  /\ loop' = "over"
  /\ UNCHANGED <<toServer, toClient, streamVars, reaper>>

Loop == (link # "frozen" /\ Requests) \/ Events \/ DropSession

Session ==
  /\ \/ Loop \/ WriteFails \/ Threads \/ MonitorFails \/ ReaperFails
     \/ ChildPrints
     \/ ChildListens
     \/ "exit" \in Mishaps /\ ChildExits
     \/ \E k \in Conns :
          \/ PortConnectedLate(k)
          \/ ChildSends(k)
          \/ "hangup" \in Mishaps /\ ChildHangsUp(k)
  /\ UNCHANGED clientVars

Timers == ExitTimer \/ LaunchTimer \/ CloseTimer \/ \E r \in pending : Timeout(r)

Client ==
  \/ SendSetup \/ SpawnsLocally \/ Receive \/ Listening \/ Timers \/ Stop
  \/ \E l \in Locals : Connect(l) \/ LocalCloses(l)
  \/ \E l \in Talkers : LocalSends(l)

ProxyInit == SessionInit /\ ClientInit

ProxyNext == Session \/ Client \/ LinkFreezes \/ LinkBreaks

\* The loop and its threads run, and so do the adapter's events and timers.
\* Nothing is assumed of the gdb-server, the local clients, the user or the link.
ProxyFairness ==
  /\ WF_proxyVars(Loop /\ UNCHANGED clientVars)
  /\ WF_proxyVars(Threads /\ UNCHANGED clientVars)
  /\ WF_proxyVars(SendSetup)
  /\ WF_proxyVars(SpawnsLocally)
  /\ WF_proxyVars(Receive)
  /\ WF_proxyVars(Listening)
  /\ WF_proxyVars(ExitTimer)
  /\ WF_proxyVars(LaunchTimer)
  /\ WF_proxyVars(CloseTimer)
  /\ WF_proxyVars(\E r \in pending : Timeout(r))

ProxySpec == ProxyInit /\ [][ProxyNext]_proxyVars /\ ProxyFairness

-----------------------------------------------------------------------------
(* Properties *)

StopAnswered ==
  \E r \in pending, n \in 1 .. Len(toClient) :
    r.of = "stop" /\ toClient[n].m = "response" /\ toClient[n].seq = r.seq

\* The gdb-server is gone before the answer to endSession is on the wire, and no
\* session that has been dropped leaves one behind.
NoServerLeftBehind == StopAnswered \/ loop = "dropped" => child # "running"

\* However the client goes (a stop, a crash, a reset), its gdb-server is ended with
\* the session, unless the link has gone silent.
ClientGoneEndsServer ==
  (csock = "closed") ~> (link = "frozen" \/ (loop = "dropped" /\ child # "running"))

\* A gdb-server that ends on its own is reported: the launch fails or the session is
\* told, unless it is stopping already, the link is lost, or the reaper could not poll
\* the process.
ExitIsReported ==
  (child = "exited") ~>
    (told = "yes" \/ outcome = "failed" \/ stopping # "no" \/ link # "up" \/ reaper = "lost")

\* Whichever end goes first, the other learns of it.
EndsAreNoticed == ClientGoneEndsServer /\ ExitIsReported

\* stopServer returns even if the proxy never answers again, with the local server
\* closed and every socket it held destroyed.
StopReturns ==
  (stopping # "no") ~> [](stopping = "done" /\ csock = "closed" /\ sockets = {}
                          /\ server \in {"none", "closed"})

\* Where the chunks of stream i are among the frames on their way.
Carries(frames, i) == {p \in 1 .. Len(frames) : frames[p].m = "data" /\ frames[p].id = i}

\* They are what `who' sent after the first n chunks and up to the m-th, each once and in
\* order.
OnTheWay(frames, i, who, n, m) ==
  /\ n <= m
  /\ \A p \in Carries(frames, i) : \E c \in n + 1 .. m : frames[p].chunk = <<who, c>>
  /\ \A c \in n + 1 .. m : \E p \in Carries(frames, i) : frames[p].chunk = <<who, c>>
  /\ \A p, q \in Carries(frames, i) : p < q => frames[p].chunk[2] < frames[q].chunk[2]

Upto(who, n) == [j \in 1 .. n |-> <<who, j>>]

\* What has arrived are the first chunks of `who', and the others are on their way.
Conveys(received, frames, i, who, m) ==
  /\ received = Upto(who, Len(received))
  /\ OnTheWay(frames, i, who, Len(received), m)

\* While no local client has hung up or been timed out, each is joined to one
\* connection of the gdb-server of its own: all that connection sent is written to it,
\* in order, and all it sent reaches that connection, in order, whatever was buffered
\* before the stream had its id.
OneConversation ==
  restless = {} =>
    \A l \in Locals, k \in Conns :
      LET i == sid[l]
      IN  lsock[l] = "open" /\ i # NoId /\ streams[i] = k =>
            /\ Conveys(got[l], toClient, i, k, conn[k].fwd)
            /\ loop = "running" /\ csock = "open" /\ HasPeer(k) =>
                 Conveys(conn[k].got, toServer, i, l, asked[l])

=============================================================================
