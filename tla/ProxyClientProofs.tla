---------------------------- MODULE ProxyClientProofs ----------------------------
(***************************************************************************)
(* A stopped or dropped session of the Probe Agent leaves no gdb-server    *)
(* behind, for any number of local clients, streams and faults: when the   *)
(* answer to endSession is on the wire, or the session has been dropped,   *)
(* the server has ended.                                                   *)
(*                                                                         *)
(* That the answer is preceded by the kill is more than the order of two   *)
(* statements of one handler: no other answer may carry the number of that *)
(* request (NumberInv, StopInv), and a session that has lost its handle on *)
(* the server (the reaper's report) must have none left to kill            *)
(* (ServerInv).                                                            *)
(*                                                                         *)
(* And the local clients do not hear one another.  As long as none has     *)
(* hung up or been timed out (Calm), Talk holds: a client without a stream *)
(* has at most one request in flight (LocalRequests), the stream that its  *)
(* answer names is nobody's yet (Fresh), no chunk comes before that answer *)
(* (Owners), and who has a stream and its connection have each received    *)
(* what is not on the way to them any more (Serves).  It rests on where a  *)
(* request, its debt or its answer may be at one time (PlaceInv), on the   *)
(* order of a launch (LaunchInv, SetupInv), and on the numbering of        *)
(* streams (IdsInv).  The steps of the session are sorted into the few     *)
(* kinds a conversation can tell apart (SessionStep); so are those of the  *)
(* adapter (Idle, SocketCloses, and the handlers that move a stream).      *)
(***************************************************************************)
EXTENDS ProxyClient, SequenceTheorems, TLAPS

IsSeq(s) == \E S : s \in Seq(S)

\* What is in a sequence.
Held(s) == {s[n] : n \in 1 .. Len(s)}

\* A frame that is a request, with the number of it.
Numbered(f) == f.m \notin {"data", "eof"}

\* A connection that is still to be answered.
Owing == {"waiting", "connected", "failed"}

ChannelTypes ==
  /\ IsSeq(toServer) /\ IsSeq(toClient)
  /\ DOMAIN toBuf = Locals /\ \A l \in Locals : IsSeq(toBuf[l])
  /\ DOMAIN conn = Conns
  /\ \A k \in Conns : DOMAIN conn[k] = {"at", "id", "seq", "sent", "fwd", "hung", "got"}

\* Numbers are given out once.
NumberInv ==
  /\ nextSeq \in Nat \ {0}
  /\ \A r \in pending : r.seq \in Nat /\ r.seq < nextSeq
  /\ \A f \in Held(toServer) : Numbered(f) => f.seq \in Nat /\ f.seq < nextSeq
  /\ \A f \in Held(toClient) : f.m = "response" => f.seq \in Nat /\ f.seq < nextSeq
  /\ \A k \in Conns : conn[k].seq \in Nat /\ conn[k].seq < nextSeq

\* Only endSession carries the number of the request to stop, and it is answered when the
\* session is over and the server has ended.
StopInv ==
  \A r \in pending :
    r.of = "stop" =>
      /\ \A f \in Held(toServer) : Numbered(f) /\ f.seq = r.seq => f.m = "endSession"
      /\ \A k \in Conns : conn[k].at \in Owing => conn[k].seq # r.seq
      /\ \A f \in Held(toClient) :
           f.m = "response" /\ f.seq = r.seq => loop # "running" /\ child # "running"

\* Who has no handle on the server has none that runs.
ServerInv ==
  /\ child = "running" => process
  /\ reaper \in {"reaped", "reporting"} => child # "running"
  /\ loop = "dropped" => child # "running"

IInv == ChannelTypes /\ NumberInv /\ StopInv /\ ServerInv

-----------------------------------------------------------------------------
(* Sequences of frames *)

LEMMA NothingHeld == IsSeq(<< >>) /\ Held(<< >>) = {}
<1>1. << >> \in Seq({}) /\ \A n \in 1 .. Len(<< >>) : FALSE
  BY EmptySeq
<1> QED BY <1>1 DEF IsSeq, Held

LEMMA OneHeld ==
  ASSUME NEW a
  PROVE  IsSeq(<<a>>) /\ Held(<<a>>) = {a}
<1>1. <<a>> \in Seq({a}) /\ Len(<<a>>) = 1 /\ <<a>>[1] = a /\ 1 .. 1 = {1}
  OBVIOUS
<1> QED BY <1>1 DEF IsSeq, Held

LEMMA TwoHeld ==
  ASSUME NEW a, NEW b
  PROVE  IsSeq(<<a, b>>) /\ Held(<<a, b>>) = {a, b}
<1>1. <<a, b>> \in Seq({a, b}) /\ Len(<<a, b>>) = 2 /\ <<a, b>>[1] = a /\ <<a, b>>[2] = b
      /\ 1 .. 2 = {1, 2}
  OBVIOUS
<1> QED BY <1>1 DEF IsSeq, Held

LEMMA ConcatHeld ==
  ASSUME NEW s, NEW t, IsSeq(s), IsSeq(t)
  PROVE  IsSeq(s \o t) /\ Held(s \o t) \subseteq Held(s) \cup Held(t)
<1>1. PICK S, T : s \in Seq(S) /\ t \in Seq(T)
  BY DEF IsSeq
<1>2. s \in Seq(S \cup T) /\ t \in Seq(S \cup T)
  BY <1>1, SeqMonotonic
<1>3. /\ s \o t \in Seq(S \cup T)
      /\ Len(s) \in Nat /\ Len(t) \in Nat
      /\ Len(s \o t) = Len(s) + Len(t)
      /\ \A i \in 1 .. Len(s) + Len(t) : (s \o t)[i] = IF i <= Len(s) THEN s[i] ELSE t[i - Len(s)]
  BY <1>2, ConcatProperties, LenProperties
<1>4. ASSUME NEW i \in 1 .. Len(s \o t)
      PROVE  (s \o t)[i] \in Held(s) \cup Held(t)
  <2>1. CASE i <= Len(s)
    <3>1. i \in 1 .. Len(s) /\ (s \o t)[i] = s[i]
      BY <1>3, <2>1
    <3> QED BY <3>1 DEF Held
  <2>2. CASE ~(i <= Len(s))
    <3>1. i - Len(s) \in 1 .. Len(t) /\ (s \o t)[i] = t[i - Len(s)]
      BY <1>3, <2>2
    <3> QED BY <3>1 DEF Held
  <2> QED BY <2>1, <2>2
<1>5. Held(s \o t) \subseteq Held(s) \cup Held(t)
  BY <1>4 DEF Held
<1> QED BY <1>3, <1>5 DEF IsSeq

LEMMA AppendHeld ==
  ASSUME NEW s, IsSeq(s), NEW x
  PROVE  IsSeq(Append(s, x)) /\ Held(Append(s, x)) \subseteq Held(s) \cup {x}
<1>1. PICK S : s \in Seq(S)
  BY DEF IsSeq
<1>2. Append(s, x) = s \o <<x>>
  <2>1. s \in Seq(S \cup {x})
    BY <1>1, SeqMonotonic
  <2> QED BY <2>1, AppendIsConcat
<1> QED BY <1>2, ConcatHeld, OneHeld

LEMMA TailHeld ==
  ASSUME NEW s, IsSeq(s), s # << >>
  PROVE  /\ IsSeq(Tail(s)) /\ Held(Tail(s)) \subseteq Held(s)
         /\ Head(s) \in Held(s)
<1>1. PICK S : s \in Seq(S)
  BY DEF IsSeq
<1>2. /\ Len(s) \in Nat \ {0} /\ Head(s) = s[1]
      /\ Tail(s) \in Seq(S) /\ Len(Tail(s)) = Len(s) - 1
      /\ \A i \in 1 .. Len(Tail(s)) : Tail(s)[i] = s[i + 1]
  BY <1>1, HeadTailProperties, EmptySeq
<1>3. Head(s) \in Held(s)
  BY <1>2 DEF Held
<1>4. ASSUME NEW i \in 1 .. Len(Tail(s))
      PROVE  Tail(s)[i] \in Held(s)
  <2>1. i + 1 \in 1 .. Len(s) /\ Tail(s)[i] = s[i + 1]
    BY <1>2
  <2> QED BY <2>1 DEF Held
<1>5. Held(Tail(s)) \subseteq Held(s)
  BY <1>4 DEF Held
<1> QED BY <1>2, <1>3, <1>5 DEF IsSeq

-----------------------------------------------------------------------------
(* What one end may do *)

\* The client: it sends the number it gives to a new request, or data.
LEMMA ClientKeeps ==
  ASSUME IInv, UNCHANGED remoteVars,
         IsSeq(toServer'), IsSeq(toClient'), Held(toClient') \subseteq Held(toClient),
         DOMAIN toBuf' = Locals, \A l \in Locals : IsSeq(toBuf'[l]),
         nextSeq' \in {nextSeq, nextSeq + 1},
         \A r \in pending' : r \in pending \/ (nextSeq' = nextSeq + 1 /\ r.seq = nextSeq),
         \A f \in Held(toServer') :
           \/ f \in Held(toServer)
           \/ ~Numbered(f)
           \/ /\ nextSeq' = nextSeq + 1 /\ f.seq = nextSeq
              /\ \A r \in pending' : r.of = "stop" => r \in pending \/ f.m = "endSession"
  PROVE  IInv'
<1>1. UNCHANGED <<loop, conn, child, process, reaper>>
  BY DEF remoteVars, streamVars, processVars, childVars, threadVars
<1>2. nextSeq \in Nat \ {0} /\ nextSeq' \in Nat \ {0} /\ nextSeq <= nextSeq'
  BY DEF IInv, NumberInv
<1>3. ChannelTypes'
  BY <1>1 DEF IInv, ChannelTypes
<1>4. NumberInv'
  <2>1. \A r \in pending' : r.seq \in Nat /\ r.seq < nextSeq'
    BY <1>2 DEF IInv, NumberInv
  <2>2. \A f \in Held(toServer') : Numbered(f) => f.seq \in Nat /\ f.seq < nextSeq'
    BY <1>2 DEF IInv, NumberInv
  <2>3. \A f \in Held(toClient') : f.m = "response" => f.seq \in Nat /\ f.seq < nextSeq'
    BY <1>2 DEF IInv, NumberInv
  <2>4. \A k \in Conns : conn'[k].seq \in Nat /\ conn'[k].seq < nextSeq'
    BY <1>1, <1>2 DEF IInv, NumberInv
  <2> QED BY <1>2, <2>1, <2>2, <2>3, <2>4 DEF NumberInv
<1>5. ASSUME NEW r \in pending', r.of = "stop"
      PROVE  /\ \A f \in Held(toServer') : Numbered(f) /\ f.seq = r.seq => f.m = "endSession"
             /\ \A k \in Conns : conn[k].at \in Owing => conn[k].seq # r.seq
             /\ \A f \in Held(toClient') :
                  f.m = "response" /\ f.seq = r.seq => loop # "running" /\ child # "running"
  <2>1. CASE r \in pending
    <3>1. r.seq \in Nat /\ r.seq < nextSeq
      BY <2>1 DEF IInv, NumberInv
    <3>2. ASSUME NEW f \in Held(toServer'), Numbered(f), f.seq = r.seq
          PROVE  f.m = "endSession"
      <4>1. f \in Held(toServer)
        BY <1>2, <3>1, <3>2
      <4> QED BY <1>5, <2>1, <3>2, <4>1 DEF IInv, StopInv
    <3> QED BY <1>5, <2>1, <3>2 DEF IInv, StopInv
  <2>2. CASE r \notin pending
    <3>1. nextSeq' = nextSeq + 1 /\ r.seq = nextSeq
      BY <2>2
    <3>2. ASSUME NEW f \in Held(toServer'), Numbered(f), f.seq = r.seq
          PROVE  f.m = "endSession"
      <4>1. f \notin Held(toServer)
        BY <1>2, <3>1, <3>2 DEF IInv, NumberInv
      <4> QED BY <1>5, <2>2, <3>2, <4>1
    <3>3. \A k \in Conns : conn[k].seq # r.seq
      BY <1>2, <3>1 DEF IInv, NumberInv
    <3>4. \A f \in Held(toClient') : f.m = "response" => f.seq # r.seq
      BY <1>2, <3>1 DEF IInv, NumberInv
    <3> QED BY <3>2, <3>3, <3>4
  <2> QED BY <2>1, <2>2
<1>6. StopInv'
  BY <1>1, <1>5 DEF StopInv
<1>7. ServerInv'
  BY <1>1 DEF IInv, ServerInv
<1> QED BY <1>3, <1>4, <1>6, <1>7 DEF IInv

\* An answer is to a connection that is owed one or to a request; to endSession, when the
\* session is over and the server has ended.
Due(f) ==
  \/ f.m # "response"
  \/ \E k \in Conns : conn[k].at \in Owing /\ f.seq = conn[k].seq
  \/ \E g \in Held(toServer) :
       /\ Numbered(g) /\ f.seq = g.seq
       /\ g.m = "endSession" => loop' # "running" /\ child' # "running"

\* A connection keeps its number, or starts with that of a request.
Numbers(k) ==
  \/ conn'[k].seq = conn[k].seq /\ (conn'[k].at \in Owing => conn[k].at \in Owing)
  \/ \E g \in Held(toServer) : Numbered(g) /\ g.m # "endSession" /\ conn'[k].seq = g.seq

\* The Probe Agent: it answers what has been asked.
LEMMA SessionKeeps ==
  ASSUME IInv, UNCHANGED clientVars,
         IsSeq(toServer'), IsSeq(toClient'), Held(toServer') \subseteq Held(toServer),
         \A f \in Held(toClient') : f \in Held(toClient) \/ Due(f),
         DOMAIN conn' = Conns,
         \A k \in Conns : DOMAIN conn'[k] = {"at", "id", "seq", "sent", "fwd", "hung", "got"},
         \A k \in Conns : Numbers(k),
         loop # "running" /\ child # "running" => loop' # "running" /\ child' # "running",
         ServerInv'
  PROVE  IInv'
<1>1. UNCHANGED <<pending, nextSeq, toBuf>>
  BY DEF clientVars, linkVars, localVars
<1>2. ChannelTypes'
  BY <1>1 DEF IInv, ChannelTypes
<1>3. NumberInv'
  <2>1. \A f \in Held(toServer') : Numbered(f) => f.seq \in Nat /\ f.seq < nextSeq
    BY DEF IInv, NumberInv
  <2>2. ASSUME NEW f \in Held(toClient'), f.m = "response"
        PROVE  f.seq \in Nat /\ f.seq < nextSeq
    <3>1. CASE f \in Held(toClient)
      BY <2>2, <3>1 DEF IInv, NumberInv
    <3>2. CASE f \notin Held(toClient)
      BY <2>2, <3>2 DEF IInv, NumberInv, Due
    <3> QED BY <3>1, <3>2
  <2>3. \A k \in Conns : conn'[k].seq \in Nat /\ conn'[k].seq < nextSeq
    BY DEF IInv, NumberInv, Numbers
  <2>4. nextSeq \in Nat \ {0} /\ \A r \in pending : r.seq \in Nat /\ r.seq < nextSeq
    BY DEF IInv, NumberInv
  <2> QED BY <1>1, <2>1, <2>2, <2>3, <2>4 DEF NumberInv
<1>4. ASSUME NEW r \in pending, r.of = "stop"
      PROVE  /\ \A f \in Held(toServer') : Numbered(f) /\ f.seq = r.seq => f.m = "endSession"
             /\ \A k \in Conns : conn'[k].at \in Owing => conn'[k].seq # r.seq
             /\ \A f \in Held(toClient') :
                  f.m = "response" /\ f.seq = r.seq => loop' # "running" /\ child' # "running"
  <2>1. /\ \A f \in Held(toServer) : Numbered(f) /\ f.seq = r.seq => f.m = "endSession"
        /\ \A k \in Conns : conn[k].at \in Owing => conn[k].seq # r.seq
        /\ \A f \in Held(toClient) :
             f.m = "response" /\ f.seq = r.seq => loop # "running" /\ child # "running"
    BY <1>4 DEF IInv, StopInv
  <2>2. \A k \in Conns : conn'[k].at \in Owing => conn'[k].seq # r.seq
    BY <2>1 DEF Numbers
  <2>3. ASSUME NEW f \in Held(toClient'), f.m = "response", f.seq = r.seq
        PROVE  loop' # "running" /\ child' # "running"
    <3>1. CASE f \in Held(toClient)
      BY <2>1, <2>3, <3>1
    <3>2. CASE f \notin Held(toClient)
      BY <2>1, <2>3, <3>2 DEF Due
    <3> QED BY <3>1, <3>2
  <2> QED BY <2>1, <2>2, <2>3
<1>5. StopInv'
  BY <1>1, <1>4 DEF StopInv
<1> QED BY <1>2, <1>3, <1>5 DEF IInv

-----------------------------------------------------------------------------
(* The Probe Agent *)

LEMMA TakesFrame ==
  ASSUME IInv, NEW m, Takes(m)
  PROVE  /\ Request \in Held(toServer) /\ Request.m = m
         /\ IsSeq(toServer') /\ Held(toServer') \subseteq Held(toServer)
         /\ loop = "running"
<1>1. /\ IsSeq(toServer) /\ toServer # << >> /\ toServer' = Tail(toServer)
      /\ Request = Head(toServer) /\ Request.m = m /\ loop = "running"
  BY DEF IInv, ChannelTypes, Takes, Request
<1> QED BY <1>1, TailHeld

LEMMA FrameSent ==
  ASSUME IInv, NEW f, Frame(f)
  PROVE  IsSeq(toClient') /\ Held(toClient') \subseteq Held(toClient) \cup {f}
BY AppendHeld DEF IInv, ChannelTypes, Frame

LEMMA FramesSent ==
  ASSUME IInv, NEW f, NEW g, Frames(<<f, g>>)
  PROVE  IsSeq(toClient') /\ Held(toClient') \subseteq Held(toClient) \cup {f, g}
<1>1. IsSeq(toClient) /\ toClient' = toClient \o <<f, g>>
  BY DEF IInv, ChannelTypes, Frames
<1>2. IsSeq(<<f, g>>) /\ Held(<<f, g>>) = {f, g}
  BY TwoHeld
<1> QED BY <1>1, <1>2, ConcatHeld

LEMMA PipesStay ==
  ASSUME IInv, UNCHANGED <<toServer, toClient>>
  PROVE  /\ IsSeq(toServer') /\ Held(toServer') \subseteq Held(toServer)
         /\ IsSeq(toClient') /\ \A f \in Held(toClient') : f \in Held(toClient) \/ Due(f)
BY DEF IInv, ChannelTypes

ConnsHold ==
  /\ DOMAIN conn' = Conns
  /\ \A k \in Conns : DOMAIN conn'[k] = {"at", "id", "seq", "sent", "fwd", "hung", "got"}
  /\ \A k \in Conns : Numbers(k)

LEMMA ConnsStay ==
  ASSUME IInv, UNCHANGED conn
  PROVE  ConnsHold
BY DEF IInv, ChannelTypes, ConnsHold, Numbers

\* A connection changes in anything but its number, and does not come to be owed an answer.
LEMMA ConnMoves ==
  ASSUME IInv, NEW k \in Conns, NEW c, conn' = [conn EXCEPT ![k] = c],
         DOMAIN c = {"at", "id", "seq", "sent", "fwd", "hung", "got"},
         c.seq = conn[k].seq, c.at \in Owing => conn[k].at \in Owing
  PROVE  ConnsHold
<1>1. /\ DOMAIN conn = Conns
      /\ \A j \in Conns : DOMAIN conn[j] = {"at", "id", "seq", "sent", "fwd", "hung", "got"}
  BY DEF IInv, ChannelTypes
<1>2. DOMAIN conn' = Conns /\ \A j \in Conns : conn'[j] = IF j = k THEN c ELSE conn[j]
  BY <1>1
<1> QED BY <1>1, <1>2 DEF ConnsHold, Numbers

LEMMA ConnGoes ==
  ASSUME IInv, NEW k \in Conns, NEW to, conn' = [conn EXCEPT ![k].at = to],
         to \in Owing => conn[k].at \in Owing
  PROVE  ConnsHold
<1>1. DOMAIN conn = Conns /\ DOMAIN conn[k] = {"at", "id", "seq", "sent", "fwd", "hung", "got"}
  BY DEF IInv, ChannelTypes
<1> DEFINE c == [conn[k] EXCEPT !.at = to]
<1>2. conn' = [conn EXCEPT ![k] = c]
  OBVIOUS
<1>3. DOMAIN c = {"at", "id", "seq", "sent", "fwd", "hung", "got"} /\ c.seq = conn[k].seq /\ c.at = to
  BY <1>1
<1> HIDE DEF c
<1> QED BY <1>2, <1>3, ConnMoves

\* A waiter is started for a request.
LEMMA WaiterSpawned ==
  ASSUME IInv, NEW i, NEW g \in Held(toServer), Numbered(g), g.m # "endSession", SpawnWaiter(i, g.seq)
  PROVE  ConnsHold
<1>1. PICK k \in Conns : conn' = [conn EXCEPT ![k] = [NoConn EXCEPT !.at = "waiting", !.id = i, !.seq = g.seq]]
  BY DEF SpawnWaiter
<1> DEFINE c == [NoConn EXCEPT !.at = "waiting", !.id = i, !.seq = g.seq]
<1>2. DOMAIN c = {"at", "id", "seq", "sent", "fwd", "hung", "got"} /\ c.seq = g.seq
  BY DEF NoConn
<1> HIDE DEF c
<1>3. /\ DOMAIN conn = Conns
      /\ \A j \in Conns : DOMAIN conn[j] = {"at", "id", "seq", "sent", "fwd", "hung", "got"}
  BY DEF IInv, ChannelTypes
<1>4. DOMAIN conn' = Conns /\ \A j \in Conns : conn'[j] = IF j = k THEN c ELSE conn[j]
  BY <1>1, <1>3 DEF c
<1> QED BY <1>2, <1>3, <1>4 DEF ConnsHold, Numbers

\* The kill: nothing runs afterwards, because what runs has a handle.
LEMMA ProcessEnds ==
  ASSUME IInv, EndProcess
  PROVE  child' # "running"
<1>1. CASE child = "running"
  BY <1>1 DEF IInv, ServerInv, EndProcess
<1>2. CASE child # "running"
  BY <1>2 DEF EndProcess
<1> QED BY <1>1, <1>2

\* The step neither starts a server nor a session.
LEMMA NothingStarts ==
  ASSUME IInv, UNCHANGED <<loop, processVars, childVars, threadVars>>
  PROVE  ServerInv' /\ (loop # "running" /\ child # "running" => loop' # "running" /\ child' # "running")
BY DEF IInv, ServerInv, processVars, childVars, threadVars

\* The answer to a request that does not end the session.
LEMMA AnswerIsDue ==
  ASSUME NEW g \in Held(toServer), Numbered(g), g.m # "endSession", NEW ok, NEW i
  PROVE  Due(Answer(g.seq, ok, i))
BY DEF Due, Answer

LEMMA RequestsKeep ==
  ASSUME IInv, UNCHANGED clientVars, Requests
  PROVE  IInv'
<1>2. Due(Eof)
  BY DEF Due, Eof
\* A request that starts and ends nothing.
<1>4. ASSUME NEW m \in {"initialize", "allocatePorts", "syncFile"}, Takes(m), NEW ok, NEW i,
             Frame(Answer(Request.seq, ok, i)), UNCHANGED <<loop, conn, processVars, childVars, threadVars>>
      PROVE  IInv'
  <2>1. /\ Request \in Held(toServer) /\ Numbered(Request) /\ Request.m # "endSession"
        /\ IsSeq(toServer') /\ Held(toServer') \subseteq Held(toServer)
    BY <1>4, TakesFrame DEF Numbered
  <2>2. Due(Answer(Request.seq, ok, i))
    BY <2>1, AnswerIsDue
  <2>3. /\ IsSeq(toClient') /\ \A f \in Held(toClient') : f \in Held(toClient) \/ Due(f)
    BY <1>4, <2>2, FrameSent
  <2> QED BY <1>4, <2>1, <2>3, ConnsStay, NothingStarts, SessionKeeps DEF ConnsHold
<1>5. CASE Initialize
  <2>1. CASE Frame(Answer(Request.seq, TRUE, 0)) /\ UNCHANGED loop
    BY <1>4, <1>5, <2>1 DEF Initialize, streamVars
  <2>2. CASE Frames(<<Answer(Request.seq, FALSE, 0), Eof>>) /\ loop' = "over"
    <3>1. /\ Request \in Held(toServer) /\ Numbered(Request) /\ Request.m # "endSession"
          /\ IsSeq(toServer') /\ Held(toServer') \subseteq Held(toServer) /\ loop = "running"
      BY <1>5, TakesFrame DEF Initialize, Numbered
    <3>2. Due(Answer(Request.seq, FALSE, 0))
      BY <3>1, AnswerIsDue
    <3>3. /\ IsSeq(toClient') /\ \A f \in Held(toClient') : f \in Held(toClient) \/ Due(f)
      <4>1. IsSeq(toClient') /\ Held(toClient') \subseteq Held(toClient) \cup {Answer(Request.seq, FALSE, 0), Eof}
        BY <2>2, FramesSent
      <4>2. \A f \in {Answer(Request.seq, FALSE, 0), Eof} : Due(f)
        BY <1>2, <3>2
      <4> QED BY <4>1, <4>2
    <3>4. UNCHANGED <<conn, child, process, reaper>>
      BY <1>5 DEF Initialize, streamVars, processVars, childVars, threadVars
    <3>5. ServerInv'
      BY <2>2, <3>4 DEF IInv, ServerInv
    <3> QED BY <2>2, <3>1, <3>3, <3>4, <3>5, ConnsStay, SessionKeeps DEF ConnsHold
  <2> QED BY <1>5, <2>1, <2>2 DEF Initialize
<1>6. CASE AllocatePorts
  BY <1>4, <1>6 DEF AllocatePorts
<1>7. CASE SyncFile
  BY <1>4, <1>7 DEF SyncFile, streamVars
<1>8. CASE StartGdbServer
  <2>1. /\ Request \in Held(toServer) /\ Numbered(Request) /\ Request.m # "endSession"
        /\ IsSeq(toServer') /\ Held(toServer') \subseteq Held(toServer) /\ loop = "running"
    BY <1>8, TakesFrame DEF StartGdbServer, Numbered
  <2>2. PICK ok \in BOOLEAN : Frame(Answer(Request.seq, ok, 0))
    BY <1>8 DEF StartGdbServer
  <2>3. Due(Answer(Request.seq, ok, 0))
    BY <2>1, AnswerIsDue
  <2>4. /\ IsSeq(toClient') /\ \A f \in Held(toClient') : f \in Held(toClient) \/ Due(f)
    BY <2>2, <2>3, FrameSent
  <2>5. UNCHANGED conn
    BY <1>8 DEF StartGdbServer
  <2>6. ServerInv'
    <3>1. CASE child' = "running" /\ process' = TRUE /\ reaper' = "polling" /\ UNCHANGED loop
      BY <2>1, <3>1 DEF ServerInv
    <3>2. CASE UNCHANGED <<child, process, reaper>> /\ loop' = "over"
      BY <3>2 DEF IInv, ServerInv
    <3> QED BY <1>8, <3>1, <3>2 DEF StartGdbServer
  <2> QED BY <2>1, <2>4, <2>5, <2>6, ConnsStay, SessionKeeps DEF ConnsHold
<1>9. CASE StartStream
  <2>1. /\ Request \in Held(toServer) /\ Numbered(Request) /\ Request.m # "endSession"
        /\ IsSeq(toServer') /\ Held(toServer') \subseteq Held(toServer)
    BY <1>9, TakesFrame DEF StartStream, Numbered
  <2>2. ConnsHold
    BY <1>9, <2>1, WaiterSpawned, ConnsStay DEF StartStream
  <2>3. IsSeq(toClient') /\ \A f \in Held(toClient') : f \in Held(toClient) \/ Due(f)
    BY <1>9 DEF StartStream, IInv, ChannelTypes
  <2> QED BY <1>9, <2>1, <2>2, <2>3, NothingStarts, SessionKeeps DEF StartStream, ConnsHold
<1>10. CASE DuplicateStream
  <2>1. /\ Request \in Held(toServer) /\ Numbered(Request) /\ Request.m # "endSession"
        /\ IsSeq(toServer') /\ Held(toServer') \subseteq Held(toServer)
    BY <1>10, TakesFrame DEF DuplicateStream, Numbered
  <2>2. ConnsHold
    BY <1>10, <2>1, WaiterSpawned, ConnsStay DEF DuplicateStream
  <2>3. IsSeq(toClient') /\ \A f \in Held(toClient') : f \in Held(toClient) \/ Due(f)
    BY <1>10 DEF DuplicateStream, IInv, ChannelTypes
  <2> QED BY <1>10, <2>1, <2>2, <2>3, NothingStarts, SessionKeeps DEF DuplicateStream, ConnsHold
\* The server has ended when the answer is sent.
<1>11. CASE EndSession
  <2>1. /\ Request \in Held(toServer) /\ Numbered(Request)
        /\ IsSeq(toServer') /\ Held(toServer') \subseteq Held(toServer) /\ loop = "running"
    BY <1>11, TakesFrame DEF EndSession, Numbered
  <2>2. child' # "running" /\ loop' = "over" /\ UNCHANGED <<conn, reaper>>
    BY <1>11, ProcessEnds DEF EndSession, streamVars
  <2>3. Due(Answer(Request.seq, TRUE, 0))
    BY <2>1, <2>2 DEF Due, Answer
  <2>4. /\ IsSeq(toClient') /\ \A f \in Held(toClient') : f \in Held(toClient) \/ Due(f)
    <3>1. IsSeq(toClient') /\ Held(toClient') \subseteq Held(toClient) \cup {Answer(Request.seq, TRUE, 0), Eof}
      BY <1>11, FramesSent DEF EndSession
    <3>2. \A f \in {Answer(Request.seq, TRUE, 0), Eof} : Due(f)
      BY <1>2, <2>3
    <3> QED BY <3>1, <3>2
  <2>5. ServerInv'
    BY <2>2 DEF ServerInv
  <2> QED BY <2>1, <2>2, <2>4, <2>5, ConnsStay, SessionKeeps DEF ConnsHold
<1>12. CASE ForwardIn
  <2>1. IsSeq(toServer') /\ Held(toServer') \subseteq Held(toServer)
    BY <1>12, TakesFrame DEF ForwardIn
  <2>2. ConnsHold
    <3>1. CASE UNCHANGED conn
      BY <3>1, ConnsStay
    <3>2. CASE ~UNCHANGED conn
      <4>1. PICK k \in Conns : conn' = [conn EXCEPT ![k].got = Append(@, Request.chunk)]
        BY <1>12, <3>2 DEF ForwardIn
      <4> DEFINE c == [conn[k] EXCEPT !.got = Append(@, Request.chunk)]
      <4>2. DOMAIN conn = Conns /\ DOMAIN conn[k] = {"at", "id", "seq", "sent", "fwd", "hung", "got"}
        BY DEF IInv, ChannelTypes
      <4>3. conn' = [conn EXCEPT ![k] = c]
        BY <4>1
      <4>4. /\ DOMAIN c = {"at", "id", "seq", "sent", "fwd", "hung", "got"}
            /\ c.seq = conn[k].seq /\ c.at = conn[k].at
        BY <4>2
      <4> HIDE DEF c
      <4> QED BY <4>3, <4>4, ConnMoves
    <3> QED BY <3>1, <3>2
  <2>3. IsSeq(toClient') /\ \A f \in Held(toClient') : f \in Held(toClient) \/ Due(f)
    BY <1>12 DEF ForwardIn, IInv, ChannelTypes
  <2> QED BY <1>12, <2>1, <2>2, <2>3, NothingStarts, SessionKeeps DEF ForwardIn, ConnsHold
<1>13. CASE ClientClosed
  <2>1. IsSeq(toServer') /\ Held(toServer') \subseteq Held(toServer)
    BY <1>13, TakesFrame DEF ClientClosed
  <2>2. child' # "running" /\ loop' = "over" /\ UNCHANGED <<conn, reaper, toClient>>
    BY <1>13, ProcessEnds DEF ClientClosed, streamVars
  <2>3. ServerInv'
    BY <2>2 DEF ServerInv
  <2>4. IsSeq(toClient') /\ \A f \in Held(toClient') : f \in Held(toClient) \/ Due(f)
    BY <2>2 DEF IInv, ChannelTypes
  <2> QED BY <2>1, <2>2, <2>3, <2>4, ConnsStay, SessionKeeps DEF ConnsHold
<1> QED BY <1>5, <1>6, <1>7, <1>8, <1>9, <1>10, <1>11, <1>12, <1>13 DEF Requests

\* What the loop does with the threads' events.
LEMMA EventsKeep ==
  ASSUME IInv, UNCHANGED clientVars, Events
  PROVE  IInv'
<1>0. DOMAIN conn = Conns /\ \A k \in Conns : DOMAIN conn[k] = {"at", "id", "seq", "sent", "fwd", "hung", "got"}
  BY DEF IInv, ChannelTypes
\* It sends a frame, due, and neither starts nor ends anything.
<1>1. ASSUME NEW f, Frame(f), Due(f), ConnsHold, UNCHANGED <<toServer, loop, child, process, reaper>>
      PROVE  IInv'
  <2>1. /\ IsSeq(toClient') /\ \A h \in Held(toClient') : h \in Held(toClient) \/ Due(h)
    BY <1>1, FrameSent
  <2>2. IsSeq(toServer') /\ Held(toServer') \subseteq Held(toServer)
    BY <1>1 DEF IInv, ChannelTypes
  <2>3. ServerInv'
    BY <1>1 DEF IInv, ServerInv
  <2> QED BY <1>1, <2>1, <2>2, <2>3, SessionKeeps DEF ConnsHold
<1>2. \A m, i : m # "response" => Due([m |-> m, id |-> i])
  BY DEF Due
<1>3. CASE PortReady
  <2>1. /\ Frame([m |-> "streamReady", id |-> FirstId])
        /\ UNCHANGED <<conn, toServer, loop, child, process, reaper>>
    BY <1>3 DEF PortReady, processVars, childVars
  <2>2. Due([m |-> "streamReady", id |-> FirstId])
    BY <1>2
  <2> QED BY <1>1, <2>1, <2>2, ConnsStay
<1>4. CASE Output
  <2>1. PICK f : Frame(f) /\ f.m # "response"
    <3>1. CASE Head(pipe) = "out"
      BY <1>4, <3>1 DEF Output
    <3>2. CASE Head(pipe) # "out"
      BY <1>4, <3>2 DEF Output
    <3> QED BY <3>1, <3>2
  <2>2. UNCHANGED <<conn, toServer, loop, child, process, reaper>>
    BY <1>4 DEF Output, streamVars, processVars, threadVars
  <2>3. Due(f)
    BY <2>1 DEF Due
  <2> QED BY <1>1, <2>1, <2>2, <2>3, ConnsStay
\* The report of the exit: the process it lets go of has ended.
<1>5. CASE GdbServerExited
  <2>1. /\ Frame([m |-> "gdbServerExited"]) /\ loop = "running" /\ loop' = "over" /\ reaper = "reporting"
        /\ process' = FALSE /\ reaper' = "gone"
        /\ UNCHANGED <<conn, toServer, child>>
    BY <1>5 DEF GdbServerExited, streamVars, childVars
  <2>2. Due([m |-> "gdbServerExited"])
    BY DEF Due
  <2>3. IsSeq(toClient') /\ \A h \in Held(toClient') : h \in Held(toClient) \/ Due(h)
    BY <2>1, <2>2, FrameSent
  <2>4. IsSeq(toServer') /\ Held(toServer') \subseteq Held(toServer)
    BY <2>1 DEF IInv, ChannelTypes
  <2>5. ServerInv'
    BY <2>1 DEF IInv, ServerInv
  <2> QED BY <2>1, <2>3, <2>4, <2>5, ConnsStay, SessionKeeps DEF ConnsHold
\* A connection that is owed an answer gets it.
<1>6. ASSUME NEW k \in Conns, PortConnected(k) \/ PortFailed(k)
      PROVE  IInv'
  <2>1. /\ conn[k].at \in Owing
        /\ UNCHANGED <<toServer, loop, child, process, reaper>>
    BY <1>6 DEF PortConnected, PortFailed, Owing, processVars, childVars, threadVars
  <2>2. PICK ok, i : Frame(Answer(conn[k].seq, ok, i))
    BY <1>6 DEF PortConnected, PortFailed
  <2>3. Due(Answer(conn[k].seq, ok, i))
    BY <2>1 DEF Due, Answer
  <2>4. PICK to \in {"forwarding", "gone"} : conn' = [conn EXCEPT ![k].at = to]
    BY <1>6 DEF PortConnected, PortFailed
  <2>5. ConnsHold
    BY <2>4, ConnGoes DEF Owing
  <2> QED BY <1>1, <2>1, <2>2, <2>3, <2>5
<1>7. ASSUME NEW k \in Conns, StreamData(k)
      PROVE  IInv'
  <2> DEFINE f == [m |-> "data", id |-> conn[k].id, chunk |-> <<k, conn[k].fwd + 1>>]
  <2> DEFINE c == [conn[k] EXCEPT !.fwd = conn[k].fwd + 1]
  <2>1. /\ Frame(f) /\ conn' = [conn EXCEPT ![k] = c]
        /\ UNCHANGED <<toServer, loop, child, process, reaper>>
    BY <1>7 DEF StreamData, processVars, childVars, threadVars
  <2>2. f.m = "data"
    OBVIOUS
  <2>3. /\ DOMAIN c = {"at", "id", "seq", "sent", "fwd", "hung", "got"}
        /\ c.seq = conn[k].seq /\ c.at = conn[k].at
    BY <1>0
  <2> HIDE DEF f, c
  <2>4. Due(f)
    BY <2>2 DEF Due
  <2> QED BY <1>1, <2>1, <2>3, <2>4, ConnMoves
<1>8. ASSUME NEW k \in Conns, StreamClosed(k)
      PROVE  IInv'
  <2>1. /\ Frame([m |-> "streamClosed", id |-> conn[k].id]) /\ conn' = [conn EXCEPT ![k].at = "gone"]
        /\ UNCHANGED <<toServer, loop, child, process, reaper>>
    BY <1>8 DEF StreamClosed, processVars, childVars, threadVars
  <2>2. Due([m |-> "streamClosed", id |-> conn[k].id])
    BY <1>2
  <2>3. ConnsHold
    BY <2>1, ConnGoes DEF Owing
  <2> QED BY <1>1, <2>1, <2>2, <2>3
<1> QED BY <1>3, <1>4, <1>5, <1>6, <1>7, <1>8 DEF Events

\* The gdb-server and the threads of the session, and the waiter that is late.
LEMMA OthersKeep ==
  ASSUME IInv, UNCHANGED clientVars,
         \/ Threads \/ MonitorFails \/ ReaperFails \/ ChildPrints \/ ChildListens \/ ChildExits
         \/ \E k \in Conns : PortConnectedLate(k) \/ ChildSends(k) \/ ChildHangsUp(k)
  PROVE  IInv'
<1>0. DOMAIN conn = Conns /\ \A k \in Conns : DOMAIN conn[k] = {"at", "id", "seq", "sent", "fwd", "hung", "got"}
  BY DEF IInv, ChannelTypes
\* Nothing goes through the pipes, and the session stays as it is.
<1>1. ASSUME ConnsHold, ServerInv', UNCHANGED <<toServer, toClient, loop>>, child' = "running" => child = "running"
      PROVE  IInv'
  BY <1>1, PipesStay, SessionKeeps DEF ConnsHold
<1>2. ASSUME NEW k \in Conns, NEW to, SetConn(k, to), to \in Owing => conn[k].at \in Owing
      PROVE  IInv'
  <2>1. conn' = [conn EXCEPT ![k].at = to] /\ UNCHANGED <<toServer, toClient, loop, child, process, reaper>>
    BY <1>2 DEF SetConn, processVars, childVars, threadVars
  <2>2. ConnsHold
    BY <1>2, <2>1, ConnGoes
  <2>3. ServerInv'
    BY <2>1 DEF IInv, ServerInv
  <2> QED BY <1>1, <2>1, <2>2, <2>3
<1>3. CASE ReaperPolls \/ ReaperJudges \/ ReaperCancelled \/ MonitorFinds \/ MonitorFails \/ ReaperFails
           \/ ChildPrints \/ ChildListens \/ ChildExits
  <2>1. UNCHANGED <<toServer, toClient, loop, conn, process>>
    BY <1>3 DEF ReaperPolls, ReaperJudges, ReaperCancelled, MonitorFinds, MonitorFails, ReaperFails,
                ChildPrints, ChildListens, ChildExits, streamVars, processVars
  <2>2. child' = "running" => child = "running"
    BY <1>3 DEF ReaperPolls, ReaperJudges, ReaperCancelled, MonitorFinds, MonitorFails, ReaperFails,
                ChildPrints, ChildListens, ChildExits, childVars
  <2>3. reaper' \in {"reaped", "reporting"} => child' # "running"
    BY <1>3 DEF ReaperPolls, ReaperJudges, ReaperCancelled, MonitorFinds, MonitorFails, ReaperFails,
                ChildPrints, ChildListens, ChildExits, childVars, threadVars, IInv, ServerInv
  <2>4. ServerInv'
    BY <2>1, <2>2, <2>3 DEF IInv, ServerInv
  <2> QED BY <1>1, <2>1, <2>2, <2>4, ConnsStay
<1>4. ASSUME NEW k \in Conns, WaiterConnects(k) \/ WaiterFails(k) \/ WaiterCancelled(k)
      PROVE  IInv'
  BY <1>2, <1>4 DEF WaiterConnects, WaiterFails, WaiterCancelled, Owing
<1>5. ASSUME NEW k \in Conns, PortConnectedLate(k)
      PROVE  IInv'
  <2>1. /\ conn[k].at \in Owing /\ conn' = [conn EXCEPT ![k].at = "mute"]
        /\ Frame(Answer(conn[k].seq, TRUE, conn[k].id))
        /\ UNCHANGED <<toServer, loop, child, process, reaper>>
    BY <1>5 DEF PortConnectedLate, Owing, processVars, childVars, threadVars
  <2>2. Due(Answer(conn[k].seq, TRUE, conn[k].id))
    BY <2>1 DEF Due, Answer
  <2>3. /\ IsSeq(toClient') /\ \A h \in Held(toClient') : h \in Held(toClient) \/ Due(h)
    BY <2>1, <2>2, FrameSent
  <2>4. IsSeq(toServer') /\ Held(toServer') \subseteq Held(toServer)
    BY <2>1 DEF IInv, ChannelTypes
  <2>5. ServerInv' /\ ConnsHold
    BY <2>1, ConnGoes DEF IInv, ServerInv, Owing
  <2> QED BY <2>1, <2>3, <2>4, <2>5, SessionKeeps DEF ConnsHold
<1>6. ASSUME NEW k \in Conns, ChildSends(k) \/ ChildHangsUp(k)
      PROVE  IInv'
  <2>1. UNCHANGED <<toServer, toClient, loop, child, process, reaper>>
    BY <1>6 DEF ChildSends, ChildHangsUp, processVars, childVars, threadVars
  <2>2. CASE ChildSends(k)
    <3> DEFINE c == [conn[k] EXCEPT !.sent = conn[k].sent + 1]
    <3>1. conn' = [conn EXCEPT ![k] = c]
      BY <2>2 DEF ChildSends
    <3>2. /\ DOMAIN c = {"at", "id", "seq", "sent", "fwd", "hung", "got"}
          /\ c.seq = conn[k].seq /\ c.at = conn[k].at
      BY <1>0
    <3> HIDE DEF c
    <3>3. ConnsHold
      BY <3>1, <3>2, ConnMoves
    <3>4. ServerInv'
      BY <2>1 DEF IInv, ServerInv
    <3> QED BY <1>1, <2>1, <3>3, <3>4
  <2>3. CASE ChildHangsUp(k)
    <3> DEFINE c == [conn[k] EXCEPT !.hung = TRUE]
    <3>1. conn' = [conn EXCEPT ![k] = c]
      BY <2>3 DEF ChildHangsUp
    <3>2. /\ DOMAIN c = {"at", "id", "seq", "sent", "fwd", "hung", "got"}
          /\ c.seq = conn[k].seq /\ c.at = conn[k].at
      BY <1>0
    <3> HIDE DEF c
    <3>3. ConnsHold
      BY <3>1, <3>2, ConnMoves
    <3>4. ServerInv'
      BY <2>1 DEF IInv, ServerInv
    <3> QED BY <1>1, <2>1, <3>3, <3>4
  <2> QED BY <1>6, <2>2, <2>3
<1> QED BY <1>3, <1>4, <1>5, <1>6 DEF Threads

\* The session is dropped: Drop ends the process.
LEMMA EndsKeep ==
  ASSUME IInv, UNCHANGED clientVars, DropSession \/ WriteFails
  PROVE  IInv'
<1>1. child' # "running" /\ UNCHANGED <<toServer, conn, reaper>> /\ loop' # "running"
  BY ProcessEnds DEF DropSession, WriteFails, streamVars
<1>2. ServerInv'
  BY <1>1, ProcessEnds DEF DropSession, WriteFails, ServerInv
<1>3. IsSeq(toClient') /\ \A f \in Held(toClient') : f \in Held(toClient) \/ Due(f)
  <2>1. CASE DropSession
    <3>1. Due(Eof)
      BY DEF Due, Eof
    <3> QED BY <2>1, <3>1, FrameSent DEF DropSession
  <2>2. CASE WriteFails
    BY <2>2 DEF WriteFails, IInv, ChannelTypes
  <2> QED BY <2>1, <2>2
<1>4. IsSeq(toServer') /\ Held(toServer') \subseteq Held(toServer)
  BY <1>1 DEF IInv, ChannelTypes
<1> QED BY <1>1, <1>2, <1>3, <1>4, ConnsStay, SessionKeeps DEF ConnsHold

LEMMA SessionStepsKeep ==
  ASSUME IInv, Session
  PROVE  IInv'
BY RequestsKeep, EventsKeep, OthersKeep, EndsKeep DEF Session, Loop

-----------------------------------------------------------------------------
(* The client *)

LEMMA Posted ==
  ASSUME IInv, NEW fs, IsSeq(fs), Post(fs)
  PROVE  IsSeq(toServer') /\ Held(toServer') \subseteq Held(toServer) \cup Held(fs)
BY ConcatHeld DEF IInv, ChannelTypes, Post

\* It makes no request: what it sends is data or the end.
LEMMA QuietKeeps ==
  ASSUME IInv, UNCHANGED <<remoteVars, nextSeq>>, pending' \subseteq pending,
         IsSeq(toServer'), \A f \in Held(toServer') : f \in Held(toServer) \/ ~Numbered(f),
         IsSeq(toClient'), Held(toClient') \subseteq Held(toClient),
         DOMAIN toBuf' = Locals, \A l \in Locals : IsSeq(toBuf'[l])
  PROVE  IInv'
<1>1. /\ UNCHANGED remoteVars /\ nextSeq' \in {nextSeq, nextSeq + 1}
      /\ \A r \in pending' : r \in pending
  OBVIOUS
<1> QED BY <1>1, ClientKeeps

\* Nothing goes through the pipes.
LEMMA SilentKeeps ==
  ASSUME IInv, UNCHANGED <<toServer, toClient, remoteVars, nextSeq, toBuf>>, pending' \subseteq pending
  PROVE  IInv'
<1>1. /\ IsSeq(toServer') /\ \A f \in Held(toServer') : f \in Held(toServer)
      /\ IsSeq(toClient') /\ Held(toClient') \subseteq Held(toClient)
      /\ DOMAIN toBuf' = Locals /\ \A l \in Locals : IsSeq(toBuf'[l])
  BY DEF IInv, ChannelTypes
<1>2. UNCHANGED <<remoteVars, nextSeq>>
  OBVIOUS
<1> QED BY <1>1, <1>2, QuietKeeps

LEMMA AskKeeps ==
  ASSUME IInv, UNCHANGED <<toClient, remoteVars, toBuf>>,
         NEW who, NEW method, NEW id, NEW dup, Ask(who, method, id, dup),
         who = "stop" => method = "endSession"
  PROVE  IInv'
<1> DEFINE f == [m |-> method, seq |-> nextSeq, id |-> id]
<1> DEFINE r == [seq |-> nextSeq, of |-> who, dup |-> dup]
<1>1. nextSeq' = nextSeq + 1 /\ pending' = pending \cup {r} /\ Post(<<f>>)
  BY DEF Ask
<1>2. f.m = method /\ f.seq = nextSeq /\ r.seq = nextSeq /\ r.of = who
  OBVIOUS
<1> HIDE DEF f, r
<1>3. IsSeq(toServer') /\ Held(toServer') \subseteq Held(toServer) \cup {f}
  BY <1>1, OneHeld, Posted
<1>4. \A q \in pending' : q \in pending \/ (nextSeq' = nextSeq + 1 /\ q.seq = nextSeq)
  BY <1>1, <1>2
<1>5. \A q \in pending' : q.of = "stop" => q \in pending \/ f.m = "endSession"
  BY <1>1, <1>2
<1>6. \A g \in Held(toServer') :
        \/ g \in Held(toServer)
        \/ ~Numbered(g)
        \/ /\ nextSeq' = nextSeq + 1 /\ g.seq = nextSeq
           /\ \A q \in pending' : q.of = "stop" => q \in pending \/ g.m = "endSession"
  BY <1>1, <1>2, <1>3, <1>5
<1>7. /\ IsSeq(toClient') /\ Held(toClient') \subseteq Held(toClient)
      /\ DOMAIN toBuf' = Locals /\ \A l \in Locals : IsSeq(toBuf'[l])
  BY DEF IInv, ChannelTypes
<1>8. UNCHANGED remoteVars /\ nextSeq' \in {nextSeq, nextSeq + 1}
  BY <1>1
<1> QED BY <1>3, <1>4, <1>6, <1>7, <1>8, ClientKeeps

\* What a stream had buffered is data.
LEMMA BufferedIsData ==
  ASSUME NEW buf, IsSeq(buf), NEW i
  PROVE  LET fs == [n \in 1 .. Len(buf) |-> [m |-> "data", id |-> i, chunk |-> buf[n]]]
         IN  IsSeq(fs) /\ \A f \in Held(fs) : ~Numbered(f)
<1> DEFINE fs == [n \in 1 .. Len(buf) |-> [m |-> "data", id |-> i, chunk |-> buf[n]]]
<1>1. Len(buf) \in Nat
  BY LenProperties DEF IsSeq
<1>2. \A n \in 1 .. Len(buf) : fs[n].m = "data"
  OBVIOUS
<1>3. DOMAIN fs = 1 .. Len(buf) /\ fs = [n \in 1 .. Len(buf) |-> fs[n]]
  OBVIOUS
<1> HIDE DEF fs
<1>4. fs \in Seq({fs[n] : n \in 1 .. Len(buf)})
  BY <1>1, <1>3
<1>5. Len(fs) = Len(buf)
  BY <1>1, <1>3, <1>4, LenProperties
<1>6. \A f \in Held(fs) : ~Numbered(f)
  BY <1>2, <1>5 DEF Held, Numbered
<1> QED BY <1>4, <1>6 DEF IsSeq, fs

\* The request that is answered or given up makes way, and a stop half-closes.
LEMMA HalfCloseSends ==
  ASSUME IInv, HalfClose
  PROVE  IsSeq(toServer') /\ \A f \in Held(toServer') : f \in Held(toServer) \/ ~Numbered(f)
<1>1. IsSeq(toServer') /\ Held(toServer') \subseteq Held(toServer) \cup {Eof}
  BY AppendHeld DEF IInv, ChannelTypes, HalfClose
<1>2. ~Numbered(Eof)
  BY DEF Numbered, Eof
<1> QED BY <1>1, <1>2

LEMMA StreamAnsweredSends ==
  ASSUME IInv, NEW r \in pending, NEW f, r.of \in Locals, StreamAnswered(r, f)
  PROVE  IsSeq(toServer') /\ \A g \in Held(toServer') : g \in Held(toServer) \/ ~Numbered(g)
<1>1. CASE UNCHANGED toServer
  BY <1>1 DEF IInv, ChannelTypes
<1>2. CASE ~UNCHANGED toServer
  <2>1. PICK i : SetStreamId(r.of, i)
    BY <1>2 DEF StreamAnswered
  <2> DEFINE fs == [n \in 1 .. Len(toBuf[r.of]) |-> [m |-> "data", id |-> i, chunk |-> toBuf[r.of][n]]]
  <2>2. Post(fs)
    BY <2>1 DEF SetStreamId
  <2>3. IsSeq(toBuf[r.of])
    BY DEF IInv, ChannelTypes
  <2>4. IsSeq(fs) /\ \A g \in Held(fs) : ~Numbered(g)
    BY <2>3, BufferedIsData
  <2> HIDE DEF fs
  <2> QED BY <2>2, <2>4, Posted
<1> QED BY <1>1, <1>2

LEMMA ReceiveKeeps ==
  ASSUME IInv, Receive
  PROVE  IInv'
<1> DEFINE f == Head(toClient)
<1>1. IsSeq(toClient') /\ Held(toClient') \subseteq Held(toClient) /\ UNCHANGED remoteVars
  BY TailHeld DEF Receive, IInv, ChannelTypes
<1>2. DOMAIN toBuf = Locals /\ \A l \in Locals : IsSeq(toBuf[l])
  BY DEF IInv, ChannelTypes
<1>3. ASSUME UNCHANGED <<toServer, nextSeq, toBuf>>, pending' \subseteq pending
      PROVE  IInv'
  <2>1. IsSeq(toServer') /\ \A g \in Held(toServer') : g \in Held(toServer)
    BY <1>3 DEF IInv, ChannelTypes
  <2> QED BY <1>1, <1>2, <1>3, <2>1, QuietKeeps
<1>4. ASSUME NEW r \in pending, Answered(r, f)
      PROVE  IInv'
  <2>1. pending' \subseteq pending /\ UNCHANGED <<nextSeq, toBuf>>
    BY <1>4 DEF Answered
  <2>2. IsSeq(toServer') /\ \A g \in Held(toServer') : g \in Held(toServer) \/ ~Numbered(g)
    <3>1. CASE r.of = "stop"
      BY <1>4, <3>1, HalfCloseSends DEF Answered
    <3>2. CASE r.of \in Locals
      BY <1>4, <3>2, StreamAnsweredSends DEF Answered
    <3>3. CASE r.of # "stop" /\ r.of \notin Locals
      BY <1>4, <3>3 DEF Answered, IInv, ChannelTypes
    <3> QED BY <3>1, <3>2, <3>3
  <2> QED BY <1>1, <1>2, <2>1, <2>2, QuietKeeps
<1>5. CASE Ignored
  BY <1>3, <1>5 DEF Ignored, clientVars, linkVars, localVars
<1>6. ASSUME NEW i, StreamReady(i) \/ RemoteClosed(i)
      PROVE  IInv'
  BY <1>3, <1>6 DEF StreamReady, RemoteClosed, linkVars
<1>7. ASSUME NEW i, NEW c, FromProxy(i, c)
      PROVE  IInv'
  BY <1>3, <1>7 DEF FromProxy, linkVars
<1>8. CASE ServerExitHeard
  BY <1>3, <1>8 DEF ServerExitHeard, linkVars, localVars
<1>9. CASE EofHeard
  BY <1>3, <1>9 DEF EofHeard, SocketCloses
<1>10. \/ \E r \in pending : Answered(r, f)
       \/ Ignored \/ StreamReady(f.id) \/ RemoteClosed(f.id) \/ FromProxy(f.id, f.chunk)
       \/ ServerExitHeard \/ EofHeard
  BY DEF Receive
<1> QED BY <1>4, <1>5, <1>6, <1>7, <1>8, <1>9, <1>10

LEMMA TimersKeep ==
  ASSUME IInv, Timers
  PROVE  IInv'
<1>1. CASE ExitTimer \/ LaunchTimer \/ SpawnsLocally
  BY <1>1, SilentKeeps DEF ExitTimer, LaunchTimer, SpawnsLocally, sessionVars, remoteVars, linkVars, localVars
<1>2. CASE CloseTimer
  BY <1>2, SilentKeeps DEF CloseTimer, SocketCloses, sessionVars, remoteVars
<1>3. ASSUME NEW r \in pending, Timeout(r)
      PROVE  IInv'
  <2>1. pending' \subseteq pending /\ UNCHANGED <<toClient, remoteVars, nextSeq, toBuf>>
    BY <1>3 DEF Timeout
  <2>2. IsSeq(toServer') /\ \A g \in Held(toServer') : g \in Held(toServer) \/ ~Numbered(g)
    <3>1. CASE r.of = "stop"
      BY <1>3, <3>1, HalfCloseSends DEF Timeout
    <3>2. CASE r.of # "stop"
      BY <1>3, <3>2 DEF Timeout, IInv, ChannelTypes
    <3> QED BY <3>1, <3>2
  <2>3. /\ IsSeq(toClient') /\ Held(toClient') \subseteq Held(toClient)
        /\ DOMAIN toBuf' = Locals /\ \A l \in Locals : IsSeq(toBuf'[l])
    BY <2>1 DEF IInv, ChannelTypes
  <2> QED BY <2>1, <2>2, <2>3, QuietKeeps
<1> QED BY <1>1, <1>2, <1>3 DEF Timers

LEMMA LocalsKeep ==
  ASSUME IInv, NEW l \in Locals, Connect(l) \/ LocalCloses(l) \/ LocalSends(l)
  PROVE  IInv'
<1>1. CASE Connect(l)
  <2>1. UNCHANGED <<toClient, remoteVars, toBuf>>
    BY <1>1 DEF Connect
  <2>2. CASE UNCHANGED <<pending, nextSeq, toServer>>
    BY <2>1, <2>2, SilentKeeps
  <2>3. CASE \E method, id, dup : Ask(l, method, id, dup)
    <3>1. l # "stop"
      BY ClientAssumption
    <3> QED BY <2>1, <2>3, <3>1, AskKeeps
  <2> QED BY <1>1, <2>2, <2>3 DEF Connect
<1>2. CASE LocalCloses(l)
  BY <1>2, SilentKeeps DEF LocalCloses, sessionVars, remoteVars, linkVars
<1>3. CASE LocalSends(l)
  <2>1. /\ UNCHANGED <<toClient, remoteVars, pending, nextSeq>>
        /\ DOMAIN toBuf = Locals /\ \A j \in Locals : IsSeq(toBuf[j])
        /\ IsSeq(toClient') /\ Held(toClient') \subseteq Held(toClient)
    BY <1>3 DEF LocalSends, linkVars, IInv, ChannelTypes
  <2>2. CASE sid[l] = NoId
    <3>1. toBuf' = [toBuf EXCEPT ![l] = Append(toBuf[l], <<l, asked[l] + 1>>)] /\ UNCHANGED toServer
      BY <1>3, <2>2 DEF LocalSends
    <3>2. IsSeq(Append(toBuf[l], <<l, asked[l] + 1>>))
      BY <2>1, AppendHeld
    <3>3. DOMAIN toBuf' = Locals /\ \A j \in Locals : IsSeq(toBuf'[j])
      BY <2>1, <3>1, <3>2
    <3>4. IsSeq(toServer') /\ \A f \in Held(toServer') : f \in Held(toServer)
      BY <3>1 DEF IInv, ChannelTypes
    <3> QED BY <2>1, <3>3, <3>4, QuietKeeps
  <2>3. CASE sid[l] # NoId
    <3> DEFINE f == [m |-> "data", id |-> sid[l], chunk |-> <<l, asked[l] + 1>>]
    <3>1. Post(<<f>>) /\ UNCHANGED toBuf
      BY <1>3, <2>3 DEF LocalSends
    <3>2. ~Numbered(f)
      BY DEF Numbered
    <3> HIDE DEF f
    <3>3. IsSeq(toServer') /\ \A g \in Held(toServer') : g \in Held(toServer) \/ ~Numbered(g)
      BY <3>1, <3>2, OneHeld, Posted
    <3> QED BY <2>1, <3>1, <3>3, QuietKeeps
  <2> QED BY <2>2, <2>3
<1> QED BY <1>1, <1>2, <1>3

LEMMA ClientStepsKeep ==
  ASSUME IInv, Client
  PROVE  IInv'
<1>1. CASE SendSetup
  <2>1. UNCHANGED <<toClient, remoteVars, toBuf>>
    BY <1>1 DEF SendSetup, localVars
  <2>2. CASE UNCHANGED <<pending, nextSeq, toServer>>
    BY <2>1, <2>2, SilentKeeps
  <2>3. CASE Ask("setup", Steps[step], 0, FALSE)
    BY <2>1, <2>3, AskKeeps
  <2> QED BY <1>1, <2>2, <2>3 DEF SendSetup
<1>2. CASE Listening \/ SpawnsLocally
  BY <1>2, SilentKeeps DEF Listening, SpawnsLocally, sessionVars, remoteVars, linkVars, localVars
<1>3. CASE Stop
  <2>1. UNCHANGED <<toClient, remoteVars, toBuf>>
    BY <1>3 DEF Stop
  <2>2. CASE UNCHANGED <<pending, nextSeq, toServer>>
    BY <2>1, <2>2, SilentKeeps
  <2>3. CASE Ask("stop", "endSession", 0, FALSE)
    BY <2>1, <2>3, AskKeeps
  <2> QED BY <1>3, <2>2, <2>3 DEF Stop
<1>4. ASSUME NEW l \in Locals, Connect(l) \/ LocalCloses(l) \/ LocalSends(l)
      PROVE  IInv'
  BY <1>4, LocalsKeep
<1> QED BY <1>1, <1>2, <1>3, <1>4, ReceiveKeeps, TimersKeep, ClientAssumption DEF Client

\* The network.
LEMMA LinkKeeps ==
  ASSUME IInv, LinkFreezes \/ LinkBreaks
  PROVE  IInv'
<1>1. CASE LinkFreezes
  BY <1>1, SilentKeeps DEF LinkFreezes, sessionVars, remoteVars, linkVars, localVars
<1>2. CASE LinkBreaks
  <2>1. /\ pending' \subseteq pending /\ UNCHANGED <<toClient, remoteVars, nextSeq, toBuf>>
        /\ toServer' = <<Eof>>
    BY <1>2 DEF LinkBreaks, SocketCloses
  <2>2. ~Numbered(Eof)
    BY DEF Numbered, Eof
  <2>3. IsSeq(toServer') /\ \A f \in Held(toServer') : ~Numbered(f)
    BY <2>1, <2>2, OneHeld
  <2>4. /\ IsSeq(toClient') /\ Held(toClient') \subseteq Held(toClient)
        /\ DOMAIN toBuf' = Locals /\ \A l \in Locals : IsSeq(toBuf'[l])
    BY <2>1 DEF IInv, ChannelTypes
  <2> QED BY <2>1, <2>3, <2>4, QuietKeeps
<1> QED BY <1>1, <1>2

LEMMA ProxyInitHolds == ProxyInit => IInv
<1> SUFFICES ASSUME ProxyInit PROVE IInv
  OBVIOUS
<1>1. /\ toServer = << >> /\ toClient = << >> /\ loop = "running" /\ process = FALSE
      /\ child = "none" /\ reaper = "none" /\ conn = [k \in Conns |-> NoConn]
      /\ pending = {} /\ nextSeq = 1 /\ toBuf = [l \in Locals |-> << >>]
  BY DEF ProxyInit, SessionInit, ClientInit
<1>2. ChannelTypes
  BY <1>1, NothingHeld DEF ChannelTypes, NoConn
<1>3. NumberInv
  BY <1>1, NothingHeld DEF NumberInv, NoConn
<1> QED BY <1>1, <1>2, <1>3 DEF IInv, StopInv, ServerInv

LEMMA ProxyStepKeeps == IInv /\ [ProxyNext]_proxyVars => IInv'
<1> SUFFICES ASSUME IInv, [ProxyNext]_proxyVars PROVE IInv'
  OBVIOUS
<1>1. CASE UNCHANGED proxyVars
  <2>1. UNCHANGED <<toServer, toClient, remoteVars, nextSeq, toBuf, pending>>
    BY <1>1 DEF proxyVars, sessionVars, clientVars, remoteVars, linkVars, localVars
  <2> QED BY <2>1, SilentKeeps
<1> QED BY <1>1, SessionStepsKeep, ClientStepsKeep, LinkKeeps DEF ProxyNext

LEMMA NoneIsLeft == IInv => NoServerLeftBehind
<1> SUFFICES ASSUME IInv, StopAnswered \/ loop = "dropped" PROVE child # "running"
  BY DEF NoServerLeftBehind
<1>1. CASE StopAnswered
  <2>1. PICK r \in pending, n \in 1 .. Len(toClient) :
          r.of = "stop" /\ toClient[n].m = "response" /\ toClient[n].seq = r.seq
    BY <1>1 DEF StopAnswered
  <2>2. toClient[n] \in Held(toClient)
    BY DEF Held
  <2> QED BY <2>1, <2>2 DEF IInv, StopInv
<1>2. CASE loop = "dropped"
  BY <1>2 DEF IInv, ServerInv
<1> QED BY <1>1, <1>2

-----------------------------------------------------------------------------
\* When the answer to endSession is on its way to the adapter, and when the session of
\* the Probe Agent has been dropped, the gdb-server it launched has ended: the handler of
\* endSession kills it and waits before it answers, and Drop does on every other way out.
THEOREM StoppedServersAreGone == ProxySpec => []NoServerLeftBehind
<1> QED BY ProxyInitHolds, ProxyStepKeeps, NoneIsLeft, PTL DEF ProxySpec

-----------------------------------------------------------------------------
(* Frames at their positions *)

\* A frame that carries the number of a request.
Marks == {"initialize", "allocatePorts", "syncFile", "startGdbServer", "startStream",
          "duplicateStream", "endSession", "response"}

Marked(f) == f.m \in Marks

\* Which numbers are on the way, and that none is twice.
Seqs(s) == {s[p].seq : p \in {q \in 1 .. Len(s) : Marked(s[q])}}
Once(s) == \A p, q \in 1 .. Len(s) : Marked(s[p]) /\ Marked(s[q]) /\ s[p].seq = s[q].seq => p = q

\* t is s with something behind it.
Grows(s, t) == IsSeq(t) /\ Len(s) <= Len(t) /\ \A p \in 1 .. Len(s) : t[p] = s[p]
Behind(s, t) == Len(s) + 1 .. Len(t)

LEMMA LenIsNat ==
  ASSUME NEW s, IsSeq(s)
  PROVE  Len(s) \in Nat
BY LenProperties DEF IsSeq

LEMMA TailAt ==
  ASSUME NEW s, IsSeq(s), s # << >>
  PROVE  /\ IsSeq(Tail(s)) /\ Len(s) \in Nat \ {0} /\ Len(Tail(s)) = Len(s) - 1
         /\ Head(s) = s[1]
         /\ \A p \in 1 .. Len(Tail(s)) : Tail(s)[p] = s[p + 1]
<1>1. PICK S : s \in Seq(S)
  BY DEF IsSeq
<1>2. Tail(s) \in Seq(S)
  BY <1>1, HeadTailProperties
<1> QED BY <1>1, <1>2, HeadTailProperties, EmptySeq, LenProperties DEF IsSeq

LEMMA AppendGrows ==
  ASSUME NEW s, IsSeq(s), NEW x
  PROVE  /\ IsSeq(Append(s, x)) /\ Len(s) \in Nat /\ Len(Append(s, x)) = Len(s) + 1
         /\ Grows(s, Append(s, x)) /\ Append(s, x)[Len(s) + 1] = x
         /\ \A p \in Behind(s, Append(s, x)) : p = Len(s) + 1 /\ Append(s, x)[p] = x
<1>1. PICK S : s \in Seq(S)
  BY DEF IsSeq
<1>2. s \in Seq(S \cup {x}) /\ x \in S \cup {x}
  BY <1>1, SeqMonotonic
<1>3. /\ Append(s, x) \in Seq(S \cup {x}) /\ Len(Append(s, x)) = Len(s) + 1 /\ Len(s) \in Nat
      /\ \A p \in 1 .. Len(s) : Append(s, x)[p] = s[p]
      /\ Append(s, x)[Len(s) + 1] = x
  BY <1>2, AppendProperties, LenProperties
<1> QED BY <1>3 DEF IsSeq, Grows, Behind

LEMMA ConcatGrows ==
  ASSUME NEW s, NEW t, IsSeq(s), IsSeq(t)
  PROVE  /\ IsSeq(s \o t) /\ Len(s) \in Nat /\ Len(t) \in Nat /\ Len(s \o t) = Len(s) + Len(t)
         /\ Grows(s, s \o t)
         /\ \A p \in Behind(s, s \o t) : p - Len(s) \in 1 .. Len(t) /\ (s \o t)[p] = t[p - Len(s)]
<1>1. PICK S, T : s \in Seq(S) /\ t \in Seq(T)
  BY DEF IsSeq
<1>2. s \in Seq(S \cup T) /\ t \in Seq(S \cup T)
  BY <1>1, SeqMonotonic
<1>3. /\ s \o t \in Seq(S \cup T)
      /\ Len(s) \in Nat /\ Len(t) \in Nat
      /\ Len(s \o t) = Len(s) + Len(t)
      /\ \A i \in 1 .. Len(s) + Len(t) : (s \o t)[i] = IF i <= Len(s) THEN s[i] ELSE t[i - Len(s)]
  BY <1>2, ConcatProperties, LenProperties
<1> QED BY <1>3 DEF IsSeq, Grows, Behind

LEMMA PairGrows ==
  ASSUME NEW s, IsSeq(s), NEW f, NEW g
  PROVE  /\ Len(s) \in Nat /\ Grows(s, s \o <<f, g>>) /\ Len(s \o <<f, g>>) = Len(s) + 2
         /\ (s \o <<f, g>>)[Len(s) + 1] = f /\ (s \o <<f, g>>)[Len(s) + 2] = g
<1>1. IsSeq(<<f, g>>) /\ Len(<<f, g>>) = 2 /\ <<f, g>>[1] = f /\ <<f, g>>[2] = g
  BY TwoHeld
<1> DEFINE t == <<f, g>>
<1> HIDE DEF t
<1>2. /\ Len(s) \in Nat /\ Len(s \o t) = Len(s) + Len(t) /\ Grows(s, s \o t)
      /\ \A p \in Behind(s, s \o t) : (s \o t)[p] = t[p - Len(s)]
  BY <1>1, ConcatGrows DEF t
<1>3. Len(t) = 2 /\ t[1] = f /\ t[2] = g
  BY <1>1 DEF t
<1>4. Len(s) + 1 \in Behind(s, s \o t) /\ Len(s) + 2 \in Behind(s, s \o t)
      /\ (Len(s) + 1) - Len(s) = 1 /\ (Len(s) + 2) - Len(s) = 2
  BY <1>2, <1>3 DEF Behind
<1>5. (s \o t)[Len(s) + 1] = t[1] /\ (s \o t)[Len(s) + 2] = t[2]
  BY <1>2, <1>4
<1> QED BY <1>2, <1>3, <1>5 DEF t

\* What a sequence holds, by position.
LEMMA HeldAt ==
  ASSUME NEW s
  PROVE  /\ \A p \in 1 .. Len(s) : s[p] \in Held(s)
         /\ \A f \in Held(s) : \E p \in 1 .. Len(s) : f = s[p]
BY DEF Held

-----------------------------------------------------------------------------
(* Numbers *)

LEMMA SeqsOf ==
  ASSUME NEW s
  PROVE  /\ \A p \in 1 .. Len(s) : Marked(s[p]) => s[p].seq \in Seqs(s)
         /\ \A x \in Seqs(s) : \E p \in 1 .. Len(s) : Marked(s[p]) /\ x = s[p].seq
BY DEF Seqs

\* The number of the frame that is taken is no longer on the way.
LEMMA SeqTaken ==
  ASSUME NEW s, IsSeq(s), s # << >>, Once(s)
  PROVE  /\ Once(Tail(s)) /\ Seqs(Tail(s)) \subseteq Seqs(s)
         /\ Marked(Head(s)) => Head(s).seq \in Seqs(s) /\ Head(s).seq \notin Seqs(Tail(s))
<1>1. /\ Len(s) \in Nat \ {0} /\ Len(Tail(s)) = Len(s) - 1 /\ Head(s) = s[1]
      /\ \A p \in 1 .. Len(Tail(s)) : Tail(s)[p] = s[p + 1]
  BY TailAt
<1>2. \A p \in 1 .. Len(Tail(s)) : p + 1 \in 1 .. Len(s) /\ Tail(s)[p] = s[p + 1] /\ p + 1 # 1
  BY <1>1
<1>3. Once(Tail(s))
  <2> SUFFICES ASSUME NEW p \in 1 .. Len(Tail(s)), NEW q \in 1 .. Len(Tail(s)),
                      Marked(Tail(s)[p]), Marked(Tail(s)[q]), Tail(s)[p].seq = Tail(s)[q].seq
               PROVE  p = q
    BY DEF Once
  <2>1. p + 1 = q + 1
    BY <1>2 DEF Once
  <2> QED BY <2>1
<1>4. Seqs(Tail(s)) \subseteq Seqs(s)
  <2> SUFFICES ASSUME NEW x \in Seqs(Tail(s)) PROVE x \in Seqs(s)
    OBVIOUS
  <2>1. PICK p \in 1 .. Len(Tail(s)) : Marked(Tail(s)[p]) /\ x = Tail(s)[p].seq
    BY SeqsOf
  <2> QED BY <1>2, <2>1, SeqsOf
<1>5. ASSUME Marked(Head(s)) PROVE Head(s).seq \in Seqs(s) /\ Head(s).seq \notin Seqs(Tail(s))
  <2>1. 1 \in 1 .. Len(s)
    BY <1>1
  <2>2. Head(s).seq \in Seqs(s)
    BY <1>1, <1>5, <2>1, SeqsOf
  <2>3. ASSUME Head(s).seq \in Seqs(Tail(s)) PROVE FALSE
    <3>1. PICK p \in 1 .. Len(Tail(s)) : Marked(Tail(s)[p]) /\ Head(s).seq = Tail(s)[p].seq
      BY <2>3, SeqsOf
    <3> QED BY <1>1, <1>2, <1>5, <2>1, <3>1 DEF Once
  <2> QED BY <2>2, <2>3
<1> QED BY <1>3, <1>4, <1>5

\* One frame more has a number, a new one.
LEMMA SeqAdded ==
  ASSUME NEW s, IsSeq(s), NEW t, Grows(s, t), Once(s), NEW x, x \notin Seqs(s),
         \A p \in Behind(s, t) : Marked(t[p]) => p = Len(s) + 1 /\ t[p].seq = x
  PROVE  Once(t) /\ Seqs(t) \subseteq Seqs(s) \cup {x}
<1>1. Len(s) \in Nat /\ Len(t) \in Nat /\ Len(s) <= Len(t) /\ \A p \in 1 .. Len(s) : t[p] = s[p]
  BY LenIsNat DEF Grows
<1>2. /\ \A p \in 1 .. Len(t) : Marked(t[p]) => p \in 1 .. Len(s) \/ (p = Len(s) + 1 /\ t[p].seq = x)
      /\ \A p \in 1 .. Len(s) : p \in 1 .. Len(t)
  BY <1>1 DEF Behind
<1>3. \A p \in 1 .. Len(s) : Marked(t[p]) => t[p].seq \in Seqs(s) /\ t[p].seq # x
  BY <1>1, SeqsOf
<1>4. Once(t)
  <2> SUFFICES ASSUME NEW p \in 1 .. Len(t), NEW q \in 1 .. Len(t),
                      Marked(t[p]), Marked(t[q]), t[p].seq = t[q].seq
               PROVE  p = q
    BY DEF Once
  <2>1. CASE p \in 1 .. Len(s) /\ q \in 1 .. Len(s)
    BY <1>1, <2>1 DEF Once
  <2>2. CASE ~(p \in 1 .. Len(s) /\ q \in 1 .. Len(s))
    BY <1>2, <1>3, <2>2
  <2> QED BY <2>1, <2>2
<1>5. ASSUME NEW y \in Seqs(t) PROVE y \in Seqs(s) \cup {x}
  <2>1. PICK p \in 1 .. Len(t) : Marked(t[p]) /\ y = t[p].seq
    BY SeqsOf
  <2> QED BY <1>2, <1>3, <2>1
<1> QED BY <1>4, <1>5

LEMMA NoSeqAdded ==
  ASSUME NEW s, IsSeq(s), NEW t, Grows(s, t), Once(s), \A p \in Behind(s, t) : ~Marked(t[p])
  PROVE  Once(t) /\ Seqs(t) = Seqs(s)
<1>1. Len(s) \in Nat /\ Len(t) \in Nat /\ Len(s) <= Len(t) /\ \A p \in 1 .. Len(s) : t[p] = s[p]
  BY LenIsNat DEF Grows
<1>2. /\ \A p \in 1 .. Len(t) : Marked(t[p]) => p \in 1 .. Len(s)
      /\ \A p \in 1 .. Len(s) : p \in 1 .. Len(t)
  BY <1>1 DEF Behind
<1>3. Once(t)
  BY <1>1, <1>2 DEF Once
<1>4. ASSUME NEW y PROVE y \in Seqs(t) <=> y \in Seqs(s)
  <2>1. ASSUME y \in Seqs(t) PROVE y \in Seqs(s)
    <3>1. PICK p \in 1 .. Len(t) : Marked(t[p]) /\ y = t[p].seq
      BY <2>1, SeqsOf
    <3> QED BY <1>1, <1>2, <3>1, SeqsOf
  <2>2. ASSUME y \in Seqs(s) PROVE y \in Seqs(t)
    <3>1. PICK p \in 1 .. Len(s) : Marked(s[p]) /\ y = s[p].seq
      BY <2>2, SeqsOf
    <3> QED BY <1>1, <1>2, <3>1, SeqsOf
  <2> QED BY <2>1, <2>2
<1> QED BY <1>3, <1>4

-----------------------------------------------------------------------------
(* Chunks of a stream *)

IsChunk(f, i) == f.m = "data" /\ f.id = i

LEMMA CarriesAt ==
  ASSUME NEW s, NEW i
  PROVE  \A p : p \in Carries(s, i) <=> p \in 1 .. Len(s) /\ IsChunk(s[p], i)
BY DEF Carries, IsChunk

\* What is put behind is not of the stream.
LEMMA GrowsOnTheWay ==
  ASSUME NEW s, IsSeq(s), NEW t, Grows(s, t), NEW i, \A p \in Behind(s, t) : ~IsChunk(t[p], i)
  PROVE  /\ Carries(t, i) = Carries(s, i)
         /\ \A p \in Carries(s, i) : t[p] = s[p]
         /\ \A who, n, m : OnTheWay(s, i, who, n, m) => OnTheWay(t, i, who, n, m)
<1>1. Len(s) \in Nat /\ Len(t) \in Nat /\ Len(s) <= Len(t) /\ \A p \in 1 .. Len(s) : t[p] = s[p]
  BY LenIsNat DEF Grows
<1>2. ASSUME NEW p PROVE p \in Carries(t, i) <=> p \in Carries(s, i)
  <2>1. p \in 1 .. Len(t) => p \in 1 .. Len(s) \/ p \in Behind(s, t)
    BY <1>1 DEF Behind
  <2>2. p \in 1 .. Len(s) => p \in 1 .. Len(t)
    BY <1>1
  <2> QED BY <1>1, <2>1, <2>2, CarriesAt
<1>3. Carries(t, i) = Carries(s, i)
  BY <1>2
<1>4. \A p \in Carries(s, i) : t[p] = s[p]
  BY <1>1, CarriesAt
<1>5. \A who, n, m : OnTheWay(s, i, who, n, m) => OnTheWay(t, i, who, n, m)
  BY <1>3, <1>4 DEF OnTheWay
<1> QED BY <1>3, <1>4, <1>5

\* The next chunk of the stream is put behind.
LEMMA ChunkOnTheWay ==
  ASSUME NEW s, IsSeq(s), NEW i, NEW who, NEW n \in Nat, NEW m \in Nat, OnTheWay(s, i, who, n, m),
         NEW f, IsChunk(f, i), f.chunk = <<who, m + 1>>
  PROVE  OnTheWay(Append(s, f), i, who, n, m + 1)
<1> DEFINE t == Append(s, f)
<1>1. /\ Len(s) \in Nat /\ Len(t) = Len(s) + 1 /\ t[Len(s) + 1] = f
      /\ \A p \in 1 .. Len(s) : t[p] = s[p]
  BY AppendGrows DEF Grows
<1> HIDE DEF t
<1>2. /\ \A p \in Carries(t, i) : p \in Carries(s, i) \/ p = Len(s) + 1
      /\ \A p \in Carries(s, i) : p \in Carries(t, i) /\ t[p] = s[p] /\ p < Len(s) + 1 /\ p \in Nat
      /\ Len(s) + 1 \in Carries(t, i)
  BY <1>1, CarriesAt
<1>3. n <= m + 1
  BY DEF OnTheWay
<1>4. ASSUME NEW p \in Carries(t, i) PROVE \E c \in n + 1 .. m + 1 : t[p].chunk = <<who, c>>
  <2>1. CASE p \in Carries(s, i)
    <3>1. PICK c \in n + 1 .. m : s[p].chunk = <<who, c>>
      BY <2>1 DEF OnTheWay
    <3> QED BY <1>2, <2>1, <3>1
  <2>2. CASE p = Len(s) + 1
    <3>1. m + 1 \in n + 1 .. m + 1
      BY DEF OnTheWay
    <3> QED BY <1>1, <2>2, <3>1
  <2> QED BY <1>2, <2>1, <2>2
<1>5. ASSUME NEW c \in n + 1 .. m + 1 PROVE \E p \in Carries(t, i) : t[p].chunk = <<who, c>>
  <2>1. CASE c = m + 1
    BY <1>1, <1>2, <2>1
  <2>2. CASE c # m + 1
    <3>1. c \in n + 1 .. m
      BY <2>2
    <3>2. PICK p \in Carries(s, i) : s[p].chunk = <<who, c>>
      BY <3>1 DEF OnTheWay
    <3> QED BY <1>2, <3>2
  <2> QED BY <2>1, <2>2
<1>6. ASSUME NEW p \in Carries(t, i), NEW q \in Carries(t, i), p < q
      PROVE  t[p].chunk[2] < t[q].chunk[2]
  <2>1. CASE q \in Carries(s, i)
    <3>1. p \in Carries(s, i)
      BY <1>1, <1>2, <1>6, <2>1
    <3> QED BY <1>2, <1>6, <2>1, <3>1 DEF OnTheWay
  <2>2. CASE q = Len(s) + 1
    <3>0. p # Len(s) + 1
      BY <1>1, <1>6, <2>2
    <3>1. p \in Carries(s, i)
      BY <1>2, <3>0
    <3>2. PICK c \in n + 1 .. m : s[p].chunk = <<who, c>>
      BY <3>1 DEF OnTheWay
    <3>3. t[p].chunk = <<who, c>> /\ t[q].chunk = <<who, m + 1>>
      BY <1>1, <1>2, <2>2, <3>1, <3>2
    <3>4. t[p].chunk[2] = c /\ t[q].chunk[2] = m + 1
      BY <3>3
    <3> QED BY <3>4
  <2> QED BY <1>2, <2>1, <2>2
<1> QED BY <1>3, <1>4, <1>5, <1>6 DEF OnTheWay, t

LEMMA TailCarries ==
  ASSUME NEW s, IsSeq(s), s # << >>, NEW i
  PROVE  /\ \A p \in Carries(Tail(s), i) : p + 1 \in Carries(s, i) /\ Tail(s)[p] = s[p + 1] /\ p \in Nat /\ p >= 1
         /\ \A p \in Carries(s, i) : p # 1 => p - 1 \in Carries(Tail(s), i) /\ Tail(s)[p - 1] = s[p]
         /\ \A p \in Carries(s, i) : p \in Nat /\ p >= 1
         /\ 1 \in Carries(s, i) <=> IsChunk(Head(s), i)
<1>1. /\ Len(s) \in Nat \ {0} /\ Len(Tail(s)) = Len(s) - 1 /\ Head(s) = s[1]
      /\ \A p \in 1 .. Len(Tail(s)) : Tail(s)[p] = s[p + 1]
  BY TailAt
<1>2. ASSUME NEW p \in Carries(Tail(s), i)
      PROVE  p + 1 \in Carries(s, i) /\ Tail(s)[p] = s[p + 1] /\ p \in Nat /\ p >= 1
  <2>1. p \in 1 .. Len(Tail(s)) /\ IsChunk(Tail(s)[p], i)
    BY CarriesAt
  <2>2. p + 1 \in 1 .. Len(s) /\ Tail(s)[p] = s[p + 1] /\ p \in Nat /\ p >= 1
    BY <1>1, <2>1
  <2> QED BY <2>1, <2>2, CarriesAt
<1>3. ASSUME NEW p \in Carries(s, i), p # 1
      PROVE  p - 1 \in Carries(Tail(s), i) /\ Tail(s)[p - 1] = s[p]
  <2>1. p \in 1 .. Len(s) /\ IsChunk(s[p], i)
    BY CarriesAt
  <2>2. p - 1 \in 1 .. Len(Tail(s)) /\ (p - 1) + 1 = p
    BY <1>1, <1>3, <2>1
  <2>3. Tail(s)[p - 1] = s[p]
    BY <1>1, <2>2
  <2> QED BY <2>1, <2>2, <2>3, CarriesAt
<1>4. \A p \in Carries(s, i) : p \in Nat /\ p >= 1
  BY CarriesAt
<1>5. 1 \in Carries(s, i) <=> IsChunk(Head(s), i)
  <2>1. 1 \in 1 .. Len(s)
    BY <1>1
  <2> QED BY <1>1, <2>1, CarriesAt
<1> QED BY <1>2, <1>3, <1>4, <1>5

\* The first frame is taken, which is not of the stream.
LEMMA TailOnTheWay ==
  ASSUME NEW s, IsSeq(s), s # << >>, NEW i, ~IsChunk(Head(s), i),
         NEW who, NEW n \in Nat, NEW m \in Nat, OnTheWay(s, i, who, n, m)
  PROVE  OnTheWay(Tail(s), i, who, n, m)
<1> DEFINE t == Tail(s)
<1>1. /\ \A p \in Carries(t, i) : p + 1 \in Carries(s, i) /\ t[p] = s[p + 1] /\ p \in Nat
      /\ \A p \in Carries(s, i) : p - 1 \in Carries(t, i) /\ t[p - 1] = s[p]
  BY TailCarries
<1> HIDE DEF t
<1>2. n <= m
  BY DEF OnTheWay
<1>3. ASSUME NEW p \in Carries(t, i) PROVE \E c \in n + 1 .. m : t[p].chunk = <<who, c>>
  <2>1. PICK q : q = p + 1
    OBVIOUS
  <2>2. q \in Carries(s, i) /\ t[p] = s[q]
    BY <1>1, <2>1
  <2>3. \E c \in n + 1 .. m : s[q].chunk = <<who, c>>
    BY <2>2 DEF OnTheWay
  <2> QED BY <2>2, <2>3
<1>4. ASSUME NEW c \in n + 1 .. m PROVE \E p \in Carries(t, i) : t[p].chunk = <<who, c>>
  <2>1. PICK p \in Carries(s, i) : s[p].chunk = <<who, c>>
    BY DEF OnTheWay
  <2> QED BY <1>1, <2>1
<1>5. ASSUME NEW p \in Carries(t, i), NEW q \in Carries(t, i), p < q
      PROVE  t[p].chunk[2] < t[q].chunk[2]
  <2>1. p + 1 < q + 1
    BY <1>1, <1>5
  <2> QED BY <1>1, <2>1 DEF OnTheWay
<1> QED BY <1>2, <1>3, <1>4, <1>5 DEF OnTheWay, t

\* The next chunk is taken.
LEMMA ChunkTaken ==
  ASSUME NEW s, IsSeq(s), s # << >>, NEW i, IsChunk(Head(s), i),
         NEW who, NEW n \in Nat, NEW m \in Nat, OnTheWay(s, i, who, n, m)
  PROVE  Head(s).chunk = <<who, n + 1>> /\ OnTheWay(Tail(s), i, who, n + 1, m)
<1> DEFINE t == Tail(s)
<1>1. /\ \A p \in Carries(t, i) : p + 1 \in Carries(s, i) /\ t[p] = s[p + 1] /\ p \in Nat /\ p >= 1
      /\ \A p \in Carries(s, i) : p # 1 => p - 1 \in Carries(t, i) /\ t[p - 1] = s[p]
      /\ 1 \in Carries(s, i)
      /\ \A p \in Carries(s, i) : p \in Nat /\ p >= 1
  BY TailCarries
<1>2. Head(s) = s[1]
  BY TailAt
<1> HIDE DEF t
<1>3. PICK c \in n + 1 .. m : s[1].chunk = <<who, c>>
  BY <1>1 DEF OnTheWay
<1>4. n + 1 \in n + 1 .. m /\ n + 1 <= m
  BY <1>3
<1>5. PICK p \in Carries(s, i) : s[p].chunk = <<who, n + 1>>
  BY <1>4 DEF OnTheWay
<1>6. p = 1
  <2> SUFFICES ASSUME p # 1 PROVE FALSE
    OBVIOUS
  <2>1. 1 < p
    BY <1>1
  <2>2. s[1].chunk[2] < s[p].chunk[2]
    BY <1>1, <2>1 DEF OnTheWay
  <2>3. s[1].chunk[2] = c /\ s[p].chunk[2] = n + 1
    BY <1>3, <1>5
  <2> QED BY <2>2, <2>3
<1>7. Head(s).chunk = <<who, n + 1>>
  BY <1>2, <1>5, <1>6
<1>8. ASSUME NEW q \in Carries(t, i) PROVE \E d \in n + 2 .. m : t[q].chunk = <<who, d>>
  <2>1. q + 1 \in Carries(s, i) /\ t[q] = s[q + 1] /\ 1 < q + 1
    BY <1>1
  <2>2. PICK d \in n + 1 .. m : s[q + 1].chunk = <<who, d>>
    BY <2>1 DEF OnTheWay
  <2>3. s[1].chunk[2] < s[q + 1].chunk[2]
    BY <1>1, <2>1 DEF OnTheWay
  <2>4. s[1].chunk[2] = n + 1 /\ s[q + 1].chunk[2] = d
    BY <1>5, <1>6, <2>2
  <2>5. d \in n + 2 .. m
    BY <2>3, <2>4
  <2> QED BY <2>1, <2>2, <2>5
<1>9. ASSUME NEW d \in n + 2 .. m PROVE \E q \in Carries(t, i) : t[q].chunk = <<who, d>>
  <2>1. d \in n + 1 .. m /\ d # n + 1
    OBVIOUS
  <2>2. PICK q \in Carries(s, i) : s[q].chunk = <<who, d>>
    BY <2>1 DEF OnTheWay
  <2>3. q # 1
    <3>1. s[q].chunk[2] = d /\ s[1].chunk[2] = n + 1
      BY <1>5, <1>6, <2>2
    <3> QED BY <2>1, <3>1
  <2> QED BY <1>1, <2>2, <2>3
<1>10. ASSUME NEW q \in Carries(t, i), NEW r \in Carries(t, i), q < r
       PROVE  t[q].chunk[2] < t[r].chunk[2]
  <2>1. q + 1 < r + 1
    BY <1>1, <1>10
  <2> QED BY <1>1, <2>1 DEF OnTheWay
<1>11. (n + 1) + 1 = n + 2
  OBVIOUS
<1> QED BY <1>4, <1>7, <1>8, <1>9, <1>10, <1>11 DEF OnTheWay, t

LEMMA NothingOnTheWay ==
  ASSUME NEW s, NEW i, \A p \in 1 .. Len(s) : ~IsChunk(s[p], i), NEW n \in Nat
  PROVE  \A who : OnTheWay(s, i, who, n, n)
<1>1. Carries(s, i) = {}
  BY CarriesAt
<1>2. n + 1 .. n = {}
  OBVIOUS
<1> QED BY <1>1, <1>2 DEF OnTheWay

\* What had been buffered goes out on a stream that was silent.
LEMMA RunOnTheWay ==
  ASSUME NEW s, IsSeq(s), NEW i, \A p \in 1 .. Len(s) : ~IsChunk(s[p], i),
         NEW who, NEW m \in Nat, NEW t, Grows(s, t), Len(t) = Len(s) + m,
         \A c \in 1 .. m : IsChunk(t[Len(s) + c], i) /\ t[Len(s) + c].chunk = <<who, c>>
  PROVE  OnTheWay(t, i, who, 0, m)
<1>1. Len(s) \in Nat /\ \A p \in 1 .. Len(s) : t[p] = s[p]
  BY LenIsNat DEF Grows
<1>2. ASSUME NEW p \in Carries(t, i)
      PROVE  p \in Nat /\ p - Len(s) \in 1 .. m /\ t[p].chunk = <<who, p - Len(s)>>
  <2>1. p \in 1 .. Len(t) /\ IsChunk(t[p], i)
    BY CarriesAt
  <2>2. p \notin 1 .. Len(s)
    BY <1>1, <2>1
  <2>3. p \in Nat /\ p - Len(s) \in 1 .. m /\ Len(s) + (p - Len(s)) = p
    BY <1>1, <2>1, <2>2
  <2>4. IsChunk(t[Len(s) + (p - Len(s))], i) /\ t[Len(s) + (p - Len(s))].chunk = <<who, p - Len(s)>>
    BY <2>3
  <2> QED BY <2>3, <2>4
<1>3. ASSUME NEW c \in 1 .. m PROVE Len(s) + c \in Carries(t, i) /\ t[Len(s) + c].chunk = <<who, c>>
  <2>1. Len(s) + c \in 1 .. Len(t)
    BY <1>1
  <2> QED BY <2>1, CarriesAt
<1>4. 0 + 1 = 1 /\ 0 <= m
  OBVIOUS
<1>5. ASSUME NEW p \in Carries(t, i), NEW q \in Carries(t, i), p < q
      PROVE  t[p].chunk[2] < t[q].chunk[2]
  <2>1. t[p].chunk[2] = p - Len(s) /\ t[q].chunk[2] = q - Len(s)
    BY <1>2
  <2>2. p \in Nat /\ q \in Nat
    BY <1>2
  <2> QED BY <1>1, <1>5, <2>1, <2>2
<1> QED BY <1>2, <1>3, <1>4, <1>5 DEF OnTheWay

-----------------------------------------------------------------------------
(* Where the numbers are *)

FlowTypes ==
  /\ nextId \in Nat /\ FirstId <= nextId
  /\ DOMAIN streams = Ids /\ \A i \in Ids : streams[i] \in {Absent, Unconnected} \cup Conns
  /\ \A k \in Conns : conn[k].fwd \in Nat /\ IsSeq(conn[k].got)
  /\ DOMAIN byId = Ids \cup {NoId} /\ DOMAIN sid = Locals /\ DOMAIN lsock = Locals
  /\ DOMAIN got = Locals /\ DOMAIN fromBuf = Locals
  /\ \A l \in Locals : IsSeq(got[l]) /\ IsSeq(fromBuf[l])
  /\ asked \in [Locals -> Nat]
  /\ sockets \subseteq Locals

FrameTypes ==
  /\ \A f \in Held(toServer) : Numbered(f) => Marked(f) /\ f.m # "response"
  /\ \A f \in Held(toClient) : Marked(f) => f.m = "response"
  /\ \A f \in Held(toServer) : f.m \in {"startStream", "duplicateStream"} => f.id = FirstId

\* A number is in one place: that of a frame that asks, of a connection that owes, or of an
\* answer.
PlaceInv ==
  /\ Once(toServer) /\ Once(toClient)
  /\ \A s \in Seqs(toServer) : s \notin Seqs(toClient)
  /\ \A k \in Conns : conn[k].at \in Owing => conn[k].seq \notin Seqs(toServer) /\ conn[k].seq \notin Seqs(toClient)
  /\ \A j, k \in Conns : conn[j].at \in Owing /\ conn[k].at \in Owing /\ conn[j].seq = conn[k].seq => j = k

Taken == toServer # << >> /\ toServer' = Tail(toServer)

\* Who owed an answer before, for the same request, is all who does.
OwingStays == \A k \in Conns : conn'[k].at \in Owing => conn[k].at \in Owing /\ conn'[k].seq = conn[k].seq

LEMMA PipesAreSeqs == IInv => IsSeq(toServer) /\ IsSeq(toClient)
BY DEF IInv, ChannelTypes

LEMMA PlacesStay ==
  ASSUME IInv, PlaceInv, toServer' = toServer \/ Taken,
         Grows(toClient, toClient'), \A p \in Behind(toClient, toClient') : ~Marked(toClient'[p]),
         OwingStays
  PROVE  PlaceInv'
<1>1. Once(toServer') /\ Seqs(toServer') \subseteq Seqs(toServer)
  BY PipesAreSeqs, SeqTaken DEF PlaceInv, Taken
<1>2. Once(toClient') /\ Seqs(toClient') = Seqs(toClient)
  BY PipesAreSeqs, NoSeqAdded DEF PlaceInv
<1> QED BY <1>1, <1>2 DEF PlaceInv, OwingStays

\* The request at the head is answered.
LEMMA PlacesAnswer ==
  ASSUME IInv, PlaceInv, Taken, Marked(Head(toServer)),
         Grows(toClient, toClient'),
         \A p \in Behind(toClient, toClient') :
           Marked(toClient'[p]) => p = Len(toClient) + 1 /\ toClient'[p].seq = Head(toServer).seq,
         OwingStays
  PROVE  PlaceInv'
<1> DEFINE x == Head(toServer).seq
<1>1. /\ Once(toServer') /\ Seqs(toServer') \subseteq Seqs(toServer)
      /\ x \in Seqs(toServer) /\ x \notin Seqs(toServer')
  BY PipesAreSeqs, SeqTaken DEF PlaceInv, Taken
<1>2. x \notin Seqs(toClient) /\ \A k \in Conns : conn[k].at \in Owing => conn[k].seq # x
  BY <1>1 DEF PlaceInv
<1>3. Once(toClient') /\ Seqs(toClient') \subseteq Seqs(toClient) \cup {x}
  <2> HIDE DEF x
  <2>1. \A p \in Behind(toClient, toClient') :
           Marked(toClient'[p]) => p = Len(toClient) + 1 /\ toClient'[p].seq = x
    BY DEF x
  <2> QED BY <1>2, <2>1, PipesAreSeqs, SeqAdded DEF PlaceInv
<1> HIDE DEF x
<1> QED BY <1>1, <1>2, <1>3 DEF PlaceInv, OwingStays

\* The request at the head is left to a new connection.
LEMMA PlacesSpawn ==
  ASSUME IInv, PlaceInv, Taken, Marked(Head(toServer)), toClient' = toClient,
         NEW k \in Conns, conn[k].at = "none", conn'[k].seq = Head(toServer).seq,
         \A j \in Conns : j # k => conn'[j] = conn[j]
  PROVE  PlaceInv'
<1> DEFINE x == Head(toServer).seq
<1>1. /\ Once(toServer') /\ Seqs(toServer') \subseteq Seqs(toServer)
      /\ x \in Seqs(toServer) /\ x \notin Seqs(toServer')
  BY PipesAreSeqs, SeqTaken DEF PlaceInv, Taken
<1>2. x \notin Seqs(toClient) /\ \A j \in Conns : conn[j].at \in Owing => conn[j].seq # x
  BY <1>1 DEF PlaceInv
<1>3. conn'[k].seq = x
  OBVIOUS
<1> HIDE DEF x
<1> QED BY <1>1, <1>2, <1>3 DEF PlaceInv

\* A connection answers what it owes.
LEMMA PlacesPay ==
  ASSUME IInv, PlaceInv, toServer' = toServer, NEW f, toClient' = Append(toClient, f),
         NEW k \in Conns, conn[k].at \in Owing, f.seq = conn[k].seq,
         conn'[k].at \notin Owing, \A j \in Conns : j # k => conn'[j] = conn[j]
  PROVE  PlaceInv'
<1> DEFINE x == conn[k].seq
<1>1. /\ x \notin Seqs(toServer) /\ x \notin Seqs(toClient)
      /\ \A j \in Conns : j # k /\ conn[j].at \in Owing => conn[j].seq # x
  BY DEF PlaceInv
<1>2. f.seq = x
  OBVIOUS
<1> HIDE DEF x
<1>3. Grows(toClient, toClient') /\ \A p \in Behind(toClient, toClient') : p = Len(toClient) + 1 /\ toClient'[p] = f
  BY PipesAreSeqs, AppendGrows
<1>4. Once(toClient') /\ Seqs(toClient') \subseteq Seqs(toClient) \cup {x}
  BY <1>1, <1>2, <1>3, PipesAreSeqs, SeqAdded DEF PlaceInv
<1> QED BY <1>1, <1>4 DEF PlaceInv

\* The client takes a frame, and sends none with a number but the next.
LEMMA NumbersBelow ==
  ASSUME IInv, FrameTypes
  PROVE  /\ nextSeq \in Nat
         /\ \A x \in Seqs(toServer) : x \in Nat /\ x < nextSeq
         /\ \A x \in Seqs(toClient) : x \in Nat /\ x < nextSeq
         /\ \A k \in Conns : conn[k].seq \in Nat /\ conn[k].seq < nextSeq
<1>1. ASSUME NEW x \in Seqs(toServer) PROVE x \in Nat /\ x < nextSeq
  <2>1. PICK p \in 1 .. Len(toServer) : Marked(toServer[p]) /\ x = toServer[p].seq
    BY SeqsOf
  <2>2. toServer[p] \in Held(toServer) /\ Numbered(toServer[p])
    BY <2>1, HeldAt DEF Marked, Marks, Numbered
  <2> QED BY <2>1, <2>2 DEF IInv, NumberInv
<1>2. ASSUME NEW x \in Seqs(toClient) PROVE x \in Nat /\ x < nextSeq
  <2>1. PICK p \in 1 .. Len(toClient) : Marked(toClient[p]) /\ x = toClient[p].seq
    BY SeqsOf
  <2>2. toClient[p] \in Held(toClient) /\ toClient[p].m = "response"
    BY <2>1, HeldAt DEF FrameTypes
  <2> QED BY <2>1, <2>2 DEF IInv, NumberInv
<1> QED BY <1>1, <1>2 DEF IInv, NumberInv

LEMMA ClientPlaces ==
  ASSUME IInv, FrameTypes, PlaceInv, UNCHANGED conn,
         toClient' = toClient \/ (toClient # << >> /\ toClient' = Tail(toClient)),
         \/ Grows(toServer, toServer') /\ \A p \in Behind(toServer, toServer') :
              Marked(toServer'[p]) => p = Len(toServer) + 1 /\ toServer'[p].seq = nextSeq
         \/ toServer' = <<Eof>>
  PROVE  PlaceInv'
<1>1. Once(toClient') /\ Seqs(toClient') \subseteq Seqs(toClient)
  BY PipesAreSeqs, SeqTaken DEF PlaceInv
<1>2. nextSeq \notin Seqs(toServer) /\ nextSeq \notin Seqs(toClient) /\ \A k \in Conns : conn[k].seq # nextSeq
  BY NumbersBelow
<1>3. Once(toServer') /\ Seqs(toServer') \subseteq Seqs(toServer) \cup {nextSeq}
  <2>1. CASE toServer' = <<Eof>>
    <3>1. Len(toServer') = 1 /\ toServer'[1] = Eof /\ Eof.m = "eof"
      BY <2>1 DEF Eof
    <3>2. \A p \in 1 .. Len(toServer') : ~Marked(toServer'[p])
      BY <3>1 DEF Marked, Marks
    <3> QED BY <3>2, SeqsOf DEF Once
  <2>2. CASE ~(toServer' = <<Eof>>)
    BY <1>2, <2>2, PipesAreSeqs, SeqAdded DEF PlaceInv
  <2> QED BY <2>1, <2>2
<1> QED BY <1>1, <1>2, <1>3 DEF PlaceInv

-----------------------------------------------------------------------------
(* The launch *)

OnPipe(m) == \E f \in Held(toServer) : f.m = m
Heralded  == \E f \in Held(toClient) : f.m = "streamReady"

\* The n-th request of the launch is still to be sent.
Unsent(n) == step < n \/ (step = n /\ outcome = "pending" /\ ~Waiting("setup"))

Single(s) == \A p, q \in 1 .. Len(s) : s[p].m = "streamReady" /\ s[q].m = "streamReady" => p = q

\* The first id is taken once and the gdb-server is started once; its port is seen once, and
\* there is no connection before.
LaunchInv ==
  /\ step \in Nat \ {0}
  /\ \A f, g \in Held(toServer) :
       f.m = g.m /\ f.m \in {"allocatePorts", "startGdbServer"} => f.seq = g.seq
  /\ OnPipe("allocatePorts") => step = 2 /\ nextId = FirstId
  /\ Unsent(2) => ~OnPipe("allocatePorts") /\ nextId = FirstId
  /\ step >= 3 => nextId > FirstId
  /\ OnPipe("startGdbServer") \/ Unsent(4) => monitor = "none"
  /\ OnPipe("startGdbServer") \/ Unsent(4) \/ monitor \in {"watching", "found"} => ~Heralded /\ server = "none"
  /\ OnPipe("startGdbServer") \/ monitor # "none" => step >= 4
  /\ Unsent(4) => ~OnPipe("startGdbServer")
  /\ Heralded => server = "none"
  /\ Single(toClient)
  /\ monitor \in {"none", "watching", "found"} =>
       (\A i \in Ids : streams[i] = Absent) /\ \A k \in Conns : conn[k].at = "none"

\* Who answers a request of the launch.
SetupInv ==
  /\ \A r, q \in pending : r.of = "setup" /\ q.of = "setup" => r = q
  /\ \A r \in pending : r.of = "setup" =>
       /\ step <= 4
       /\ \A f \in Held(toServer) : Numbered(f) /\ f.seq = r.seq => f.m = Steps[step]
       /\ \A f \in Held(toServer) : f.m = "allocatePorts" => f.seq = r.seq
       /\ \A k \in Conns : conn[k].at \in Owing => conn[k].seq # r.seq
       /\ step = 2 => \A f \in Held(toClient) : f.m = "response" /\ f.seq = r.seq /\ f.ok => nextId > FirstId

\* Ids are given out in order, and so are connections.
IdsInv ==
  /\ \A j, k \in Conns : j < k /\ conn[j].at = "none" => conn[k].at = "none"
  /\ \A k \in Conns \ {1} : conn[k].at = "none" => nextId <= FirstId + k - 1
  /\ \A i \in Ids : streams[i] \in Conns => conn[streams[i]].id = i /\ conn[streams[i]].at \in {"forwarding", "mute"}
  /\ \A k \in Conns : conn[k].at \in Owing \cup {"none"} => conn[k].fwd = 0

Basics == FlowTypes /\ FrameTypes /\ PlaceInv /\ LaunchInv /\ SetupInv /\ IdsInv

SetupSeqs == {r.seq : r \in {q \in pending : q.of = "setup"}}

\* What the session may say without disturbing the launch.
Harmless(f) ==
  /\ Marked(f) => f.m = "response"
  /\ f.m = "response" /\ f.ok => nextId' > FirstId \/ step # 2 \/ f.seq \notin SetupSeqs
  /\ f.m = "streamReady" => monitor = "found" /\ monitor' = "done"

LEMMA GrowsHeld ==
  ASSUME NEW s, IsSeq(s), NEW t, Grows(s, t)
  PROVE  /\ Held(s) \subseteq Held(t)
         /\ \A f \in Held(t) : f \in Held(s) \/ \E p \in Behind(s, t) : f = t[p]
<1>1. Len(s) \in Nat /\ Len(t) \in Nat /\ Len(s) <= Len(t) /\ \A p \in 1 .. Len(s) : t[p] = s[p]
  BY LenIsNat DEF Grows
<1>2. \A p \in 1 .. Len(s) : p \in 1 .. Len(t) /\ t[p] = s[p]
  BY <1>1
<1>3. \A p \in 1 .. Len(t) : p \in 1 .. Len(s) \/ p \in Behind(s, t)
  BY <1>1 DEF Behind
<1>4. ASSUME NEW f \in Held(s) PROVE f \in Held(t)
  BY <1>2, HeldAt
<1>5. ASSUME NEW f \in Held(t) PROVE f \in Held(s) \/ \E p \in Behind(s, t) : f = t[p]
  <2>1. PICK p \in 1 .. Len(t) : f = t[p]
    BY HeldAt
  <2> QED BY <1>2, <1>3, <2>1, HeldAt
<1> QED BY <1>4, <1>5

LEMMA SessionLaunch ==
  ASSUME IInv, Basics, UNCHANGED clientVars,
         toServer' = toServer \/ Taken,
         Grows(toClient, toClient'),
         \A p \in Behind(toClient, toClient') :
           Harmless(toClient'[p]) /\ (toClient'[p].m = "streamReady" => p = Len(toClient) + 1),
         \A k \in Conns : conn'[k].at \in Owing =>
           (conn[k].at \in Owing /\ conn'[k].seq = conn[k].seq) \/ conn'[k].seq \notin SetupSeqs,
         nextId <= nextId', nextId' \in Nat,
         nextId' = nextId \/ (~OnPipe("allocatePorts")' /\ ~Unsent(2)),
         \/ monitor' = monitor
         \/ monitor = "watching" /\ monitor' \in {"found", "done"}
         \/ monitor = "found" /\ monitor' = "done"
         \/ /\ monitor = "none" /\ monitor' = "watching"
            /\ OnPipe("startGdbServer") /\ ~OnPipe("startGdbServer")',
         monitor' \in {"none", "watching", "found"} =>
           UNCHANGED streams /\ \A k \in Conns : conn[k].at = "none" => conn'[k].at = "none"
  PROVE  FrameTypes' /\ LaunchInv' /\ SetupInv'
<1>1. UNCHANGED <<pending, step, outcome, server, Waiting("setup")>>
  BY DEF clientVars, startVars, linkVars, localVars, Waiting
<1>2. Held(toServer') \subseteq Held(toServer)
  BY PipesAreSeqs, TailHeld DEF Taken
<1>3. \A f \in Held(toClient') : f \in Held(toClient) \/ Harmless(f)
  BY PipesAreSeqs, GrowsHeld
<1>4. FrameTypes'
  BY <1>2, <1>3 DEF Basics, FrameTypes, Harmless
<1>5. /\ Unsent(2)' <=> Unsent(2)
      /\ Unsent(4)' <=> Unsent(4)
      /\ \A m : OnPipe(m)' => OnPipe(m)
  BY <1>1, <1>2 DEF Unsent, OnPipe
<1>6. Heralded' => Heralded \/ (monitor = "found" /\ monitor' = "done")
  BY <1>3 DEF Heralded, Harmless
<1>7. Single(toClient')
  <2>1. Len(toClient) \in Nat /\ Len(toClient') \in Nat /\ \A p \in 1 .. Len(toClient) : toClient'[p] = toClient[p]
    BY PipesAreSeqs, LenIsNat DEF Grows
  <2>2. \A p \in 1 .. Len(toClient') : p \in 1 .. Len(toClient) \/ p \in Behind(toClient, toClient')
    BY <2>1 DEF Behind
  <2>3. CASE Heralded
    <3>1. monitor # "found"
      BY <2>3 DEF Basics, LaunchInv
    <3>2. \A p \in Behind(toClient, toClient') : toClient'[p].m # "streamReady"
      BY <3>1 DEF Harmless
    <3> QED BY <2>1, <2>2, <3>2 DEF Basics, LaunchInv, Single
  <2>4. CASE ~Heralded
    <3>1. \A p \in 1 .. Len(toClient) : toClient[p].m # "streamReady"
      BY <2>4, HeldAt DEF Heralded
    <3> QED BY <2>1, <2>2, <3>1 DEF Single
  <2> QED BY <2>3, <2>4
<1>8. LaunchInv'
  <2>1. /\ step' \in Nat \ {0}
        /\ \A f, g \in Held(toServer') :
             f.m = g.m /\ f.m \in {"allocatePorts", "startGdbServer"} => f.seq = g.seq
    BY <1>1, <1>2 DEF Basics, LaunchInv
  <2>2. OnPipe("allocatePorts")' => step' = 2 /\ nextId' = FirstId
    BY <1>1, <1>5 DEF Basics, LaunchInv
  <2>3. Unsent(2)' => ~OnPipe("allocatePorts")' /\ nextId' = FirstId
    BY <1>1, <1>5 DEF Basics, LaunchInv
  <2>4. step' >= 3 => nextId' > FirstId
    <3>1. nextId \in Nat /\ FirstId \in Nat
      BY SessionAssumption DEF Basics, FlowTypes
    <3> QED BY <1>1, <3>1 DEF Basics, LaunchInv
  <2>5. OnPipe("startGdbServer")' \/ Unsent(4)' => monitor' = "none"
    <3>1. Unsent(4) => ~OnPipe("startGdbServer") /\ monitor = "none"
      BY DEF Basics, LaunchInv
    <3>2. OnPipe("startGdbServer") => monitor = "none"
      BY DEF Basics, LaunchInv
    <3>3. CASE OnPipe("startGdbServer")'
      <4>1. monitor = "none" /\ OnPipe("startGdbServer")
        BY <1>5, <3>2, <3>3
      <4> QED BY <3>3, <4>1
    <3>4. CASE Unsent(4)'
      BY <1>5, <3>1, <3>4
    <3> QED BY <3>3, <3>4
  <2>6. OnPipe("startGdbServer")' \/ Unsent(4)' \/ monitor' \in {"watching", "found"} => ~Heralded' /\ server' = "none"
    <3>1. OnPipe("startGdbServer") \/ Unsent(4) \/ monitor \in {"watching", "found"} => ~Heralded /\ server = "none"
      BY DEF Basics, LaunchInv
    <3>2. monitor' \in {"watching", "found"} => monitor \in {"watching", "found"} \/ OnPipe("startGdbServer")
      OBVIOUS
    <3> QED BY <1>1, <1>5, <1>6, <2>5, <3>1, <3>2
  <2>7. OnPipe("startGdbServer")' \/ monitor' # "none" => step' >= 4
    BY <1>1, <1>5 DEF Basics, LaunchInv
  <2>8. Unsent(4)' => ~OnPipe("startGdbServer")'
    BY <1>5 DEF Basics, LaunchInv
  <2>9. Heralded' => server' = "none"
    BY <1>1, <1>6 DEF Basics, LaunchInv
  <2>10. monitor' \in {"none", "watching", "found"} =>
           (\A i \in Ids : streams'[i] = Absent) /\ \A k \in Conns : conn'[k].at = "none"
    <3>1. monitor' \in {"none", "watching", "found"} => monitor \in {"none", "watching", "found"}
      BY DEF Basics, LaunchInv
    <3> QED BY <3>1 DEF Basics, LaunchInv
  <2> QED BY <1>7, <2>1, <2>2, <2>3, <2>4, <2>5, <2>6, <2>7, <2>8, <2>9, <2>10 DEF LaunchInv
<1>9. SetupInv'
  <2>1. ASSUME NEW r \in pending, r.of = "setup"
        PROVE  /\ step <= 4
               /\ \A f \in Held(toServer') : Numbered(f) /\ f.seq = r.seq => f.m = Steps[step]
               /\ \A f \in Held(toServer') : f.m = "allocatePorts" => f.seq = r.seq
               /\ \A k \in Conns : conn'[k].at \in Owing => conn'[k].seq # r.seq
               /\ step = 2 => \A f \in Held(toClient') : f.m = "response" /\ f.seq = r.seq /\ f.ok => nextId' > FirstId
    <3>1. r.seq \in SetupSeqs
      BY <2>1 DEF SetupSeqs
    <3>2. /\ step <= 4
          /\ \A f \in Held(toServer) : Numbered(f) /\ f.seq = r.seq => f.m = Steps[step]
          /\ \A f \in Held(toServer) : f.m = "allocatePorts" => f.seq = r.seq
          /\ \A k \in Conns : conn[k].at \in Owing => conn[k].seq # r.seq
          /\ step = 2 => \A f \in Held(toClient) : f.m = "response" /\ f.seq = r.seq /\ f.ok => nextId > FirstId
      BY <2>1 DEF Basics, SetupInv
    <3>3. ASSUME step = 2, NEW f \in Held(toClient'), f.m = "response", f.seq = r.seq, f.ok
          PROVE  nextId' > FirstId
      <4>1. CASE f \in Held(toClient)
        <5>1. nextId > FirstId /\ nextId \in Nat /\ FirstId \in Nat
          BY <3>2, <3>3, <4>1, SessionAssumption DEF Basics, FlowTypes
        <5> QED BY <5>1
      <4>2. CASE f \notin Held(toClient)
        BY <1>3, <3>1, <3>3, <4>2 DEF Harmless
      <4> QED BY <4>1, <4>2
    <3>4. \A k \in Conns : conn'[k].at \in Owing => conn'[k].seq # r.seq
      BY <3>1, <3>2
    <3> QED BY <1>2, <3>2, <3>3, <3>4
  <2> QED BY <1>1, <2>1 DEF Basics, SetupInv
<1> QED BY <1>4, <1>8, <1>9

-----------------------------------------------------------------------------
(* What one step changes of a connection *)

LEMMA ConnAt ==
  ASSUME IInv, NEW k \in Conns, NEW to, conn' = [conn EXCEPT ![k].at = to]
  PROVE  /\ \A j \in Conns : j # k => conn'[j] = conn[j]
         /\ conn'[k].at = to
         /\ conn'[k].id = conn[k].id /\ conn'[k].seq = conn[k].seq /\ conn'[k].fwd = conn[k].fwd
         /\ conn'[k].got = conn[k].got /\ conn'[k].hung = conn[k].hung
<1>1. DOMAIN conn = Conns /\ DOMAIN conn[k] = {"at", "id", "seq", "sent", "fwd", "hung", "got"}
  BY DEF IInv, ChannelTypes
<1>2. conn'[k] = [conn[k] EXCEPT !.at = to] /\ \A j \in Conns : j # k => conn'[j] = conn[j]
  BY <1>1
<1> QED BY <1>1, <1>2

LEMMA ConnCounts ==
  ASSUME IInv, NEW k \in Conns, NEW n,
         conn' = [conn EXCEPT ![k].sent = n] \/ conn' = [conn EXCEPT ![k].hung = TRUE]
  PROVE  /\ \A j \in Conns : j # k => conn'[j] = conn[j]
         /\ conn'[k].at = conn[k].at
         /\ conn'[k].id = conn[k].id /\ conn'[k].seq = conn[k].seq /\ conn'[k].fwd = conn[k].fwd
         /\ conn'[k].got = conn[k].got /\ (conn[k].hung => conn'[k].hung)
<1>1. DOMAIN conn = Conns /\ DOMAIN conn[k] = {"at", "id", "seq", "sent", "fwd", "hung", "got"}
  BY DEF IInv, ChannelTypes
<1>2. /\ conn'[k] = [conn[k] EXCEPT !.sent = n] \/ conn'[k] = [conn[k] EXCEPT !.hung = TRUE]
      /\ \A j \in Conns : j # k => conn'[j] = conn[j]
  BY <1>1
<1> QED BY <1>1, <1>2

LEMMA ConnForwards ==
  ASSUME IInv, NEW k \in Conns, NEW n, conn' = [conn EXCEPT ![k].fwd = n]
  PROVE  /\ \A j \in Conns : j # k => conn'[j] = conn[j]
         /\ conn'[k].fwd = n
         /\ conn'[k].id = conn[k].id /\ conn'[k].seq = conn[k].seq /\ conn'[k].at = conn[k].at
         /\ conn'[k].got = conn[k].got /\ conn'[k].hung = conn[k].hung
<1>1. DOMAIN conn = Conns /\ DOMAIN conn[k] = {"at", "id", "seq", "sent", "fwd", "hung", "got"}
  BY DEF IInv, ChannelTypes
<1>2. conn'[k] = [conn[k] EXCEPT !.fwd = n] /\ \A j \in Conns : j # k => conn'[j] = conn[j]
  BY <1>1
<1> QED BY <1>1, <1>2

LEMMA ConnGets ==
  ASSUME IInv, NEW k \in Conns, NEW c, conn' = [conn EXCEPT ![k].got = Append(@, c)]
  PROVE  /\ \A j \in Conns : j # k => conn'[j] = conn[j]
         /\ conn'[k].got = Append(conn[k].got, c)
         /\ conn'[k].id = conn[k].id /\ conn'[k].seq = conn[k].seq /\ conn'[k].at = conn[k].at
         /\ conn'[k].fwd = conn[k].fwd /\ conn'[k].hung = conn[k].hung
<1>1. DOMAIN conn = Conns /\ DOMAIN conn[k] = {"at", "id", "seq", "sent", "fwd", "hung", "got"}
  BY DEF IInv, ChannelTypes
<1>2. conn'[k] = [conn[k] EXCEPT !.got = Append(conn[k].got, c)] /\ \A j \in Conns : j # k => conn'[j] = conn[j]
  BY <1>1
<1> QED BY <1>1, <1>2

LEMMA ConnStarts ==
  ASSUME IInv, NEW k \in Conns, NEW i, NEW s,
         conn' = [conn EXCEPT ![k] = [NoConn EXCEPT !.at = "waiting", !.id = i, !.seq = s]]
  PROVE  /\ \A j \in Conns : j # k => conn'[j] = conn[j]
         /\ conn'[k].at = "waiting" /\ conn'[k].id = i /\ conn'[k].seq = s
         /\ conn'[k].fwd = 0 /\ conn'[k].got = << >> /\ conn'[k].hung = FALSE
<1>1. DOMAIN conn = Conns
  BY DEF IInv, ChannelTypes
<1>2. /\ \A j \in Conns : j # k => conn'[j] = conn[j]
      /\ conn'[k] = [NoConn EXCEPT !.at = "waiting", !.id = i, !.seq = s]
  BY <1>1
<1> DEFINE c == [NoConn EXCEPT !.at = "waiting", !.id = i, !.seq = s]
<1>3. /\ c.at = "waiting" /\ c.id = i /\ c.seq = s /\ c.fwd = 0 /\ c.got = << >> /\ c.hung = FALSE
  BY DEF NoConn
<1>4. conn'[k] = c
  BY <1>2
<1> HIDE DEF c
<1> QED BY <1>2, <1>3, <1>4

\* No traffic, and at most the wait for it goes on or ends.
Tame(k) ==
  /\ conn'[k].id = conn[k].id /\ conn'[k].seq = conn[k].seq /\ conn'[k].fwd = conn[k].fwd
  /\ conn'[k].got = conn[k].got /\ (conn[k].hung => conn'[k].hung)
  /\ conn'[k].at = conn[k].at \/ (conn[k].at \in Owing /\ conn'[k].at \in Owing \cup {"gone"})

-----------------------------------------------------------------------------
(* Steps of the session that join nobody *)

\* A frame that neither opens a stream nor is of one.
Dull(f) ==
  /\ f.m \notin {"data", "streamReady"}
  /\ Marked(f) => f.m = "response"
  /\ f.m = "response" /\ f.ok =>
       /\ Taken /\ Head(toServer).m \in {"initialize", "syncFile", "endSession", "startGdbServer",
                                         "allocatePorts"}
       /\ f.seq = Head(toServer).seq
       /\ Head(toServer).m = "allocatePorts" => nextId' = nextId + 1

MonitorMoves ==
  \/ monitor' = monitor
  \/ monitor = "watching" /\ monitor' \in {"found", "done"}
  \/ /\ monitor = "none" /\ monitor' = "watching"
     /\ Taken /\ Head(toServer).m = "startGdbServer"

IdsMove == nextId' = nextId \/ (nextId' = nextId + 1 /\ Taken /\ Head(toServer).m = "allocatePorts")

\* A gdb-server that starts has no connections.
PeersStay == child' = "running" => child = "running" \/ \A k \in Conns : conn[k].at = "none"

Quiet ==
  /\ UNCHANGED <<clientVars, streams>>
  /\ toServer' = toServer \/ (Taken /\ Head(toServer).m # "data")
  /\ Grows(toClient, toClient')
  /\ \A p \in Behind(toClient, toClient') : Dull(toClient'[p])
  /\ \A k \in Conns : Tame(k)
  /\ loop' = "running" => loop = "running"
  /\ PeersStay /\ IdsMove /\ MonitorMoves

\* The request that is taken was the only one of its kind.
LEMMA LaunchTaken ==
  ASSUME IInv, Basics, Taken, NEW m \in {"allocatePorts", "startGdbServer"}, Head(toServer).m = m
  PROVE  OnPipe(m) /\ ~OnPipe(m)'
<1>1. /\ Head(toServer) \in Held(toServer) /\ Held(toServer') \subseteq Held(toServer)
      /\ Marked(Head(toServer)) /\ Head(toServer).seq \notin Seqs(toServer')
  BY PipesAreSeqs, TailHeld, SeqTaken DEF Taken, Marked, Marks, Basics, PlaceInv
<1>2. ASSUME NEW f \in Held(toServer'), f.m = m PROVE FALSE
  <2>1. f.seq = Head(toServer).seq
    BY <1>1, <1>2 DEF Basics, LaunchInv
  <2>2. f.seq \in Seqs(toServer')
    BY <1>2, HeldAt, SeqsOf DEF Marked, Marks
  <2> QED BY <1>1, <2>1, <2>2
<1> QED BY <1>1, <1>2 DEF OnPipe

LEMMA QuietBasics ==
  ASSUME IInv, Basics, Quiet, PlaceInv'
  PROVE  Basics'
<1>1. UNCHANGED <<sid, lsock, byId, got, fromBuf, asked, sockets, streams>>
  BY DEF Quiet, clientVars, localVars
<1>2. /\ nextId \in Nat /\ nextId' \in Nat /\ FirstId <= nextId' /\ nextId <= nextId' /\ FirstId \in Nat
      /\ \/ nextId' = nextId
         \/ /\ nextId = FirstId /\ nextId' = FirstId + 1
            /\ ~OnPipe("allocatePorts")' /\ ~Unsent(2)
  <2>1. nextId \in Nat /\ FirstId \in Nat /\ FirstId <= nextId
    BY SessionAssumption DEF Basics, FlowTypes
  <2>2. CASE nextId' = nextId
    BY <2>1, <2>2
  <2>3. CASE nextId' = nextId + 1 /\ Taken /\ Head(toServer).m = "allocatePorts"
    <3>1. OnPipe("allocatePorts") /\ ~OnPipe("allocatePorts")'
      BY <2>3, LaunchTaken
    <3>2. nextId = FirstId /\ ~Unsent(2)
      BY <3>1 DEF Basics, LaunchInv
    <3> QED BY <2>1, <2>3, <3>1, <3>2
  <2> QED BY <2>2, <2>3 DEF Quiet, IdsMove
<1>3. FlowTypes'
  <2>1. \A k \in Conns : conn'[k].fwd = conn[k].fwd /\ conn'[k].got = conn[k].got
    BY DEF Quiet, Tame
  <2> QED BY <1>1, <1>2, <2>1 DEF Basics, FlowTypes
<1>4. IdsInv'
  <2>1. \A k \in Conns : /\ conn'[k].at = "none" <=> conn[k].at = "none"
                         /\ conn'[k].at \in Owing => conn[k].at \in Owing
                         /\ conn[k].at \in {"forwarding", "mute"} => conn'[k].at = conn[k].at
                         /\ conn'[k].fwd = conn[k].fwd /\ conn'[k].id = conn[k].id
    BY DEF Quiet, Tame, Owing
  <2>2. ASSUME NEW k \in Conns \ {1}, conn'[k].at = "none" PROVE nextId' <= FirstId + k - 1
    <3>1. k \in Nat /\ k >= 2
      BY DEF Conns
    <3>2. nextId <= FirstId + k - 1
      BY <2>1, <2>2 DEF Basics, IdsInv
    <3> QED BY <1>2, <3>1, <3>2
  <2>3. /\ \A j, k \in Conns : j < k /\ conn[j].at = "none" => conn[k].at = "none"
        /\ \A i \in Ids : streams[i] \in Conns => conn[streams[i]].id = i /\ conn[streams[i]].at \in {"forwarding", "mute"}
        /\ \A k \in Conns : conn[k].at \in Owing \cup {"none"} => conn[k].fwd = 0
    BY DEF Basics, IdsInv
  <2> QED BY <1>1, <2>1, <2>2, <2>3 DEF IdsInv
<1>5. \A k \in Conns : conn'[k].at \in Owing => conn[k].at \in Owing /\ conn'[k].seq = conn[k].seq
  BY DEF Quiet, Tame, Owing
<1>6. FrameTypes' /\ LaunchInv' /\ SetupInv'
  <2>1. ASSUME NEW p \in Behind(toClient, toClient')
        PROVE  Harmless(toClient'[p]) /\ toClient'[p].m # "streamReady"
    <3> DEFINE f == toClient'[p]
    <3>1. Dull(f)
      BY DEF Quiet
    <3> HIDE DEF f
    <3>2. ASSUME f.m = "response", f.ok, step = 2, f.seq \in SetupSeqs
          PROVE  nextId' > FirstId
      <4>1. /\ Taken /\ Head(toServer).m \in {"initialize", "syncFile", "endSession", "startGdbServer", "allocatePorts"}
            /\ f.seq = Head(toServer).seq
            /\ Head(toServer).m = "allocatePorts" => nextId' = nextId + 1
        BY <3>1, <3>2 DEF Dull
      <4>2. Head(toServer) \in Held(toServer) /\ Numbered(Head(toServer))
        BY <4>1, PipesAreSeqs, TailHeld DEF Taken, Numbered
      <4>3. PICK r \in pending : r.of = "setup" /\ r.seq = f.seq
        BY <3>2 DEF SetupSeqs
      <4>4. Head(toServer).m = Steps[2]
        BY <3>2, <4>1, <4>2, <4>3 DEF Basics, SetupInv
      <4>5. nextId' = nextId + 1
        BY <4>1, <4>4 DEF Steps
      <4> QED BY <1>2, <4>5 DEF Basics, FlowTypes
    <3>3. Harmless(f) /\ f.m # "streamReady"
      BY <3>1, <3>2 DEF Harmless, Dull
    <3> QED BY <3>3 DEF f
  <2>2. UNCHANGED clientVars
    BY DEF Quiet
  <2>3. toServer' = toServer \/ Taken
    BY DEF Quiet
  <2>4. \A k \in Conns : conn[k].at = "none" => conn'[k].at = "none"
    BY DEF Quiet, Tame, Owing
  <2>5. \/ monitor' = monitor
        \/ monitor = "watching" /\ monitor' \in {"found", "done"}
        \/ monitor = "none" /\ monitor' = "watching" /\ OnPipe("startGdbServer") /\ ~OnPipe("startGdbServer")'
    BY LaunchTaken DEF Quiet, MonitorMoves
  <2> QED BY <1>1, <1>2, <1>5, <2>1, <2>2, <2>3, <2>4, <2>5, SessionLaunch DEF Quiet
<1> QED BY <1>3, <1>4, <1>6 DEF Basics

LEMMA FrameBehind ==
  ASSUME IInv, NEW f, Frame(f)
  PROVE  /\ Grows(toClient, toClient')
         /\ \A p \in Behind(toClient, toClient') : p = Len(toClient) + 1 /\ toClient'[p] = f
BY PipesAreSeqs, AppendGrows DEF Frame

LEMMA FramesBehind ==
  ASSUME IInv, NEW f, NEW g, Frames(<<f, g>>)
  PROVE  /\ Grows(toClient, toClient')
         /\ \A p \in Behind(toClient, toClient') :
              (p = Len(toClient) + 1 /\ toClient'[p] = f) \/ toClient'[p] = g
<1>1. IsSeq(toClient) /\ toClient' = toClient \o <<f, g>>
  BY PipesAreSeqs DEF Frames
<1> DEFINE t == toClient \o <<f, g>>
<1>2. /\ Len(toClient) \in Nat /\ Grows(toClient, t) /\ Len(t) = Len(toClient) + 2
      /\ t[Len(toClient) + 1] = f /\ t[Len(toClient) + 2] = g
  BY <1>1, PairGrows
<1>3. t = toClient'
  BY <1>1
<1> HIDE DEF t
<1>4. \A p \in Behind(toClient, t) : p = Len(toClient) + 1 \/ p = Len(toClient) + 2
  BY <1>2 DEF Behind
<1> QED BY <1>2, <1>3, <1>4

LEMMA NothingBehind ==
  ASSUME IInv, toClient' = toClient
  PROVE  Grows(toClient, toClient') /\ Behind(toClient, toClient') = {}
<1>1. IsSeq(toClient) /\ Len(toClient) \in Nat
  BY PipesAreSeqs, LenIsNat
<1> QED BY <1>1 DEF Grows, Behind

\* Who answers a request: its number is that of the request.
Replies(f) == f.m = "response" => Taken /\ Marked(Head(toServer)) /\ f.seq = Head(toServer).seq

LEMMA TamePlaces == (\A k \in Conns : Tame(k)) => OwingStays
BY DEF Tame, OwingStays, Owing

QuietBut ==
  /\ UNCHANGED <<clientVars, streams>>
  /\ toServer' = toServer \/ (Taken /\ Head(toServer).m # "data")
  /\ \A k \in Conns : Tame(k)
  /\ loop' = "running" => loop = "running"
  /\ PeersStay /\ IdsMove /\ MonitorMoves

LEMMA SilentIsQuiet ==
  ASSUME IInv, Basics, QuietBut, toClient' = toClient
  PROVE  Quiet /\ PlaceInv'
<1>1. Quiet
  BY NothingBehind DEF Quiet, QuietBut
<1>2. PlaceInv'
  BY NothingBehind, PlacesStay, TamePlaces DEF QuietBut, Basics
<1> QED BY <1>1, <1>2

LEMMA DullIsQuiet ==
  ASSUME IInv, Basics, QuietBut, NEW f, Dull(f), Replies(f), Frame(f) \/ Frames(<<f, Eof>>)
  PROVE  Quiet /\ PlaceInv'
<1>1. /\ Grows(toClient, toClient')
      /\ \A p \in Behind(toClient, toClient') :
           (p = Len(toClient) + 1 /\ toClient'[p] = f) \/ toClient'[p] = Eof
  BY FrameBehind, FramesBehind
<1>2. Dull(Eof) /\ ~Marked(Eof)
  BY DEF Dull, Eof, Marked, Marks
<1>3. Quiet
  BY <1>1, <1>2 DEF Quiet, QuietBut
<1>4. OwingStays
  BY TamePlaces DEF QuietBut, IdsMove
<1>5. PlaceInv'
  <2>1. CASE f.m = "response"
    <3>1. Taken /\ Marked(Head(toServer)) /\ f.seq = Head(toServer).seq
      BY <2>1 DEF Replies
    <3>2. \A p \in Behind(toClient, toClient') :
             Marked(toClient'[p]) => p = Len(toClient) + 1 /\ toClient'[p].seq = Head(toServer).seq
      BY <1>1, <1>2, <3>1
    <3> QED BY <1>1, <1>4, <3>1, <3>2, PlacesAnswer DEF Basics
  <2>2. CASE f.m # "response"
    <3>1. ~Marked(f)
      BY <2>2 DEF Dull
    <3> QED BY <1>1, <1>2, <1>4, <3>1, PlacesStay DEF QuietBut, Basics
  <2> QED BY <2>1, <2>2
<1> QED BY <1>3, <1>5

LEMMA ConnsAreTame == UNCHANGED conn => \A k \in Conns : Tame(k)
BY DEF Tame

LEMMA EndMoves == EndProcess => MonitorMoves /\ PeersStay
BY DEF EndProcess, MonitorMoves, PeersStay

LEMMA NoneTakes ==
  ASSUME IInv, Basics, Taken, Head(toServer).m = "startGdbServer"
  PROVE  monitor = "none" /\ \A k \in Conns : conn[k].at = "none"
BY LaunchTaken DEF Basics, LaunchInv

\* The requests whose answer opens no stream, and the end of the connection.
LEMMA QuietRequests ==
  ASSUME IInv, Basics, UNCHANGED clientVars,
         \/ Initialize \/ AllocatePorts \/ SyncFile \/ StartGdbServer \/ EndSession \/ ClientClosed
         \/ (StartStream \/ DuplicateStream) /\ UNCHANGED <<conn, streams, nextId>>
  PROVE  Quiet /\ PlaceInv'
<1>1. CASE Initialize \/ AllocatePorts \/ SyncFile \/ StartGdbServer \/ EndSession
  <2>1. PICK m \in {"initialize", "allocatePorts", "syncFile", "startGdbServer", "endSession"} : Takes(m)
    BY <1>1 DEF Initialize, AllocatePorts, SyncFile, StartGdbServer, EndSession
  <2>2. /\ Taken /\ Head(toServer).m = m /\ Request = Head(toServer)
        /\ loop = "running" /\ UNCHANGED <<conn, streams>>
    BY <1>1, <2>1 DEF Initialize, AllocatePorts, SyncFile, StartGdbServer, EndSession, Takes, Taken,
                      Request, streamVars
  <2>3. MonitorMoves /\ PeersStay
    <3>1. CASE StartGdbServer
      <4>1. Head(toServer).m = "startGdbServer"
        BY <3>1 DEF StartGdbServer, Takes
      <4>2. monitor = "none" /\ \A k \in Conns : conn[k].at = "none"
        BY <2>2, <4>1, NoneTakes
      <4> QED BY <2>2, <3>1, <4>1, <4>2 DEF StartGdbServer, MonitorMoves, PeersStay
    <3>2. CASE EndSession
      BY <3>2, EndMoves DEF EndSession
    <3>3. CASE Initialize \/ AllocatePorts \/ SyncFile
      BY <3>3 DEF Initialize, AllocatePorts, SyncFile, MonitorMoves, PeersStay, childVars, threadVars
    <3> QED BY <1>1, <3>1, <3>2, <3>3
  <2>10. \E ok \in BOOLEAN : \E i :
          /\ Frame(Answer(Request.seq, ok, i)) \/ Frames(<<Answer(Request.seq, ok, i), Eof>>)
          /\ IdsMove /\ (ok /\ m = "allocatePorts" => nextId' = nextId + 1)
    <3>1. CASE AllocatePorts
      <4>1. Head(toServer).m = "allocatePorts"
        BY <3>1 DEF AllocatePorts, Takes
      <4>2. CASE nextId' = nextId + 1 /\ Frame(Answer(Request.seq, TRUE, nextId))
        <5>1. IdsMove
          BY <2>2, <4>1, <4>2 DEF IdsMove
        <5> QED BY <4>2, <5>1
      <4>3. CASE Frame(Answer(Request.seq, FALSE, 0)) /\ nextId' = nextId
        <5>1. IdsMove
          BY <4>3 DEF IdsMove
        <5> QED BY <4>3, <5>1
      <4> QED BY <3>1, <4>2, <4>3 DEF AllocatePorts
    <3>2. CASE Initialize \/ SyncFile \/ StartGdbServer \/ EndSession
      <4>1. nextId' = nextId /\ m # "allocatePorts"
        BY <2>2, <3>2 DEF Initialize, SyncFile, StartGdbServer, EndSession, Takes, streamVars
      <4>2. \E ok \in BOOLEAN :
              Frame(Answer(Request.seq, ok, 0)) \/ Frames(<<Answer(Request.seq, ok, 0), Eof>>)
        BY <3>2 DEF Initialize, SyncFile, StartGdbServer, EndSession
      <4> QED BY <4>1, <4>2 DEF IdsMove
    <3> QED BY <1>1, <3>1, <3>2
  <2>11. PICK ok \in BOOLEAN : \E i :
          /\ Frame(Answer(Request.seq, ok, i)) \/ Frames(<<Answer(Request.seq, ok, i), Eof>>)
          /\ IdsMove /\ (ok /\ m = "allocatePorts" => nextId' = nextId + 1)
    BY <2>10
  <2>4. PICK i :
          /\ Frame(Answer(Request.seq, ok, i)) \/ Frames(<<Answer(Request.seq, ok, i), Eof>>)
          /\ IdsMove /\ (ok /\ m = "allocatePorts" => nextId' = nextId + 1)
    BY <2>11
  <2>5. QuietBut
    BY <2>1, <2>2, <2>3, <2>4, ConnsAreTame DEF QuietBut, IdsMove
  <2> DEFINE f == Answer(Request.seq, ok, i)
  <2>6. f.m = "response" /\ f.seq = Request.seq /\ f.ok = ok
    BY DEF Answer
  <2>7. Frame(f) \/ Frames(<<f, Eof>>)
    BY <2>4
  <2> HIDE DEF f
  <2>8. Dull(f) /\ Replies(f)
    BY <2>2, <2>4, <2>6 DEF Dull, Replies, Marked, Marks
  <2> QED BY <2>5, <2>7, <2>8, DullIsQuiet
<1>2. CASE ClientClosed
  <2>1. Taken /\ Head(toServer).m = "eof" /\ loop = "running" /\ UNCHANGED <<conn, nextId, streams, toClient>>
    BY <1>2 DEF ClientClosed, Takes, Taken, streamVars
  <2>2. MonitorMoves /\ PeersStay
    BY <1>2, EndMoves DEF ClientClosed
  <2>3. QuietBut
    BY <2>1, <2>2, ConnsAreTame DEF QuietBut, IdsMove
  <2> QED BY <2>1, <2>3, SilentIsQuiet
<1>3. CASE (StartStream \/ DuplicateStream) /\ UNCHANGED <<conn, streams, nextId>>
  <2>1. /\ Taken /\ Head(toServer).m \in {"startStream", "duplicateStream"} /\ loop = "running"
        /\ UNCHANGED <<conn, nextId, streams, toClient, child>> /\ monitor' = monitor
    BY <1>3 DEF StartStream, DuplicateStream, Takes, Taken, childVars, threadVars
  <2>3. QuietBut
    BY <2>1, ConnsAreTame DEF QuietBut, IdsMove, PeersStay, MonitorMoves
  <2> QED BY <2>1, <2>3, SilentIsQuiet
<1> QED BY <1>1, <1>2, <1>3

LEMMA QuietEvents ==
  ASSUME IInv, Basics, UNCHANGED clientVars,
         Output \/ GdbServerExited \/ DropSession \/ WriteFails \/ \E k \in Conns : PortFailed(k)
  PROVE  Quiet /\ PlaceInv'
<1>1. CASE Output \/ GdbServerExited \/ DropSession
  <2>1. UNCHANGED <<conn, nextId, streams, toServer>>
    BY <1>1 DEF Output, GdbServerExited, DropSession, streamVars
  <2>2. loop' = "running" => loop = "running"
    BY <1>1 DEF Output, GdbServerExited, DropSession
  <2>3. MonitorMoves /\ PeersStay
    BY <1>1, EndMoves DEF Output, GdbServerExited, DropSession, MonitorMoves, PeersStay, childVars, threadVars
  <2>4. QuietBut
    BY <2>1, <2>2, <2>3, ConnsAreTame DEF QuietBut, IdsMove
  <2>5. PICK f : Frame(f) /\ f.m \in {"output", "streamClosed", "gdbServerExited", "eof"}
    <3>1. CASE Output
      <4>1. CASE Head(pipe) = "out"
        BY <3>1, <4>1 DEF Output
      <4>2. CASE Head(pipe) # "out"
        BY <3>1, <4>2 DEF Output
      <4> QED BY <4>1, <4>2
    <3>2. CASE GdbServerExited
      BY <3>2 DEF GdbServerExited
    <3>3. CASE DropSession
      BY <3>3 DEF DropSession, Eof
    <3> QED BY <1>1, <3>1, <3>2, <3>3
  <2>6. Dull(f) /\ Replies(f)
    BY <2>5 DEF Dull, Replies, Marked, Marks
  <2> QED BY <2>4, <2>5, <2>6, DullIsQuiet
<1>2. CASE WriteFails
  <2>1. UNCHANGED <<conn, nextId, streams, toServer, toClient>> /\ loop = "running"
    BY <1>2 DEF WriteFails, streamVars
  <2>2. MonitorMoves /\ PeersStay
    BY <1>2, EndMoves DEF WriteFails
  <2>3. QuietBut
    BY <2>1, <2>2, ConnsAreTame DEF QuietBut, IdsMove
  <2> QED BY <2>1, <2>3, SilentIsQuiet
<1>3. ASSUME NEW k \in Conns, PortFailed(k)
      PROVE  Quiet /\ PlaceInv'
  <2> DEFINE f == Answer(conn[k].seq, FALSE, 0)
  <2>1. /\ conn' = [conn EXCEPT ![k].at = "gone"] /\ conn[k].at = "failed" /\ Frame(f)
        /\ UNCHANGED <<nextId, streams, toServer, loop, child, monitor>>
    BY <1>3 DEF PortFailed, childVars, threadVars
  <2>2. f.m = "response" /\ f.seq = conn[k].seq /\ f.ok = FALSE
    BY DEF Answer
  <2> HIDE DEF f
  <2>3. /\ \A j \in Conns : j # k => conn'[j] = conn[j]
        /\ conn'[k].at = "gone"
        /\ conn'[k].id = conn[k].id /\ conn'[k].seq = conn[k].seq /\ conn'[k].fwd = conn[k].fwd
        /\ conn'[k].got = conn[k].got /\ conn'[k].hung = conn[k].hung
    BY <2>1, ConnAt
  <2>4. \A j \in Conns : Tame(j)
    BY <2>1, <2>3 DEF Tame, Owing
  <2>5. Dull(f)
    BY <2>2 DEF Dull
  <2>6. Quiet
    BY <2>1, <2>4, <2>5, FrameBehind DEF Quiet, IdsMove, PeersStay, MonitorMoves
  <2>7. PlaceInv'
    <3>1. conn[k].at \in Owing /\ conn'[k].at \notin Owing
      BY <2>1, <2>3 DEF Owing
    <3>2. toClient' = Append(toClient, f)
      BY <2>1 DEF Frame
    <3> QED BY <2>1, <2>2, <2>3, <3>1, <3>2, PlacesPay DEF Basics
  <2> QED BY <2>6, <2>7
<1> QED BY <1>1, <1>2, <1>3

LEMMA QuietOthers ==
  ASSUME IInv, Basics, UNCHANGED clientVars,
         \/ Threads \/ MonitorFails \/ ReaperFails \/ ChildPrints \/ ChildListens \/ ChildExits
         \/ \E k \in Conns : ChildSends(k) \/ ChildHangsUp(k)
  PROVE  Quiet /\ PlaceInv'
<1>1. CASE ReaperPolls \/ ReaperJudges \/ ReaperCancelled \/ MonitorFinds \/ MonitorFails \/ ReaperFails
           \/ ChildPrints \/ ChildListens \/ ChildExits
  <2>1. UNCHANGED <<conn, nextId, streams, toServer, toClient, loop>>
    BY <1>1 DEF ReaperPolls, ReaperJudges, ReaperCancelled, MonitorFinds, MonitorFails, ReaperFails,
                ChildPrints, ChildListens, ChildExits, streamVars
  <2>2. MonitorMoves /\ PeersStay
    BY <1>1 DEF ReaperPolls, ReaperJudges, ReaperCancelled, MonitorFinds, MonitorFails, ReaperFails,
                ChildPrints, ChildListens, ChildExits, childVars, threadVars, PeersStay, MonitorMoves
  <2>3. QuietBut
    BY <2>1, <2>2, ConnsAreTame DEF QuietBut, IdsMove
  <2> QED BY <2>1, <2>3, SilentIsQuiet
<1>2. ASSUME NEW k \in Conns,
             \/ WaiterConnects(k) \/ WaiterFails(k) \/ WaiterCancelled(k)
             \/ ChildSends(k) \/ ChildHangsUp(k)
      PROVE  Quiet /\ PlaceInv'
  <2>1. UNCHANGED <<nextId, streams, toServer, toClient, loop, child, monitor>>
    BY <1>2 DEF WaiterConnects, WaiterFails, WaiterCancelled, SetConn, ChildSends, ChildHangsUp,
                childVars, threadVars
  <2>2. \A j \in Conns : Tame(j)
    <3>1. CASE WaiterConnects(k) \/ WaiterFails(k) \/ WaiterCancelled(k)
      <4>1. PICK to \in {"connected", "failed", "gone"} : conn' = [conn EXCEPT ![k].at = to]
        BY <3>1 DEF WaiterConnects, WaiterFails, WaiterCancelled, SetConn
      <4>2. conn[k].at = "waiting"
        BY <3>1 DEF WaiterConnects, WaiterFails, WaiterCancelled
      <4>3. /\ \A j \in Conns : j # k => conn'[j] = conn[j]
            /\ conn'[k].at = to
            /\ conn'[k].id = conn[k].id /\ conn'[k].seq = conn[k].seq /\ conn'[k].fwd = conn[k].fwd
            /\ conn'[k].got = conn[k].got /\ conn'[k].hung = conn[k].hung
        BY <4>1, ConnAt
      <4> QED BY <4>2, <4>3 DEF Tame, Owing
    <3>2. CASE ChildSends(k) \/ ChildHangsUp(k)
      <4>1. conn' = [conn EXCEPT ![k].sent = conn[k].sent + 1] \/ conn' = [conn EXCEPT ![k].hung = TRUE]
        BY <3>2 DEF ChildSends, ChildHangsUp
      <4>2. /\ \A j \in Conns : j # k => conn'[j] = conn[j]
            /\ conn'[k].at = conn[k].at
            /\ conn'[k].id = conn[k].id /\ conn'[k].seq = conn[k].seq /\ conn'[k].fwd = conn[k].fwd
            /\ conn'[k].got = conn[k].got /\ (conn[k].hung => conn'[k].hung)
        BY <4>1, ConnCounts
      <4> QED BY <4>2 DEF Tame
    <3> QED BY <1>2, <3>1, <3>2
  <2>3. QuietBut
    BY <2>1, <2>2 DEF QuietBut, IdsMove, PeersStay, MonitorMoves
  <2> QED BY <2>1, <2>3, SilentIsQuiet
<1> QED BY <1>1, <1>2 DEF Threads

-----------------------------------------------------------------------------
(* Steps of the session that join somebody *)

LEMMA Busy ==
  ASSUME Basics, (\E k \in Conns : conn[k].at # "none") \/ (\E i \in Ids : streams[i] # Absent)
  PROVE  monitor \notin {"none", "watching", "found"}
BY DEF Basics, LaunchInv

\* The request at the head starts connection k, for stream i.
Spawns(k, i) ==
  /\ UNCHANGED <<clientVars, toClient, loop, child, monitor>>
  /\ Taken /\ loop = "running"
  /\ conn[k].at = "none" /\ \A j \in Conns : j < k => conn[j].at # "none"
  /\ \A j \in Conns : j # k => conn'[j] = conn[j]
  /\ conn'[k].at = "waiting" /\ conn'[k].id = i /\ conn'[k].seq = Head(toServer).seq
  /\ conn'[k].fwd = 0 /\ conn'[k].got = << >> /\ conn'[k].hung = FALSE
  /\ \/ /\ Head(toServer).m = "startStream" /\ i = FirstId /\ streams[FirstId] = Unconnected
        /\ UNCHANGED <<streams, nextId>>
     \/ /\ Head(toServer).m = "duplicateStream" /\ i = nextId /\ nextId' = nextId + 1
        /\ streams[FirstId] \in Conns
        /\ streams' = [streams EXCEPT ![nextId] = Unconnected]

\* Connection k is registered and its request answered.
Joins(k) ==
  /\ UNCHANGED <<clientVars, toServer, loop, child, monitor, nextId>>
  /\ loop = "running" /\ conn[k].at = "connected"
  /\ streams' = [streams EXCEPT ![conn[k].id] = k]
  /\ Frame(Answer(conn[k].seq, TRUE, conn[k].id))
  /\ \A j \in Conns : j # k => conn'[j] = conn[j]
  /\ conn'[k].at \in {"forwarding", "mute"}
  /\ conn'[k].id = conn[k].id /\ conn'[k].seq = conn[k].seq /\ conn'[k].fwd = conn[k].fwd
  /\ conn'[k].got = conn[k].got /\ conn'[k].hung = conn[k].hung

\* A chunk of connection k is sent on.
Sends(k) ==
  /\ UNCHANGED <<clientVars, toServer, loop, child, monitor, nextId, streams>>
  /\ conn[k].at = "forwarding"
  /\ Frame([m |-> "data", id |-> conn[k].id, chunk |-> <<k, conn[k].fwd + 1>>])
  /\ \A j \in Conns : j # k => conn'[j] = conn[j]
  /\ conn'[k].fwd = conn[k].fwd + 1
  /\ conn'[k].id = conn[k].id /\ conn'[k].seq = conn[k].seq /\ conn'[k].at = conn[k].at
  /\ conn'[k].got = conn[k].got /\ conn'[k].hung = conn[k].hung

\* Connection k has ended.
Closes(k) ==
  /\ UNCHANGED <<clientVars, toServer, loop, child, monitor, nextId>>
  /\ conn[k].at = "forwarding"
  /\ streams' = [streams EXCEPT ![conn[k].id] = Absent]
  /\ Frame([m |-> "streamClosed", id |-> conn[k].id])
  /\ \A j \in Conns : j # k => conn'[j] = conn[j]
  /\ conn'[k].at = "gone"
  /\ conn'[k].id = conn[k].id /\ conn'[k].seq = conn[k].seq /\ conn'[k].fwd = conn[k].fwd
  /\ conn'[k].got = conn[k].got /\ conn'[k].hung = conn[k].hung

\* The port of the gdb-server is announced.
Opens ==
  /\ UNCHANGED <<clientVars, toServer, loop, child, nextId, conn>>
  /\ monitor = "found" /\ monitor' = "done"
  /\ streams' = [streams EXCEPT ![FirstId] = Unconnected]
  /\ Frame([m |-> "streamReady", id |-> FirstId])

\* The chunk at the head is written to connection k.
Feeds(k) ==
  /\ UNCHANGED <<clientVars, toClient, loop, child, monitor, nextId, streams>>
  /\ Taken /\ loop = "running" /\ Head(toServer).m = "data"
  /\ k = streams[Head(toServer).id]
  /\ \/ k \notin Conns /\ UNCHANGED conn
     \/ k \in Conns /\ ~HasPeer(k) /\ UNCHANGED conn
     \/ /\ k \in Conns /\ HasPeer(k)
        /\ \A j \in Conns : j # k => conn'[j] = conn[j]
        /\ conn'[k].got = Append(conn[k].got, Head(toServer).chunk)
        /\ conn'[k].id = conn[k].id /\ conn'[k].seq = conn[k].seq /\ conn'[k].at = conn[k].at
        /\ conn'[k].fwd = conn[k].fwd /\ conn'[k].hung = conn[k].hung

SessionStep ==
  \/ Quiet /\ PlaceInv'
  \/ \E k \in Conns, i \in Nat : Spawns(k, i)
  \/ \E k \in Conns : Joins(k) \/ Sends(k) \/ Closes(k)
  \/ Opens
  \/ \E k : Feeds(k)

LEMMA StreamRequests ==
  ASSUME IInv, Basics, UNCHANGED clientVars, StartStream \/ DuplicateStream
  PROVE  SessionStep
<1>1. /\ Taken /\ loop = "running" /\ Request = Head(toServer)
      /\ UNCHANGED <<toClient, loop, child, monitor>>
      /\ Head(toServer).m \in {"startStream", "duplicateStream"}
  BY DEF StartStream, DuplicateStream, Takes, Taken, Request, childVars, threadVars
<1>2. Request.id = FirstId
  BY <1>1, PipesAreSeqs, TailHeld DEF Basics, FrameTypes, Taken
<1>3. nextId \in Nat /\ FirstId \in Nat
  BY SessionAssumption DEF Basics, FlowTypes
<1>4. CASE UNCHANGED <<conn, streams, nextId>>
  BY <1>4, QuietRequests DEF SessionStep
<1>5. CASE StartStream /\ streams[Request.id] = Unconnected
  <2>1. SpawnWaiter(FirstId, Request.seq) /\ UNCHANGED <<streams, nextId>>
        /\ Head(toServer).m = "startStream"
    BY <1>1, <1>2, <1>5 DEF StartStream, Takes
  <2>2. PICK k \in Conns :
           /\ conn[k].at = "none" /\ \A j \in Conns : j < k => conn[j].at # "none"
           /\ conn' = [conn EXCEPT ![k] = [NoConn EXCEPT !.at = "waiting", !.id = FirstId, !.seq = Request.seq]]
    BY <2>1 DEF SpawnWaiter
  <2>3. /\ \A j \in Conns : j # k => conn'[j] = conn[j]
        /\ conn'[k].at = "waiting" /\ conn'[k].id = FirstId /\ conn'[k].seq = Request.seq
        /\ conn'[k].fwd = 0 /\ conn'[k].got = << >> /\ conn'[k].hung = FALSE
    BY <2>2, ConnStarts
  <2>4. Spawns(k, FirstId)
    BY <1>1, <1>2, <1>5, <2>1, <2>2, <2>3 DEF Spawns
  <2> QED BY <1>3, <2>4 DEF SessionStep
<1>6. CASE DuplicateStream /\ streams[Request.id] \in Conns
  <2>1. /\ SpawnWaiter(nextId, Request.seq) /\ nextId' = nextId + 1
        /\ streams' = [streams EXCEPT ![nextId] = Unconnected]
        /\ Head(toServer).m = "duplicateStream"
    BY <1>1, <1>2, <1>6 DEF DuplicateStream, Takes
  <2>2. PICK k \in Conns :
           /\ conn[k].at = "none" /\ \A j \in Conns : j < k => conn[j].at # "none"
           /\ conn' = [conn EXCEPT ![k] = [NoConn EXCEPT !.at = "waiting", !.id = nextId, !.seq = Request.seq]]
    BY <2>1 DEF SpawnWaiter
  <2>3. /\ \A j \in Conns : j # k => conn'[j] = conn[j]
        /\ conn'[k].at = "waiting" /\ conn'[k].id = nextId /\ conn'[k].seq = Request.seq
        /\ conn'[k].fwd = 0 /\ conn'[k].got = << >> /\ conn'[k].hung = FALSE
    BY <2>2, ConnStarts
  <2>4. Spawns(k, nextId)
    BY <1>1, <1>2, <1>6, <2>1, <2>2, <2>3 DEF Spawns
  <2> QED BY <1>3, <2>4 DEF SessionStep
<1> QED BY <1>4, <1>5, <1>6 DEF StartStream, DuplicateStream

LEMMA StreamEvents ==
  ASSUME IInv, Basics, UNCHANGED clientVars,
         \/ PortReady \/ ForwardIn
         \/ \E k \in Conns : PortConnected(k) \/ PortConnectedLate(k) \/ StreamData(k) \/ StreamClosed(k)
  PROVE  SessionStep
<1>1. CASE PortReady
  <2>1. Opens
    BY <1>1 DEF PortReady, Opens, childVars
  <2> QED BY <2>1 DEF SessionStep
<1>2. CASE ForwardIn
  <2>1. /\ Taken /\ loop = "running" /\ Head(toServer).m = "data" /\ Request = Head(toServer)
        /\ UNCHANGED <<toClient, loop, child, monitor, nextId, streams>>
    BY <1>2 DEF ForwardIn, Takes, Taken, Request, childVars, threadVars
  <2> DEFINE k == streams[Request.id]
  <2>2. conn' = IF k \in Conns /\ HasPeer(k)
                THEN [conn EXCEPT ![k].got = Append(@, Request.chunk)] ELSE conn
    BY <1>2 DEF ForwardIn
  <2>3. k = streams[Head(toServer).id]
    BY <2>1
  <2> HIDE DEF k
  <2>4. CASE k \in Conns /\ HasPeer(k)
    <3>1. conn' = [conn EXCEPT ![k].got = Append(@, Head(toServer).chunk)]
      BY <2>1, <2>2, <2>4
    <3>2. Feeds(k)
      BY <2>1, <2>3, <2>4, <3>1, ConnGets DEF Feeds
    <3> QED BY <3>2 DEF SessionStep
  <2>5. CASE ~(k \in Conns /\ HasPeer(k))
    <3>1. Feeds(k)
      BY <2>1, <2>2, <2>3, <2>5 DEF Feeds
    <3> QED BY <3>1 DEF SessionStep
  <2> QED BY <2>4, <2>5
<1>3. ASSUME NEW k \in Conns, PortConnected(k) \/ PortConnectedLate(k)
      PROVE  SessionStep
  <2>1. PICK to \in {"forwarding", "mute"} : conn' = [conn EXCEPT ![k].at = to]
    BY <1>3 DEF PortConnected, PortConnectedLate
  <2>2. /\ \A j \in Conns : j # k => conn'[j] = conn[j]
        /\ conn'[k].at = to
        /\ conn'[k].id = conn[k].id /\ conn'[k].seq = conn[k].seq /\ conn'[k].fwd = conn[k].fwd
        /\ conn'[k].got = conn[k].got /\ conn'[k].hung = conn[k].hung
    BY <2>1, ConnAt
  <2>3. /\ UNCHANGED <<toServer, loop, child, monitor, nextId>>
        /\ loop = "running" /\ conn[k].at = "connected"
        /\ streams' = [streams EXCEPT ![conn[k].id] = k]
        /\ Frame(Answer(conn[k].seq, TRUE, conn[k].id))
    BY <1>3 DEF PortConnected, PortConnectedLate, childVars, threadVars
  <2>4. Joins(k)
    BY <2>2, <2>3 DEF Joins
  <2> QED BY <2>4 DEF SessionStep
<1>4. ASSUME NEW k \in Conns, StreamData(k)
      PROVE  SessionStep
  <2>1. conn' = [conn EXCEPT ![k].fwd = conn[k].fwd + 1]
    BY <1>4 DEF StreamData
  <2>2. /\ \A j \in Conns : j # k => conn'[j] = conn[j]
        /\ conn'[k].fwd = conn[k].fwd + 1
        /\ conn'[k].id = conn[k].id /\ conn'[k].seq = conn[k].seq /\ conn'[k].at = conn[k].at
        /\ conn'[k].got = conn[k].got /\ conn'[k].hung = conn[k].hung
    BY <2>1, ConnForwards
  <2>3. Sends(k)
    BY <1>4, <2>2 DEF StreamData, Sends, childVars, threadVars
  <2> QED BY <2>3 DEF SessionStep
<1>5. ASSUME NEW k \in Conns, StreamClosed(k)
      PROVE  SessionStep
  <2>1. conn' = [conn EXCEPT ![k].at = "gone"]
    BY <1>5 DEF StreamClosed
  <2>2. /\ \A j \in Conns : j # k => conn'[j] = conn[j]
        /\ conn'[k].at = "gone"
        /\ conn'[k].id = conn[k].id /\ conn'[k].seq = conn[k].seq /\ conn'[k].fwd = conn[k].fwd
        /\ conn'[k].got = conn[k].got /\ conn'[k].hung = conn[k].hung
    BY <2>1, ConnAt
  <2>3. Closes(k)
    BY <1>5, <2>2 DEF StreamClosed, Closes, childVars, threadVars
  <2> QED BY <2>3 DEF SessionStep
<1> QED BY <1>1, <1>2, <1>3, <1>4, <1>5

\* Every step of the session is one of these.
LEMMA SessionSteps ==
  ASSUME IInv, Basics, Session
  PROVE  SessionStep /\ UNCHANGED clientVars
<1>1. UNCHANGED clientVars
  BY DEF Session
<1>2. CASE Requests
  BY <1>1, <1>2, QuietRequests, StreamRequests, StreamEvents DEF Requests, SessionStep
<1>3. CASE Events \/ DropSession \/ WriteFails \/ \E k \in Conns : PortConnectedLate(k)
  BY <1>1, <1>3, QuietEvents, StreamEvents DEF Events, SessionStep
<1>4. CASE \/ Threads \/ MonitorFails \/ ReaperFails \/ ChildPrints \/ ChildListens \/ ChildExits
           \/ \E k \in Conns : ChildSends(k) \/ ChildHangsUp(k)
  BY <1>1, <1>4, QuietOthers DEF SessionStep
<1> QED BY <1>1, <1>2, <1>3, <1>4 DEF Session, Loop

-----------------------------------------------------------------------------
(* The steps of the session keep what is basic *)

LEMMA NumbersOfIds ==
  ASSUME Basics
  PROVE  /\ FirstId \in Nat /\ MaxConns \in Nat /\ nextId \in Nat /\ FirstId <= nextId /\ FirstId \in Ids
         /\ Absent \notin Conns /\ Unconnected \notin Conns /\ Absent # Unconnected
BY SessionAssumption DEF Basics, FlowTypes, Ids, Conns, Absent, Unconnected

LEMMA NoMoreLaunch ==
  ASSUME IInv, Basics, monitor \notin {"none", "watching", "found"}
  PROVE  ~OnPipe("allocatePorts") /\ ~Unsent(2)
BY DEF Basics, LaunchInv, Unsent

LEMMA SpawnBasics ==
  ASSUME IInv, Basics, NEW k \in Conns, NEW i \in Nat, Spawns(k, i)
  PROVE  /\ Basics' /\ i \in Ids /\ i < nextId'
         /\ i = nextId => k # 1 /\ DOMAIN streams = Ids
<1>1. /\ Taken /\ Head(toServer) \in Held(toServer) /\ Marked(Head(toServer)) /\ Numbered(Head(toServer))
      /\ Head(toServer).m \in {"startStream", "duplicateStream"}
      /\ Held(toServer') \subseteq Held(toServer)
  BY PipesAreSeqs, TailHeld DEF Spawns, Taken, Marked, Marks, Numbered
<1>2. monitor \notin {"none", "watching", "found"}
  BY Busy, NumbersOfIds DEF Spawns
<1>3. ~OnPipe("allocatePorts") /\ ~Unsent(2)
  BY <1>2, NoMoreLaunch
<1>4. UNCHANGED <<sid, lsock, byId, got, fromBuf, asked, sockets, pending>>
  BY DEF Spawns, clientVars, linkVars, localVars
<1>5. FirstId \in Nat /\ MaxConns \in Nat /\ nextId \in Nat /\ FirstId <= nextId /\ k \in Nat /\ 1 <= k /\ k <= MaxConns
  BY NumbersOfIds DEF Conns
<1>6. nextId > FirstId
  BY <1>2 DEF Basics, LaunchInv
<1>7. IsSeq(conn'[k].got) /\ conn'[k].fwd = 0
  BY NothingHeld DEF Spawns
<1>8. \A j \in Conns : conn'[j].fwd \in Nat /\ IsSeq(conn'[j].got)
  BY <1>7 DEF Spawns, Basics, FlowTypes
<1>9. /\ i \in Ids /\ i < nextId' /\ nextId' \in Nat /\ nextId <= nextId'
      /\ DOMAIN streams' = Ids /\ \A j \in Ids : streams'[j] \in {Absent, Unconnected} \cup Conns
      /\ \A j \in Conns \ {1} : conn'[j].at = "none" => nextId' <= FirstId + j - 1
      /\ i = nextId => k # 1
      /\ \A j \in Ids : streams'[j] \in Conns => streams'[j] = streams[j]
  <2>0. /\ DOMAIN streams = Ids /\ \A j \in Ids : streams[j] \in {Absent, Unconnected} \cup Conns
        /\ \A j \in Conns \ {1} : conn[j].at = "none" => nextId <= FirstId + j - 1
    BY DEF Basics, FlowTypes, IdsInv
  <2>1. CASE i = FirstId /\ UNCHANGED <<streams, nextId>>
    <3>1. \A j \in Conns : conn'[j].at = "none" => conn[j].at = "none"
      BY DEF Spawns
    <3>2. i # nextId /\ i < nextId /\ i \in Ids
      BY <1>5, <1>6, <2>1, NumbersOfIds
    <3> QED BY <1>5, <2>0, <2>1, <3>1, <3>2
  <2>2. CASE /\ i = nextId /\ nextId' = nextId + 1 /\ streams[FirstId] \in Conns
             /\ streams' = [streams EXCEPT ![nextId] = Unconnected]
    <3>1. k # 1
      <4> SUFFICES ASSUME k = 1 PROVE FALSE
        OBVIOUS
      <4>1. PICK j \in Conns : j = streams[FirstId] /\ conn[j].at \in {"forwarding", "mute"}
        BY <2>2, NumbersOfIds DEF Basics, IdsInv
      <4>2. j \in Nat /\ j >= 1 /\ j # 1
        BY <4>1 DEF Spawns, Conns
      <4>3. 1 < j /\ conn[1].at = "none"
        BY <4>2 DEF Spawns
      <4>4. conn[j].at = "none"
        BY <4>3 DEF Basics, IdsInv
      <4> QED BY <4>1, <4>4
    <3>2. nextId <= FirstId + k - 1
      BY <2>0, <3>1 DEF Spawns
    <3>3. nextId \in Ids
      BY <1>5, <3>2 DEF Ids
    <3>4. ASSUME NEW j \in Conns \ {1}, conn'[j].at = "none" PROVE nextId' <= FirstId + j - 1
      <4>1. j # k /\ conn[j].at = "none"
        BY <3>4 DEF Spawns
      <4>2. k < j
        BY <1>5, <4>1 DEF Spawns, Conns
      <4>3. j \in Nat
        BY DEF Conns
      <4> QED BY <1>5, <2>2, <3>2, <4>2, <4>3
    <3>5. \A j \in Ids : streams'[j] = IF j = nextId THEN Unconnected ELSE streams[j]
      BY <2>0, <2>2
    <3>6. DOMAIN streams' = Ids
      BY <2>0, <2>2
    <3>7. i < nextId' /\ nextId' \in Nat /\ nextId <= nextId'
      BY <1>5, <2>2
    <3> QED BY <2>0, <2>2, <3>1, <3>3, <3>4, <3>5, <3>6, <3>7, NumbersOfIds
  <2> QED BY <2>1, <2>2 DEF Spawns
<1>10. FlowTypes'
  <2>1. nextId' \in Nat /\ FirstId <= nextId'
    BY <1>5, <1>9
  <2> QED BY <1>4, <1>8, <1>9, <2>1 DEF Basics, FlowTypes
<1>11. PlaceInv'
  <2>1. /\ Taken /\ toClient' = toClient /\ conn[k].at = "none" /\ conn'[k].seq = Head(toServer).seq
        /\ \A j \in Conns : j # k => conn'[j] = conn[j]
    BY DEF Spawns
  <2> QED BY <1>1, <2>1, PlacesSpawn DEF Basics
<1>12. Head(toServer).seq \notin SetupSeqs
  <2> SUFFICES ASSUME NEW r \in pending, r.of = "setup", Head(toServer).seq = r.seq PROVE FALSE
    BY DEF SetupSeqs
  <2>1. step \in Nat \ {0} /\ step <= 4 /\ Head(toServer).m = Steps[step]
    BY <1>1 DEF Basics, SetupInv, LaunchInv
  <2> QED BY <1>1, <2>1 DEF Steps
<1>13. FrameTypes' /\ LaunchInv' /\ SetupInv'
  <2>1. /\ UNCHANGED clientVars /\ (toServer' = toServer \/ Taken)
        /\ Grows(toClient, toClient') /\ Behind(toClient, toClient') = {}
        /\ monitor' = monitor
    BY NothingBehind DEF Spawns
  <2>2. \A j \in Conns : conn'[j].at \in Owing =>
           (conn[j].at \in Owing /\ conn'[j].seq = conn[j].seq) \/ conn'[j].seq \notin SetupSeqs
    BY <1>12 DEF Spawns
  <2>3. nextId <= nextId' /\ nextId' \in Nat
    BY <1>9
  <2>4. ~OnPipe("allocatePorts")'
    BY <1>1, <1>3 DEF OnPipe
  <2> QED BY <1>2, <1>3, <2>1, <2>2, <2>3, <2>4, SessionLaunch
<1>14. IdsInv'
  <2>1. /\ \A j \in Conns : j # k => conn'[j] = conn[j]
        /\ conn'[k].at = "waiting" /\ conn'[k].fwd = 0
        /\ conn[k].at = "none" /\ \A j \in Conns : j < k => conn[j].at # "none"
    BY DEF Spawns
  <2>2. ASSUME NEW j \in Conns, NEW h \in Conns, j < h, conn'[j].at = "none"
        PROVE  conn'[h].at = "none"
    <3>1. j # k /\ conn[j].at = "none" /\ conn[h].at = "none"
      BY <2>1, <2>2 DEF Basics, IdsInv
    <3>2. h # k
      BY <2>1, <2>2, <3>1
    <3> QED BY <2>1, <3>1, <3>2
  <2>3. ASSUME NEW j \in Ids, streams'[j] \in Conns
        PROVE  conn'[streams'[j]].id = j /\ conn'[streams'[j]].at \in {"forwarding", "mute"}
    <3>1. PICK h \in Conns : h = streams[j] /\ h = streams'[j] /\ conn[h].id = j /\ conn[h].at \in {"forwarding", "mute"}
      BY <1>9, <2>3 DEF Basics, IdsInv
    <3>2. h # k
      BY <2>1, <3>1
    <3> QED BY <2>1, <3>1, <3>2
  <2>4. \A j \in Conns : conn'[j].at \in Owing \cup {"none"} => conn'[j].fwd = 0
    BY <2>1 DEF Basics, IdsInv
  <2> QED BY <1>9, <2>2, <2>3, <2>4 DEF IdsInv
<1> QED BY <1>9, <1>10, <1>11, <1>13, <1>14 DEF Basics, FlowTypes

LEMMA StreamBasics ==
  ASSUME IInv, Basics, UNCHANGED <<clientVars, nextId>>, toServer' = toServer \/ Taken,
         Grows(toClient, toClient'),
         \A p \in Behind(toClient, toClient') :
           Harmless(toClient'[p]) /\ (toClient'[p].m = "streamReady" => p = Len(toClient) + 1),
         PlaceInv', OwingStays,
         monitor' = monitor \/ (monitor = "found" /\ monitor' = "done"),
         monitor' \in {"none", "watching", "found"} =>
           UNCHANGED streams /\ \A k \in Conns : conn[k].at = "none" => conn'[k].at = "none",
         DOMAIN streams' = Ids, \A i \in Ids : streams'[i] \in {Absent, Unconnected} \cup Conns,
         \A k \in Conns : conn'[k].fwd \in Nat /\ IsSeq(conn'[k].got),
         \A k \in Conns : conn'[k].at = "none" <=> conn[k].at = "none",
         \A i \in Ids : streams'[i] \in Conns =>
           conn'[streams'[i]].id = i /\ conn'[streams'[i]].at \in {"forwarding", "mute"},
         \A k \in Conns : conn'[k].at \in Owing \cup {"none"} => conn'[k].fwd = 0
  PROVE  Basics'
<1>1. UNCHANGED <<sid, lsock, byId, got, fromBuf, asked, sockets, nextId>>
  BY DEF clientVars, localVars
<1>2. FlowTypes'
  BY <1>1 DEF Basics, FlowTypes
<1>3. IdsInv'
  BY <1>1 DEF Basics, IdsInv
<1>4. FrameTypes' /\ LaunchInv' /\ SetupInv'
  <2>1. nextId <= nextId' /\ nextId' \in Nat /\ nextId' = nextId
    BY DEF Basics, FlowTypes
  <2>2. \A k \in Conns : conn'[k].at \in Owing => conn[k].at \in Owing /\ conn'[k].seq = conn[k].seq
    BY DEF OwingStays
  <2> QED BY <2>1, <2>2, SessionLaunch
<1> QED BY <1>2, <1>3, <1>4 DEF Basics

LEMMA JoinsBasics ==
  ASSUME IInv, Basics, NEW k \in Conns, Joins(k)
  PROVE  Basics'
<1> DEFINE f == Answer(conn[k].seq, TRUE, conn[k].id)
<1>1. f.m = "response" /\ f.seq = conn[k].seq /\ Frame(f)
  BY DEF Answer, Joins
<1> HIDE DEF f
<1>2. /\ UNCHANGED <<clientVars, nextId, toServer, monitor>>
      /\ conn[k].at \in Owing /\ conn[k].at # "none"
      /\ \A j \in Conns : j # k => conn'[j] = conn[j]
      /\ conn'[k].at \in {"forwarding", "mute"} /\ conn'[k].at \notin Owing /\ conn'[k].at # "none"
      /\ conn'[k].id = conn[k].id /\ conn'[k].fwd = conn[k].fwd /\ conn'[k].got = conn[k].got
      /\ streams' = [streams EXCEPT ![conn[k].id] = k]
  BY DEF Joins, Owing
<1>3. /\ Grows(toClient, toClient')
      /\ \A p \in Behind(toClient, toClient') : p = Len(toClient) + 1 /\ toClient'[p] = f
  BY <1>1, FrameBehind
<1>4. PlaceInv'
  <2>1. toClient' = Append(toClient, f)
    BY <1>1 DEF Frame
  <2> QED BY <1>1, <1>2, <2>1, PlacesPay DEF Basics
<1>5. Harmless(f) /\ f.m # "streamReady"
  <2>1. f.seq \notin SetupSeqs
    BY <1>1, <1>2 DEF Basics, SetupInv, SetupSeqs
  <2> QED BY <1>1, <2>1 DEF Harmless
<1>6. OwingStays
  BY <1>2 DEF OwingStays
<1>7. monitor' \notin {"none", "watching", "found"}
  BY <1>2, Busy
<1>8. /\ DOMAIN streams' = Ids /\ \A i \in Ids : streams'[i] \in {Absent, Unconnected} \cup Conns
      /\ \A i \in Ids : streams'[i] = IF i = conn[k].id THEN k ELSE streams[i]
  BY <1>2 DEF Basics, FlowTypes
<1>9. \A i \in Ids : streams'[i] \in Conns =>
           conn'[streams'[i]].id = i /\ conn'[streams'[i]].at \in {"forwarding", "mute"}
  BY <1>2, <1>8 DEF Basics, IdsInv
<1>10. \A j \in Conns : /\ conn'[j].fwd \in Nat /\ IsSeq(conn'[j].got)
                        /\ conn'[j].at = "none" <=> conn[j].at = "none"
                        /\ conn'[j].at \in Owing \cup {"none"} => conn'[j].fwd = 0
  BY <1>2 DEF Basics, FlowTypes, IdsInv
<1> QED BY <1>2, <1>3, <1>4, <1>5, <1>6, <1>7, <1>8, <1>9, <1>10, StreamBasics

LEMMA SendsBasics ==
  ASSUME IInv, Basics, NEW k \in Conns, Sends(k)
  PROVE  Basics'
<1>1. PICK f : Frame(f) /\ f.m = "data"
  BY DEF Sends
<1>2. /\ UNCHANGED <<clientVars, nextId, toServer, monitor, streams>>
      /\ conn[k].at = "forwarding"
      /\ \A j \in Conns : j # k => conn'[j] = conn[j]
      /\ conn'[k].fwd = conn[k].fwd + 1
      /\ conn'[k].id = conn[k].id /\ conn'[k].seq = conn[k].seq /\ conn'[k].at = conn[k].at /\ conn'[k].got = conn[k].got
  BY DEF Sends
<1>3. /\ Grows(toClient, toClient')
      /\ \A p \in Behind(toClient, toClient') : p = Len(toClient) + 1 /\ toClient'[p] = f
  BY <1>1, FrameBehind
<1>4. Harmless(f) /\ f.m # "streamReady" /\ ~Marked(f)
  BY <1>1 DEF Harmless, Marked, Marks
<1>5. OwingStays
  BY <1>2 DEF OwingStays
<1>6. PlaceInv'
  BY <1>2, <1>3, <1>4, <1>5, PlacesStay DEF Basics
<1>7. monitor' \notin {"none", "watching", "found"}
  BY <1>2, Busy
<1>8. DOMAIN streams' = Ids /\ \A i \in Ids : streams'[i] \in {Absent, Unconnected} \cup Conns
  BY <1>2 DEF Basics, FlowTypes
<1>9. \A i \in Ids : streams'[i] \in Conns =>
           conn'[streams'[i]].id = i /\ conn'[streams'[i]].at \in {"forwarding", "mute"}
  BY <1>2 DEF Basics, IdsInv
<1>10. \A j \in Conns : /\ conn'[j].fwd \in Nat /\ IsSeq(conn'[j].got)
                        /\ conn'[j].at = "none" <=> conn[j].at = "none"
                        /\ conn'[j].at \in Owing \cup {"none"} => conn'[j].fwd = 0
  BY <1>2 DEF Basics, FlowTypes, IdsInv, Owing
<1> QED BY <1>2, <1>3, <1>4, <1>5, <1>6, <1>7, <1>8, <1>9, <1>10, StreamBasics

LEMMA ClosesBasics ==
  ASSUME IInv, Basics, NEW k \in Conns, Closes(k)
  PROVE  Basics'
<1>1. PICK f : Frame(f) /\ f.m = "streamClosed"
  BY DEF Closes
<1>2. /\ UNCHANGED <<clientVars, nextId, toServer, monitor>>
      /\ conn[k].at = "forwarding"
      /\ \A j \in Conns : j # k => conn'[j] = conn[j]
      /\ conn'[k].at = "gone"
      /\ conn'[k].id = conn[k].id /\ conn'[k].fwd = conn[k].fwd /\ conn'[k].got = conn[k].got
      /\ streams' = [streams EXCEPT ![conn[k].id] = Absent]
  BY DEF Closes
<1>3. /\ Grows(toClient, toClient')
      /\ \A p \in Behind(toClient, toClient') : p = Len(toClient) + 1 /\ toClient'[p] = f
  BY <1>1, FrameBehind
<1>4. Harmless(f) /\ f.m # "streamReady" /\ ~Marked(f)
  BY <1>1 DEF Harmless, Marked, Marks
<1>5. OwingStays
  BY <1>2 DEF OwingStays, Owing
<1>6. PlaceInv'
  BY <1>2, <1>3, <1>4, <1>5, PlacesStay DEF Basics
<1>7. monitor' \notin {"none", "watching", "found"}
  BY <1>2, Busy
<1>8. /\ DOMAIN streams' = Ids /\ \A i \in Ids : streams'[i] \in {Absent, Unconnected} \cup Conns
      /\ \A i \in Ids : streams'[i] = IF i = conn[k].id THEN Absent ELSE streams[i]
  BY <1>2 DEF Basics, FlowTypes
<1>9. \A i \in Ids : streams'[i] \in Conns =>
           conn'[streams'[i]].id = i /\ conn'[streams'[i]].at \in {"forwarding", "mute"}
  <2> SUFFICES ASSUME NEW i \in Ids, streams'[i] \in Conns
               PROVE  conn'[streams'[i]].id = i /\ conn'[streams'[i]].at \in {"forwarding", "mute"}
    OBVIOUS
  <2>1. i # conn[k].id /\ streams'[i] = streams[i]
    BY <1>8, NumbersOfIds
  <2>2. conn[streams[i]].id = i /\ conn[streams[i]].at \in {"forwarding", "mute"}
    BY <2>1 DEF Basics, IdsInv
  <2>3. streams[i] # k
    BY <2>1, <2>2
  <2> QED BY <1>2, <2>1, <2>2, <2>3
<1>10. \A j \in Conns : /\ conn'[j].fwd \in Nat /\ IsSeq(conn'[j].got)
                        /\ conn'[j].at = "none" <=> conn[j].at = "none"
                        /\ conn'[j].at \in Owing \cup {"none"} => conn'[j].fwd = 0
  BY <1>2 DEF Basics, FlowTypes, IdsInv, Owing
<1> QED BY <1>2, <1>3, <1>4, <1>5, <1>6, <1>7, <1>8, <1>9, <1>10, StreamBasics

LEMMA OpensBasics ==
  ASSUME IInv, Basics, Opens
  PROVE  Basics'
<1>1. PICK f : Frame(f) /\ f.m = "streamReady"
  BY DEF Opens
<1>2. /\ UNCHANGED <<clientVars, nextId, toServer, conn>>
      /\ monitor = "found" /\ monitor' = "done"
      /\ streams' = [streams EXCEPT ![FirstId] = Unconnected]
  BY DEF Opens
<1>3. /\ Grows(toClient, toClient')
      /\ \A p \in Behind(toClient, toClient') : p = Len(toClient) + 1 /\ toClient'[p] = f
  BY <1>1, FrameBehind
<1>4. Harmless(f) /\ ~Marked(f)
  BY <1>1, <1>2 DEF Harmless, Marked, Marks
<1>5. OwingStays
  BY <1>2 DEF OwingStays
<1>6. PlaceInv'
  BY <1>2, <1>3, <1>4, <1>5, PlacesStay DEF Basics
<1>8. /\ DOMAIN streams' = Ids /\ \A i \in Ids : streams'[i] \in {Absent, Unconnected} \cup Conns
      /\ \A i \in Ids : streams'[i] = IF i = FirstId THEN Unconnected ELSE streams[i]
  BY <1>2 DEF Basics, FlowTypes
<1>9. \A i \in Ids : streams'[i] \notin Conns
  BY <1>2, <1>8, NumbersOfIds DEF Basics, LaunchInv
<1>10. \A j \in Conns : /\ conn'[j].fwd \in Nat /\ IsSeq(conn'[j].got)
                        /\ conn'[j].at = "none" <=> conn[j].at = "none"
                        /\ conn'[j].at \in Owing \cup {"none"} => conn'[j].fwd = 0
  BY <1>2 DEF Basics, FlowTypes, IdsInv
<1> QED BY <1>2, <1>3, <1>4, <1>5, <1>6, <1>8, <1>9, <1>10, StreamBasics

LEMMA FeedsBasics ==
  ASSUME IInv, Basics, NEW k, Feeds(k)
  PROVE  Basics'
<1>2. /\ UNCHANGED <<clientVars, nextId, monitor, toClient, streams>> /\ Taken
      /\ Head(toServer).m = "data"
  BY DEF Feeds
<1>3. Grows(toClient, toClient') /\ Behind(toClient, toClient') = {}
  BY <1>2, NothingBehind
<1>4. \A j \in Conns : /\ conn'[j].at = conn[j].at /\ conn'[j].seq = conn[j].seq
                       /\ conn'[j].id = conn[j].id /\ conn'[j].fwd = conn[j].fwd
  BY DEF Feeds
<1>5. OwingStays
  BY <1>4 DEF OwingStays
<1>6. PlaceInv'
  BY <1>2, <1>3, <1>5, PlacesStay DEF Basics
<1>7. \A j \in Conns : IsSeq(conn'[j].got)
  <2>1. \A j \in Conns : IsSeq(conn[j].got)
    BY DEF Basics, FlowTypes
  <2>2. \A j \in Conns : j # k => conn'[j] = conn[j]
    BY DEF Feeds
  <2>3. PICK c : c = Head(toServer).chunk
    OBVIOUS
  <2>4. k \in Conns => conn'[k].got = conn[k].got \/ conn'[k].got = Append(conn[k].got, c)
    BY <2>3 DEF Feeds
  <2>5. k \in Conns => IsSeq(Append(conn[k].got, c))
    BY <2>1, AppendHeld
  <2> QED BY <2>1, <2>2, <2>4, <2>5
<1>8. DOMAIN streams' = Ids /\ \A i \in Ids : streams'[i] \in {Absent, Unconnected} \cup Conns
  BY <1>2 DEF Basics, FlowTypes
<1>9. \A i \in Ids : streams'[i] \in Conns =>
           conn'[streams'[i]].id = i /\ conn'[streams'[i]].at \in {"forwarding", "mute"}
  BY <1>2, <1>4 DEF Basics, IdsInv
<1>10. \A j \in Conns : /\ conn'[j].fwd \in Nat
                        /\ conn'[j].at = "none" <=> conn[j].at = "none"
                        /\ conn'[j].at \in Owing \cup {"none"} => conn'[j].fwd = 0
  BY <1>4 DEF Basics, FlowTypes, IdsInv
<1> QED BY <1>2, <1>3, <1>4, <1>5, <1>6, <1>7, <1>8, <1>9, <1>10, StreamBasics

LEMMA SessionBasics ==
  ASSUME IInv, Basics, SessionStep
  PROVE  Basics'
BY QuietBasics, SpawnBasics, JoinsBasics, SendsBasics, ClosesBasics, OpensBasics, FeedsBasics DEF SessionStep

-----------------------------------------------------------------------------
(* What the client keeps of its local clients *)

LocalTypes ==
  /\ DOMAIN byId = Ids \cup {NoId} /\ DOMAIN sid = Locals /\ DOMAIN lsock = Locals
  /\ DOMAIN got = Locals /\ DOMAIN fromBuf = Locals
  /\ \A l \in Locals : IsSeq(got[l]) /\ IsSeq(fromBuf[l])
  /\ asked \in [Locals -> Nat]
  /\ sockets \subseteq Locals

\* Nothing is known of a local client that has not been known.
OpenInv ==
  /\ \A r, q \in pending : r.seq = q.seq => r = q
  /\ \A l \in Locals : lsock[l] = "open" => l \in sockets
  /\ sockets # {} => server = "listening"

LEMMA FlowSplits ==
  ASSUME Basics, UNCHANGED remoteVars, LocalTypes'
  PROVE  FlowTypes'
<1>1. UNCHANGED <<nextId, streams, conn>>
  BY DEF remoteVars, streamVars
<1> QED BY <1>1 DEF Basics, FlowTypes, LocalTypes

LEMMA LocalsStay ==
  ASSUME Basics, UNCHANGED <<byId, sid, lsock, got, fromBuf, asked, sockets>>
  PROVE  LocalTypes'
BY DEF Basics, FlowTypes, LocalTypes

LEMMA EndedOpens ==
  ASSUME NEW rs
  PROVE  /\ DOMAIN Ended(rs) = Locals
         /\ \A l \in Locals : Ended(rs)[l] = lsock[l] \/ (Ended(rs)[l] = "ended" /\ \E r \in rs : r.of = l)
         /\ \A l \in Locals : lsock[l] # "open" \/ (\A r \in rs : r.of # l) => Ended(rs)[l] = lsock[l]
         /\ \A l \in Locals : lsock[l] = "open" /\ (\E r \in rs : r.of = l) => Ended(rs)[l] = "ended"
BY DEF Ended

LEMMA ServerCloses ==
  ASSUME Basics, OpenInv, NEW rs, CloseServer(rs)
  PROVE  /\ DOMAIN byId' = Ids \cup {NoId} /\ DOMAIN lsock' = Locals /\ sockets' = {}
         /\ \A l \in Locals : lsock'[l] # "open"
         /\ \A l \in Locals : l \notin sockets => lsock'[l] = lsock[l]
         /\ \A i \in Ids \cup {NoId} : byId'[i] = Nobody
         /\ server' = IF server = "none" THEN "none" ELSE "closed"
<1>1. /\ lsock' = [l \in Locals |-> IF l \in sockets THEN "gone" ELSE Ended(rs)[l]]
      /\ byId' = [i \in Ids \cup {NoId} |-> Nobody] /\ sockets' = {}
      /\ server' = IF server = "none" THEN "none" ELSE "closed"
  BY DEF CloseServer
<1>2. ASSUME NEW l \in Locals, l \notin sockets PROVE lsock'[l] = lsock[l] /\ lsock'[l] # "open"
  <2>1. lsock[l] # "open"
    BY <1>2 DEF OpenInv
  <2> QED BY <1>1, <1>2, <2>1, EndedOpens
<1> QED BY <1>1, <1>2

LEMMA SocketTypes ==
  ASSUME Basics, OpenInv, SocketCloses, UNCHANGED asked
  PROVE  LocalTypes' /\ OpenInv'
<1>1. /\ pending' = {} /\ UNCHANGED <<sid, got, fromBuf, asked>>
      /\ \/ CloseServer(pending)
         \/ lsock' = Ended(pending) /\ UNCHANGED <<server, sockets, byId>>
  BY DEF SocketCloses
<1>2. CASE CloseServer(pending)
  BY <1>1, <1>2, ServerCloses DEF Basics, FlowTypes, LocalTypes, OpenInv
<1>3. CASE lsock' = Ended(pending) /\ UNCHANGED <<server, sockets, byId>>
  <2>1. DOMAIN lsock' = Locals /\ \A l \in Locals : lsock'[l] = "open" => lsock[l] = "open"
    BY <1>3, EndedOpens
  <2>2. LocalTypes'
    BY <1>1, <1>3, <2>1 DEF Basics, FlowTypes, LocalTypes
  <2>3. OpenInv'
    BY <1>1, <1>3, <2>1 DEF OpenInv
  <2> QED BY <2>2, <2>3
<1> QED BY <1>1, <1>2, <1>3

LEMMA AnswerTypes ==
  ASSUME IInv, Basics, OpenInv, NEW r \in pending, NEW f, Answered(r, f)
  PROVE  LocalTypes' /\ OpenInv'
<1>1. pending' = pending \ {r} /\ UNCHANGED <<server, sockets, asked>>
  BY DEF Answered
<1>2. CASE r.of \notin Locals
  <2>1. UNCHANGED <<lsock, byId, sid, fromBuf, got>>
    BY <1>2 DEF Answered
  <2> QED BY <1>1, <2>1, LocalsStay DEF OpenInv
<1>3. CASE r.of \in Locals
  <2> DEFINE l == r.of
  <2>1. StreamAnswered(r, f)
    BY <1>3 DEF Answered
  <2>2. CASE ~f.ok
    <3>1. lsock' = Ended({r}) /\ UNCHANGED <<byId, sid, fromBuf, got>>
      BY <2>1, <2>2 DEF StreamAnswered
    <3>2. DOMAIN lsock' = Locals /\ \A m \in Locals : lsock'[m] = "open" => lsock[m] = "open"
      BY <3>1, EndedOpens
    <3> QED BY <1>1, <3>1, <3>2 DEF Basics, FlowTypes, LocalTypes, OpenInv
  <2>3. CASE f.ok
    <3>1. PICK i : SetStreamId(l, i)
      BY <2>1, <2>3 DEF StreamAnswered
    <3>2. lsock' = lsock \/ lsock' = Ended({r})
      BY <2>1, <2>3 DEF StreamAnswered
    <3>3. DOMAIN lsock' = Locals /\ \A m \in Locals : lsock'[m] = "open" => lsock[m] = "open"
      BY <3>2, EndedOpens DEF Basics, FlowTypes
    <3>4. DOMAIN byId' = Ids \cup {NoId} /\ DOMAIN sid' = Locals
      BY <1>3, <3>1 DEF SetStreamId, Basics, FlowTypes
    <3>5. /\ DOMAIN got' = Locals /\ DOMAIN fromBuf' = Locals
          /\ \A m \in Locals : IsSeq(got'[m]) /\ IsSeq(fromBuf'[m])
      <4>1. /\ DOMAIN got = Locals /\ DOMAIN fromBuf = Locals
            /\ \A m \in Locals : IsSeq(got[m]) /\ IsSeq(fromBuf[m])
        BY DEF Basics, FlowTypes
      <4>2. /\ got' = got \/ got' = [got EXCEPT ![l] = got[l] \o fromBuf[l]]
            /\ fromBuf' = [fromBuf EXCEPT ![l] = << >>]
        BY <3>1 DEF SetStreamId
      <4>3. IsSeq(got[l] \o fromBuf[l]) /\ IsSeq(<< >>)
        BY <1>3, <4>1, ConcatHeld, NothingHeld
      <4> DEFINE x == got[l] \o fromBuf[l]
      <4>4. got' = got \/ got' = [got EXCEPT ![l] = x]
        BY <4>2
      <4> HIDE DEF x, l
      <4>5. IsSeq(x)
        BY <4>3 DEF x
      <4> QED BY <4>1, <4>2, <4>3, <4>4, <4>5
    <3> QED BY <1>1, <3>3, <3>4, <3>5 DEF Basics, FlowTypes, LocalTypes, OpenInv
  <2> QED BY <2>2, <2>3
<1> QED BY <1>2, <1>3

LEMMA AskOpens ==
  ASSUME IInv, OpenInv, NEW who, NEW method, NEW id, NEW dup, Ask(who, method, id, dup)
  PROVE  \A r, q \in pending' : r.seq = q.seq => r = q
<1> DEFINE n == [seq |-> nextSeq, of |-> who, dup |-> dup]
<1>1. pending' = pending \cup {n} /\ n.seq = nextSeq
  BY DEF Ask
<1> HIDE DEF n
<1>2. \A r \in pending : r.seq # nextSeq
  BY DEF IInv, NumberInv
<1> QED BY <1>1, <1>2 DEF OpenInv

LEMMA ReceiveTypes ==
  ASSUME IInv, Basics, OpenInv, Receive
  PROVE  LocalTypes' /\ OpenInv'
<1> DEFINE f == Head(toClient)
<1>0. toClient # << >> /\ f \in Held(toClient)
  BY PipesAreSeqs, TailHeld DEF Receive
<1>1. ASSUME NEW r \in pending, Answered(r, f)
      PROVE  LocalTypes' /\ OpenInv'
  <2> HIDE DEF f
  <2> QED BY <1>1, AnswerTypes
<1>2. CASE Ignored \/ ServerExitHeard
  <2>1. UNCHANGED <<byId, sid, lsock, got, fromBuf, asked, sockets, pending, server>>
    BY <1>2 DEF Ignored, ServerExitHeard, clientVars, localVars, linkVars
  <2> QED BY <2>1, LocalsStay DEF OpenInv
<1>3. CASE f.m = "streamReady" /\ StreamReady(f.id)
  <2>1. UNCHANGED <<byId, sid, lsock, got, fromBuf, asked, sockets, pending>>
    BY <1>3 DEF StreamReady, linkVars
  <2>2. Heralded
    BY <1>0, <1>3 DEF Heralded
  <2>3. sockets = {}
    BY <2>2 DEF Basics, LaunchInv, OpenInv
  <2> QED BY <2>1, <2>3, LocalsStay DEF OpenInv
<1>4. CASE RemoteClosed(f.id)
  <2>1. UNCHANGED <<sid, got, fromBuf, asked, pending>>
    BY <1>4 DEF RemoteClosed, linkVars
  <2>2. CASE CloseServer({})
    BY <2>1, <2>2, ServerCloses DEF Basics, FlowTypes, LocalTypes, OpenInv
  <2>3. CASE UNCHANGED <<server, lsock, sockets, byId>>
    BY <2>1, <2>3, LocalsStay DEF OpenInv
  <2> QED BY <1>4, <2>2, <2>3 DEF RemoteClosed
<1>5. CASE FromProxy(f.id, f.chunk)
  <2>1. UNCHANGED <<byId, sid, lsock, asked, sockets, pending, server>>
    BY <1>5 DEF FromProxy, linkVars
  <2>2. PICK l, c : /\ got' = got \/ got' = [got EXCEPT ![l] = Append(got[l], c)]
                    /\ fromBuf' = fromBuf \/ fromBuf' = [fromBuf EXCEPT ![l] = Append(fromBuf[l], c)]
    BY <1>5 DEF FromProxy
  <2>3. /\ DOMAIN got = Locals /\ DOMAIN fromBuf = Locals
        /\ \A m \in Locals : IsSeq(got[m]) /\ IsSeq(fromBuf[m])
    BY DEF Basics, FlowTypes
  <2> DEFINE x == Append(got[l], c)
  <2> DEFINE y == Append(fromBuf[l], c)
  <2>4. l \in Locals => IsSeq(x) /\ IsSeq(y)
    BY <2>3, AppendHeld
  <2>5. (got' = got \/ got' = [got EXCEPT ![l] = x]) /\ (fromBuf' = fromBuf \/ fromBuf' = [fromBuf EXCEPT ![l] = y])
    BY <2>2
  <2> HIDE DEF x, y
  <2>6. /\ DOMAIN got' = Locals /\ DOMAIN fromBuf' = Locals
        /\ \A m \in Locals : IsSeq(got'[m]) /\ IsSeq(fromBuf'[m])
    BY <2>3, <2>4, <2>5
  <2> QED BY <2>1, <2>6 DEF Basics, FlowTypes, LocalTypes, OpenInv
<1>6. CASE EofHeard
  BY <1>6, SocketTypes DEF EofHeard
<1>7. \/ \E r \in pending : Answered(r, f)
      \/ Ignored \/ (f.m = "streamReady" /\ StreamReady(f.id)) \/ RemoteClosed(f.id) \/ FromProxy(f.id, f.chunk)
      \/ ServerExitHeard \/ EofHeard
  BY DEF Receive
<1> QED BY <1>1, <1>2, <1>3, <1>4, <1>5, <1>6, <1>7

LEMMA ClientTypes ==
  ASSUME IInv, Basics, OpenInv, Client \/ LinkFreezes \/ LinkBreaks
  PROVE  LocalTypes' /\ OpenInv'
<1>1. CASE SendSetup \/ ExitTimer \/ LaunchTimer \/ SpawnsLocally \/ LinkFreezes
  <2>1. UNCHANGED <<byId, sid, lsock, got, fromBuf, asked, sockets, server>>
    BY <1>1 DEF SendSetup, ExitTimer, LaunchTimer, SpawnsLocally, LinkFreezes, localVars
  <2>2. pending' = pending \/ (SendSetup /\ Ask("setup", Steps[step], 0, FALSE))
    BY <1>1 DEF SendSetup, ExitTimer, LaunchTimer, SpawnsLocally, LinkFreezes, linkVars
  <2>3. \A r, q \in pending' : r.seq = q.seq => r = q
    BY <2>2, AskOpens DEF OpenInv
  <2> QED BY <2>1, <2>3, LocalsStay DEF OpenInv
<1>2. CASE Receive
  BY <1>2, ReceiveTypes
<1>3. CASE Listening
  <2>1. UNCHANGED <<byId, sid, lsock, got, fromBuf, asked, sockets, pending>> /\ server = "opening"
    BY <1>3 DEF Listening, linkVars
  <2> QED BY <2>1, LocalsStay DEF OpenInv
<1>4. CASE CloseTimer \/ LinkBreaks
  BY <1>4, SocketTypes DEF CloseTimer, LinkBreaks
<1>5. ASSUME NEW r \in pending, Timeout(r)
      PROVE  LocalTypes' /\ OpenInv'
  <2>1. pending' = pending \ {r} /\ lsock' = Ended({r}) /\ UNCHANGED <<byId, sid, got, fromBuf, asked, sockets, server>>
    BY <1>5 DEF Timeout
  <2>2. DOMAIN lsock' = Locals /\ \A m \in Locals : lsock'[m] = "open" => lsock[m] = "open"
    BY <2>1, EndedOpens
  <2> QED BY <2>1, <2>2 DEF Basics, FlowTypes, LocalTypes, OpenInv
<1>6. CASE Stop
  <2>1. UNCHANGED <<sid, got, fromBuf, asked>>
    BY <1>6 DEF Stop
  <2>2. CASE Ask("stop", "endSession", 0, FALSE) /\ UNCHANGED <<server, lsock, sockets, byId>>
    BY <2>1, <2>2, AskOpens, LocalsStay DEF OpenInv
  <2>3. CASE CloseServer({}) /\ UNCHANGED pending
    BY <2>1, <2>3, ServerCloses DEF Basics, FlowTypes, LocalTypes, OpenInv
  <2> QED BY <1>6, <2>2, <2>3 DEF Stop
<1>7. ASSUME NEW l \in Locals, Connect(l)
      PROVE  LocalTypes' /\ OpenInv'
  <2>1. server = "listening" /\ UNCHANGED <<server, got, fromBuf, asked>>
    BY <1>7 DEF Connect
  <2>2. \A r, q \in pending' : r.seq = q.seq => r = q
    <3>1. pending' = pending \/ \E method, id, dup : Ask(l, method, id, dup)
      BY <1>7 DEF Connect
    <3> QED BY <3>1, AskOpens DEF OpenInv
  <2>3. /\ lsock' = [lsock EXCEPT ![l] = "ended"] \/ lsock' = [lsock EXCEPT ![l] = "open"]
        /\ lsock' = [lsock EXCEPT ![l] = "open"] => sockets' = sockets \cup {l}
        /\ sockets' = sockets \/ sockets' = sockets \cup {l}
        /\ sid' = sid \/ sid' = [sid EXCEPT ![l] = FirstId]
        /\ byId' = byId \/ byId' = [byId EXCEPT ![FirstId] = l] \/ byId' = [byId EXCEPT ![NoId] = l]
    <3>1. DOMAIN lsock = Locals
      BY DEF Basics, FlowTypes
    <3>2. [lsock EXCEPT ![l] = "ended"] # [lsock EXCEPT ![l] = "open"]
      BY <3>1
    <3> QED BY <1>7, <3>2 DEF Connect
  <2>4. /\ DOMAIN lsock' = Locals /\ DOMAIN sid' = Locals /\ DOMAIN byId' = Ids \cup {NoId}
        /\ sockets' \subseteq Locals
    BY <2>3 DEF Basics, FlowTypes
  <2>5. \A m \in Locals : lsock'[m] = "open" => m \in sockets'
    <3>1. DOMAIN lsock = Locals
      BY DEF Basics, FlowTypes
    <3> QED BY <2>3, <3>1 DEF OpenInv
  <2> QED BY <2>1, <2>2, <2>4, <2>5 DEF Basics, FlowTypes, LocalTypes, OpenInv
<1>8. ASSUME NEW l \in Locals, LocalCloses(l)
      PROVE  LocalTypes' /\ OpenInv'
  <2>1. /\ lsock' = [lsock EXCEPT ![l] = "gone"] /\ sockets' = sockets \ {l}
        /\ DOMAIN byId' = Ids \cup {NoId}
        /\ UNCHANGED <<sid, got, fromBuf, asked, pending, server>>
    BY <1>8 DEF LocalCloses, linkVars
  <2> QED BY <2>1 DEF Basics, FlowTypes, LocalTypes, OpenInv
<1>9. ASSUME NEW l \in Locals, LocalSends(l)
      PROVE  LocalTypes' /\ OpenInv'
  <2>1. /\ asked' = [asked EXCEPT ![l] = @ + 1]
        /\ UNCHANGED <<byId, sid, lsock, got, fromBuf, sockets, pending, server>>
    BY <1>9 DEF LocalSends, linkVars
  <2> QED BY <2>1 DEF Basics, FlowTypes, LocalTypes, OpenInv
<1> QED BY <1>1, <1>2, <1>3, <1>4, <1>5, <1>6, <1>7, <1>8, <1>9, ClientAssumption DEF Client, Timers

-----------------------------------------------------------------------------
(* The steps of the client keep what is basic *)

\* How far the launch is.
Advance ==
  \/ UNCHANGED <<step, outcome>> /\ (Waiting("setup") => Waiting("setup")')
  \/ SetupFails /\ ~Waiting("setup")'
  \/ /\ step' = step + 1 /\ UNCHANGED outcome /\ ~Waiting("setup")'
     /\ \E r \in pending, f \in Held(toClient) :
          r.of = "setup" /\ f.m = "response" /\ f.seq = r.seq /\ f.ok
  \/ UNCHANGED <<step, pending>> /\ outcome' # "pending"

LEMMA AdvanceKeeps ==
  ASSUME IInv, Basics, Advance
  PROVE  /\ step' \in Nat \ {0} /\ step <= step' /\ step' \in {step, step + 1}
         /\ Unsent(2)' => Unsent(2)
         /\ Unsent(4)' => Unsent(4)
         /\ step' # step => ~Waiting("setup")'
         /\ step' # step /\ step >= 2 =>
              \E r \in pending, f \in Held(toClient) :
                r.of = "setup" /\ f.m = "response" /\ f.seq = r.seq /\ f.ok
<1>1. step \in Nat \ {0}
  BY DEF Basics, LaunchInv
<1>2. CASE UNCHANGED <<step, outcome>> /\ (Waiting("setup") => Waiting("setup")')
  BY <1>1, <1>2 DEF Unsent
<1>3. CASE SetupFails /\ ~Waiting("setup")'
  <2>1. (step = 1 /\ step' = 2) \/ (step' = step /\ outcome' # "pending")
    BY <1>3 DEF SetupFails
  <2> QED BY <1>1, <1>3, <2>1 DEF Unsent
<1>4. CASE /\ step' = step + 1 /\ UNCHANGED outcome /\ ~Waiting("setup")'
           /\ \E r \in pending, f \in Held(toClient) :
                r.of = "setup" /\ f.m = "response" /\ f.seq = r.seq /\ f.ok
  BY <1>1, <1>4 DEF Unsent
<1>5. CASE UNCHANGED <<step, pending>> /\ outcome' # "pending"
  BY <1>1, <1>5 DEF Unsent
<1> QED BY <1>2, <1>3, <1>4, <1>5 DEF Advance

\* The client takes at most the first frame that has arrived.
Hears == toClient' = toClient \/ (toClient # << >> /\ toClient' = Tail(toClient))

\* It sends data, the end, or a request of its own.
Utters(f, p) ==
  \/ f.m \in {"data", "eof"}
  \/ /\ p = Len(toServer) + 1 /\ f.seq = nextSeq
     /\ f.m = "endSession" \/ (f.m \in {"startStream", "duplicateStream"} /\ f.id = FirstId)

Speaks ==
  \/ toServer' = <<Eof>>
  \/ Grows(toServer, toServer') /\ \A p \in Behind(toServer, toServer') : Utters(toServer'[p], p)

LEMMA SpeaksHeld ==
  ASSUME IInv, Speaks
  PROVE  \A f \in Held(toServer') :
           \/ f \in Held(toServer)
           \/ f.m \in {"data", "eof"}
           \/ /\ f.seq = nextSeq
              /\ f.m = "endSession" \/ (f.m \in {"startStream", "duplicateStream"} /\ f.id = FirstId)
<1>1. CASE toServer' = <<Eof>>
  <2>1. Held(toServer') = {Eof} /\ Eof.m = "eof"
    BY <1>1, OneHeld DEF Eof
  <2> QED BY <2>1
<1>2. CASE Grows(toServer, toServer') /\ \A p \in Behind(toServer, toServer') : Utters(toServer'[p], p)
  BY <1>2, PipesAreSeqs, GrowsHeld DEF Utters
<1> QED BY <1>1, <1>2 DEF Speaks

LEMMA HearsHeld ==
  ASSUME IInv, Basics, Hears
  PROVE  /\ Held(toClient') \subseteq Held(toClient) /\ Single(toClient')
         /\ toClient # << >> /\ Head(toClient).m = "streamReady" /\ toClient' = Tail(toClient) =>
              Heralded /\ ~Heralded'
<1>1. Held(toClient') \subseteq Held(toClient)
  BY PipesAreSeqs, TailHeld DEF Hears
<1>2. Single(toClient)
  BY DEF Basics, LaunchInv
<1>3. CASE toClient' = toClient
  <2>1. toClient # << >> => toClient' # Tail(toClient)
    <3>1. toClient # << >> => Len(Tail(toClient)) = Len(toClient) - 1 /\ Len(toClient) \in Nat
      BY PipesAreSeqs, TailAt
    <3> QED BY <1>3, <3>1
  <2> QED BY <1>1, <1>2, <1>3, <2>1
<1>4. CASE toClient # << >> /\ toClient' = Tail(toClient)
  <2> DEFINE t == Tail(toClient)
  <2>1. /\ Len(toClient) \in Nat \ {0} /\ Len(t) = Len(toClient) - 1 /\ Head(toClient) = toClient[1]
        /\ \A p \in 1 .. Len(t) : t[p] = toClient[p + 1]
    BY <1>4, PipesAreSeqs, TailAt
  <2>2. toClient' = t
    BY <1>4
  <2> HIDE DEF t
  <2>3. \A p \in 1 .. Len(t) : p + 1 \in 1 .. Len(toClient) /\ t[p] = toClient[p + 1] /\ p + 1 # 1
    BY <2>1
  <2>4. 1 \in 1 .. Len(toClient)
    BY <2>1
  <2>5. Single(t)
    <3> SUFFICES ASSUME NEW p \in 1 .. Len(t), NEW q \in 1 .. Len(t),
                        t[p].m = "streamReady", t[q].m = "streamReady"
                 PROVE  p = q
      BY DEF Single
    <3>1. p + 1 = q + 1
      BY <1>2, <2>3 DEF Single
    <3> QED BY <3>1
  <2>6. ASSUME Head(toClient).m = "streamReady" PROVE Heralded /\ ~Heralded'
    <3>1. Heralded
      BY <2>1, <2>4, <2>6, HeldAt DEF Heralded
    <3>2. ASSUME NEW f \in Held(t), f.m = "streamReady" PROVE FALSE
      <4>1. PICK p \in 1 .. Len(t) : f = t[p]
        BY HeldAt
      <4>2. toClient[p + 1].m = "streamReady" /\ p + 1 \in 1 .. Len(toClient) /\ p + 1 # 1
        BY <2>3, <3>2, <4>1
      <4> QED BY <1>2, <2>1, <2>4, <2>6, <4>2 DEF Single
    <3> QED BY <2>2, <3>1, <3>2 DEF Heralded
  <2> QED BY <1>1, <2>2, <2>5, <2>6
<1> QED BY <1>3, <1>4 DEF Hears

LEMMA ClientBasics ==
  ASSUME IInv, Basics, LocalTypes', UNCHANGED remoteVars, Hears, Speaks, Advance,
         \A r \in pending' : r.of = "setup" => r \in pending,
         server = "none" =>
           server' = "none" \/ (toClient # << >> /\ Head(toClient).m = "streamReady" /\ toClient' = Tail(toClient))
  PROVE  Basics'
<1>1. UNCHANGED <<nextId, streams, conn, monitor>>
  BY DEF remoteVars, streamVars, threadVars
<1>2. FlowTypes'
  BY FlowSplits
<1>3. IdsInv'
  BY <1>1 DEF Basics, IdsInv
<1>4. \A f \in Held(toServer') :
           \/ f \in Held(toServer)
           \/ f.m \in {"data", "eof"}
           \/ /\ f.seq = nextSeq
              /\ f.m = "endSession" \/ (f.m \in {"startStream", "duplicateStream"} /\ f.id = FirstId)
  BY SpeaksHeld
<1>5. /\ Held(toClient') \subseteq Held(toClient) /\ Single(toClient')
      /\ toClient # << >> /\ Head(toClient).m = "streamReady" /\ toClient' = Tail(toClient) =>
           Heralded /\ ~Heralded'
  BY HearsHeld
<1>6. FrameTypes'
  BY <1>4, <1>5 DEF Basics, FrameTypes, Marked, Marks, Numbered
<1>7. PlaceInv'
  <2>1. \/ Grows(toServer, toServer') /\ \A p \in Behind(toServer, toServer') :
             Marked(toServer'[p]) => p = Len(toServer) + 1 /\ toServer'[p].seq = nextSeq
        \/ toServer' = <<Eof>>
    BY DEF Speaks, Utters, Marked, Marks
  <2> QED BY <1>1, <2>1, ClientPlaces DEF Hears, Basics
<1>8. /\ step' \in Nat \ {0} /\ step <= step' /\ step' \in {step, step + 1}
      /\ Unsent(2)' => Unsent(2)
      /\ Unsent(4)' => Unsent(4)
      /\ step' # step => ~Waiting("setup")'
      /\ step' # step /\ step >= 2 =>
           \E r \in pending, f \in Held(toClient) :
             r.of = "setup" /\ f.m = "response" /\ f.seq = r.seq /\ f.ok
  BY AdvanceKeeps
<1>9. \A m \in {"allocatePorts", "startGdbServer"} : OnPipe(m)' => OnPipe(m)
  BY <1>4 DEF OnPipe
<1>10. Heralded' => Heralded
  BY <1>5 DEF Heralded
<1>11. step \in Nat \ {0}
  BY DEF Basics, LaunchInv
<1>12. step' # step /\ step >= 2 => ~OnPipe("allocatePorts") /\ nextId > FirstId
  <2> SUFFICES ASSUME step' # step, step >= 2 PROVE ~OnPipe("allocatePorts") /\ nextId > FirstId
    OBVIOUS
  <2>1. PICK r \in pending, f \in Held(toClient) : r.of = "setup" /\ f.m = "response" /\ f.seq = r.seq /\ f.ok
    BY <1>8
  <2>2. ASSUME OnPipe("allocatePorts") PROVE FALSE
    <3>1. PICK g \in Held(toServer) : g.m = "allocatePorts" /\ g.seq = r.seq
      BY <2>1, <2>2 DEF OnPipe, Basics, SetupInv
    <3>2. g.seq \in Seqs(toServer) /\ f.seq \in Seqs(toClient)
      BY <2>1, <3>1, HeldAt, SeqsOf DEF Marked, Marks
    <3> QED BY <2>1, <3>1, <3>2 DEF Basics, PlaceInv
  <2>3. nextId > FirstId
    <3>1. CASE step = 2
      BY <2>1, <3>1 DEF Basics, SetupInv
    <3>2. CASE step # 2
      BY <1>11, <3>2 DEF Basics, LaunchInv
    <3> QED BY <3>1, <3>2
  <2> QED BY <2>2, <2>3
<1>13. LaunchInv'
  <2>1. \A f, g \in Held(toServer') :
          f.m = g.m /\ f.m \in {"allocatePorts", "startGdbServer"} => f.seq = g.seq
    BY <1>4 DEF Basics, LaunchInv
  <2>2. OnPipe("allocatePorts")' => step' = 2 /\ nextId' = FirstId
    <3>1. OnPipe("allocatePorts") => step = 2 /\ nextId = FirstId
      BY DEF Basics, LaunchInv
    <3> QED BY <1>1, <1>9, <1>12, <3>1
  <2>3. Unsent(2)' => ~OnPipe("allocatePorts")' /\ nextId' = FirstId
    BY <1>1, <1>8, <1>9 DEF Basics, LaunchInv
  <2>4. step' >= 3 => nextId' > FirstId
    <3>1. step >= 3 => nextId > FirstId
      BY DEF Basics, LaunchInv
    <3> QED BY <1>1, <1>8, <1>11, <1>12, <3>1
  <2>5. OnPipe("startGdbServer")' \/ Unsent(4)' => monitor' = "none"
    BY <1>1, <1>8, <1>9 DEF Basics, LaunchInv
  <2>6. OnPipe("startGdbServer")' \/ Unsent(4)' \/ monitor' \in {"watching", "found"} => ~Heralded' /\ server' = "none"
    <3>1. OnPipe("startGdbServer") \/ Unsent(4) \/ monitor \in {"watching", "found"} => ~Heralded /\ server = "none"
      BY DEF Basics, LaunchInv
    <3> QED BY <1>1, <1>5, <1>8, <1>9, <1>10, <3>1
  <2>7. OnPipe("startGdbServer")' \/ monitor' # "none" => step' >= 4
    <3>1. OnPipe("startGdbServer") \/ monitor # "none" => step >= 4
      BY DEF Basics, LaunchInv
    <3> QED BY <1>1, <1>8, <1>9, <1>11, <3>1
  <2>8. Unsent(4)' => ~OnPipe("startGdbServer")'
    BY <1>8, <1>9 DEF Basics, LaunchInv
  <2>9. Heralded' => server' = "none"
    BY <1>5, <1>10 DEF Basics, LaunchInv
  <2>10. monitor' \in {"none", "watching", "found"} =>
           (\A i \in Ids : streams'[i] = Absent) /\ \A k \in Conns : conn'[k].at = "none"
    BY <1>1 DEF Basics, LaunchInv
  <2> QED BY <1>5, <1>8, <2>1, <2>2, <2>3, <2>4, <2>5, <2>6, <2>7, <2>8, <2>9, <2>10 DEF LaunchInv
<1>14. SetupInv'
  <2>1. \A r, q \in pending' : r.of = "setup" /\ q.of = "setup" => r = q
    BY DEF Basics, SetupInv
  <2>2. ASSUME NEW r \in pending', r.of = "setup"
        PROVE  /\ step' <= 4
               /\ \A f \in Held(toServer') : Numbered(f) /\ f.seq = r.seq => f.m = Steps[step']
               /\ \A f \in Held(toServer') : f.m = "allocatePorts" => f.seq = r.seq
               /\ \A k \in Conns : conn'[k].at \in Owing => conn'[k].seq # r.seq
               /\ step' = 2 => \A f \in Held(toClient') : f.m = "response" /\ f.seq = r.seq /\ f.ok => nextId' > FirstId
    <3>1. step' = step
      BY <1>8, <2>2 DEF Waiting
    <3>2. r \in pending /\ r.seq # nextSeq
      BY <2>2 DEF IInv, NumberInv
    <3>3. \A f \in Held(toServer') : Numbered(f) => f \in Held(toServer) \/ (f.seq = nextSeq /\ f.m # "allocatePorts")
      BY <1>4 DEF Numbered
    <3>4. \A f \in Held(toServer') : f.m = "allocatePorts" => Numbered(f)
      BY DEF Numbered
    <3> QED BY <1>1, <1>5, <2>2, <3>1, <3>2, <3>3, <3>4 DEF Basics, SetupInv
  <2> QED BY <2>1, <2>2 DEF SetupInv
<1> QED BY <1>2, <1>3, <1>6, <1>7, <1>13, <1>14 DEF Basics

-----------------------------------------------------------------------------
(* Each step of the client *)

LEMMA SaysNothing ==
  ASSUME IInv, UNCHANGED toServer
  PROVE  Speaks
<1>1. IsSeq(toServer) /\ Len(toServer) \in Nat
  BY PipesAreSeqs, LenIsNat
<1> QED BY <1>1 DEF Speaks, Grows, Behind

\* What is posted is put behind.
LEMMA PostGrows ==
  ASSUME IInv, NEW fs, IsSeq(fs), Post(fs)
  PROVE  /\ Len(toServer) \in Nat /\ Len(fs) \in Nat /\ Grows(toServer, toServer')
         /\ \A p \in Behind(toServer, toServer') :
              csock = "open" /\ p - Len(toServer) \in 1 .. Len(fs) /\ toServer'[p] = fs[p - Len(toServer)]
<1>1. IsSeq(toServer) /\ Len(toServer) \in Nat /\ Len(fs) \in Nat
  BY PipesAreSeqs, LenIsNat
<1>2. CASE csock = "open"
  <2>1. toServer' = toServer \o fs
    BY <1>2 DEF Post
  <2> QED BY <1>1, <1>2, <2>1, ConcatGrows
<1>3. CASE csock # "open"
  <2>1. toServer' = toServer
    BY <1>3 DEF Post
  <2> QED BY <1>1, <2>1 DEF Grows, Behind
<1> QED BY <1>2, <1>3

LEMMA OneIsSeq ==
  ASSUME NEW f
  PROVE  IsSeq(<<f>>) /\ Len(<<f>>) = 1 /\ <<f>>[1] = f
BY OneHeld

LEMMA PostsOne ==
  ASSUME IInv, NEW f, Post(<<f>>)
  PROVE  /\ Len(toServer) \in Nat /\ Grows(toServer, toServer')
         /\ \A p \in Behind(toServer, toServer') : csock = "open" /\ p = Len(toServer) + 1 /\ toServer'[p] = f
<1> DEFINE t == <<f>>
<1>1. IsSeq(t) /\ Len(t) = 1 /\ t[1] = f /\ Post(t)
  BY OneIsSeq
<1> HIDE DEF t
<1>2. /\ Len(toServer) \in Nat /\ Grows(toServer, toServer')
      /\ \A p \in Behind(toServer, toServer') :
           csock = "open" /\ p - Len(toServer) \in 1 .. Len(t) /\ toServer'[p] = t[p - Len(toServer)]
  BY <1>1, PostGrows
<1>3. ASSUME NEW p \in Behind(toServer, toServer')
      PROVE  csock = "open" /\ p = Len(toServer) + 1 /\ toServer'[p] = f
  <2>1. csock = "open" /\ p - Len(toServer) \in 1 .. 1 /\ toServer'[p] = t[p - Len(toServer)]
    BY <1>1, <1>2
  <2>2. p \in Int
    BY DEF Behind
  <2>3. p - Len(toServer) = 1 /\ p = Len(toServer) + 1
    BY <1>2, <2>1, <2>2
  <2> QED BY <1>1, <2>1, <2>3
<1> QED BY <1>2, <1>3

LEMMA SaysOne ==
  ASSUME IInv, NEW f, Post(<<f>>), Utters(f, Len(toServer) + 1)
  PROVE  Speaks
BY PostsOne DEF Speaks

LEMMA SaysEof ==
  ASSUME IInv, HalfClose
  PROVE  Speaks
<1>1. IsSeq(toServer) /\ toServer' = Append(toServer, Eof)
  BY PipesAreSeqs DEF HalfClose
<1>2. Eof.m = "eof"
  BY DEF Eof
<1>3. Grows(toServer, toServer') /\ \A p \in Behind(toServer, toServer') : toServer'[p] = Eof
  BY <1>1, AppendGrows
<1> QED BY <1>2, <1>3 DEF Speaks, Utters

\* The frames of what a stream had buffered.
BufferFrames(buf, i) == [n \in 1 .. Len(buf) |-> [m |-> "data", id |-> i, chunk |-> buf[n]]]

LEMMA BuffersAre ==
  ASSUME NEW buf, IsSeq(buf), NEW i
  PROVE  /\ IsSeq(BufferFrames(buf, i)) /\ Len(BufferFrames(buf, i)) = Len(buf) /\ Len(buf) \in Nat
         /\ \A n \in 1 .. Len(buf) :
              IsChunk(BufferFrames(buf, i)[n], i) /\ BufferFrames(buf, i)[n].chunk = buf[n]
<1> DEFINE fs == BufferFrames(buf, i)
<1>1. Len(buf) \in Nat
  BY LenIsNat
<1>2. \A n \in 1 .. Len(buf) : IsChunk(fs[n], i) /\ fs[n].chunk = buf[n]
  BY DEF BufferFrames, IsChunk
<1>3. DOMAIN fs = 1 .. Len(buf) /\ fs = [n \in 1 .. Len(buf) |-> fs[n]]
  BY DEF BufferFrames
<1> HIDE DEF fs
<1>4. fs \in Seq({fs[n] : n \in 1 .. Len(buf)})
  BY <1>1, <1>3
<1>5. Len(fs) = Len(buf)
  BY <1>1, <1>3, <1>4, LenProperties
<1>6. IsSeq(fs)
  BY <1>4 DEF IsSeq
<1> QED BY <1>1, <1>2, <1>5, <1>6 DEF fs

LEMMA SaysBuffer ==
  ASSUME IInv, NEW buf, IsSeq(buf), NEW i, Post(BufferFrames(buf, i))
  PROVE  Speaks
<1> DEFINE fs == BufferFrames(buf, i)
<1>1. IsSeq(fs) /\ Len(fs) = Len(buf) /\ \A n \in 1 .. Len(buf) : fs[n].m = "data"
  BY BuffersAre DEF IsChunk
<1>2. Post(fs)
  OBVIOUS
<1> HIDE DEF fs
<1>3. /\ Grows(toServer, toServer')
      /\ \A p \in Behind(toServer, toServer') :
           p - Len(toServer) \in 1 .. Len(fs) /\ toServer'[p] = fs[p - Len(toServer)]
  BY <1>1, <1>2, PostGrows
<1> QED BY <1>1, <1>3 DEF Speaks, Utters

LEMMA SetupBasics ==
  ASSUME IInv, Basics, LocalTypes', SendSetup, Ask("setup", Steps[step], 0, FALSE)
  PROVE  Basics'
<1> DEFINE f == [m |-> Steps[step], seq |-> nextSeq, id |-> 0]
<1> DEFINE r == [seq |-> nextSeq, of |-> "setup", dup |-> FALSE]
<1>1. pending' = pending \cup {r} /\ Post(<<f>>)
  BY DEF Ask
<1>2. f.m = Steps[step] /\ f.seq = nextSeq /\ r.seq = nextSeq /\ r.of = "setup"
  OBVIOUS
<1>3. f.id = 0
  OBVIOUS
<1> HIDE DEF f, r
<1>4. /\ step \in Nat \ {0} /\ step <= 4 /\ outcome = "pending" /\ ~Waiting("setup")
      /\ UNCHANGED <<toClient, remoteVars, localVars>>
  BY DEF SendSetup, Steps, Basics, LaunchInv
<1>40. step' = step
  <2>1. CASE csock # "closed"
    BY <2>1 DEF SendSetup
  <2>2. CASE csock = "closed"
    <3>1. pending' = pending
      BY <2>2 DEF SendSetup
    <3>2. r \in pending
      BY <1>1, <3>1
    <3> QED BY <1>2, <1>4, <3>2 DEF Waiting
  <2> QED BY <2>1, <2>2
<1>5. /\ step = 1 => f.m = "initialize"
      /\ step = 2 => f.m = "allocatePorts"
      /\ step = 3 => f.m = "syncFile"
      /\ step = 4 => f.m = "startGdbServer"
  BY <1>2 DEF Steps
<1>6. step = 1 \/ step = 2 \/ step = 3 \/ step = 4
  BY <1>4
<1>7. UNCHANGED <<nextId, streams, conn, monitor, server>>
  BY <1>4 DEF remoteVars, streamVars, threadVars, localVars
<1>8. FlowTypes'
  BY <1>4, FlowSplits
<1>9. IdsInv'
  BY <1>7 DEF Basics, IdsInv
<1>10. /\ Grows(toServer, toServer')
       /\ \A p \in Behind(toServer, toServer') : p = Len(toServer) + 1 /\ toServer'[p] = f
  BY <1>1, PostsOne
<1>11. \A g \in Held(toServer') : g \in Held(toServer) \/ g = f
  BY <1>10, PipesAreSeqs, GrowsHeld
<1>12. Marked(f) /\ f.m \notin {"response", "startStream", "duplicateStream"}
  BY <1>5, <1>6 DEF Marked, Marks
<1>13. FrameTypes'
  BY <1>4, <1>11, <1>12 DEF Basics, FrameTypes
<1>14. PlaceInv'
  BY <1>2, <1>4, <1>7, <1>10, ClientPlaces DEF Basics
<1>15. Unsent(4) /\ (step <= 2 => Unsent(2))
  BY <1>4 DEF Unsent
<1>16. Waiting("setup")'
  BY <1>1, <1>2 DEF Waiting
<1>17. (Unsent(2)' => step = 1) /\ (Unsent(4)' => step # 4)
  BY <1>6, <1>16, <1>40 DEF Unsent
<1>18. /\ monitor = "none" /\ ~Heralded /\ server = "none" /\ ~OnPipe("startGdbServer")
       /\ step <= 2 => ~OnPipe("allocatePorts") /\ nextId = FirstId
       /\ OnPipe("allocatePorts") => step = 2
  BY <1>15 DEF Basics, LaunchInv
<1>19. ~OnPipe("allocatePorts")
  BY <1>18
<1>20. /\ OnPipe("allocatePorts")' => step = 2
       /\ OnPipe("startGdbServer")' => step = 4
  BY <1>5, <1>6, <1>11, <1>18, <1>19 DEF OnPipe
<1>21. LaunchInv'
  <2>1. \A g, h \in Held(toServer') :
          g.m = h.m /\ g.m \in {"allocatePorts", "startGdbServer"} => g.seq = h.seq
    <3>1. \A g \in Held(toServer) : g.m \notin {"allocatePorts", "startGdbServer"}
      BY <1>18, <1>19 DEF OnPipe
    <3> QED BY <1>11, <3>1
  <2>2. OnPipe("allocatePorts")' => step' = 2 /\ nextId' = FirstId
    BY <1>7, <1>18, <1>20, <1>40
  <2>3. Unsent(2)' => ~OnPipe("allocatePorts")' /\ nextId' = FirstId
    BY <1>7, <1>17, <1>18, <1>20
  <2>4. step' >= 3 => nextId' > FirstId
    BY <1>7, <1>40 DEF Basics, LaunchInv
  <2>5. OnPipe("startGdbServer")' \/ monitor' # "none" => step' >= 4
    BY <1>7, <1>18, <1>20, <1>40
  <2>6. Unsent(4)' => ~OnPipe("startGdbServer")'
    BY <1>17, <1>20
  <2>7. ~Heralded' /\ server' = "none" /\ monitor' = "none" /\ Single(toClient')
    BY <1>4, <1>7, <1>18 DEF Heralded, Basics, LaunchInv
  <2>8. (\A i \in Ids : streams'[i] = Absent) /\ \A k \in Conns : conn'[k].at = "none"
    BY <1>7, <1>18 DEF Basics, LaunchInv
  <2>9. step' \in Nat \ {0}
    BY <1>4, <1>40
  <2> QED BY <2>1, <2>2, <2>3, <2>4, <2>5, <2>6, <2>7, <2>8, <2>9 DEF LaunchInv
<1>22. SetupInv'
  <2>1. \A q \in pending' : q.of = "setup" => q = r
    BY <1>1, <1>4 DEF Waiting
  <2>2. \A g \in Held(toServer') : Numbered(g) /\ g.seq = r.seq => g.m = Steps[step']
    BY <1>2, <1>11, <1>40 DEF IInv, NumberInv
  <2>3. \A g \in Held(toServer') : g.m = "allocatePorts" => g.seq = r.seq
    BY <1>2, <1>11, <1>19 DEF OnPipe
  <2>4. \A k \in Conns : conn'[k].seq # r.seq
    BY <1>2, <1>7 DEF IInv, NumberInv
  <2>5. \A g \in Held(toClient') : g.m = "response" => g.seq # r.seq
    BY <1>2, <1>4 DEF IInv, NumberInv
  <2> QED BY <1>4, <1>40, <2>1, <2>2, <2>3, <2>4, <2>5 DEF SetupInv
<1> QED BY <1>8, <1>9, <1>13, <1>14, <1>21, <1>22 DEF Basics

-----------------------------------------------------------------------------
(* All steps keep what is basic *)

Plain ==
  /\ Hears /\ Speaks /\ Advance
  /\ \A r \in pending' : r.of = "setup" => r \in pending
  /\ server = "none" =>
       server' = "none" \/ (toClient # << >> /\ Head(toClient).m = "streamReady" /\ toClient' = Tail(toClient))

\* What the launch waited for is over.
LEMMA GivenUp ==
  ASSUME Basics, NEW r \in pending, r.of = "setup", pending' = pending \ {r}
  PROVE  ~Waiting("setup")'
BY DEF Basics, SetupInv, Waiting

LEMMA KeepsWaiting ==
  ASSUME \A r \in pending : r.of = "setup" => r \in pending'
  PROVE  Waiting("setup") => Waiting("setup")'
BY DEF Waiting

LEMMA SocketPlain ==
  ASSUME IInv, Basics, SocketCloses
  PROVE  /\ Advance /\ \A r \in pending' : r.of = "setup" => r \in pending
         /\ server = "none" => server' = "none"
<1>1. pending' = {} /\ ~Waiting("setup")'
  BY DEF SocketCloses, Waiting
<1>2. SetupFails \/ (UNCHANGED <<step, outcome>> /\ ~Waiting("setup"))
  BY DEF SocketCloses
<1>3. server = "none" => server' = "none"
  BY DEF SocketCloses, CloseServer
<1> QED BY <1>1, <1>2, <1>3 DEF Advance

LEMMA AnswerPlain ==
  ASSUME IInv, Basics, NEW r \in pending, NEW f \in Held(toClient), f.m = "response", r.seq = f.seq,
         Answered(r, f)
  PROVE  Speaks /\ Advance /\ (\A q \in pending' : q.of = "setup" => q \in pending) /\ server' = server
<1>1. pending' = pending \ {r} /\ server' = server
  BY DEF Answered
<1>2. Advance
  <2>1. CASE r.of # "setup"
    <3>1. UNCHANGED <<step, outcome>>
      BY <2>1 DEF Answered
    <3>2. Waiting("setup") => Waiting("setup")'
      BY <1>1, <2>1, KeepsWaiting
    <3> QED BY <3>1, <3>2 DEF Advance
  <2>2. CASE r.of = "setup"
    <3>1. ~Waiting("setup")'
      BY <1>1, <2>2, GivenUp
    <3>2. IF f.ok THEN step' = step + 1 /\ UNCHANGED outcome ELSE SetupFails
      BY <2>2 DEF Answered
    <3> QED BY <2>2, <3>1, <3>2 DEF Advance
  <2> QED BY <2>1, <2>2
<1>3. Speaks
  <2>1. CASE r.of = "stop"
    BY <2>1, SaysEof DEF Answered
  <2>2. CASE UNCHANGED toServer
    BY <2>2, SaysNothing
  <2>3. CASE r.of \in Locals /\ ~UNCHANGED toServer
    <3>1. StreamAnswered(r, f)
      BY <2>3 DEF Answered
    <3>2. PICK i : SetStreamId(r.of, i)
      BY <2>3, <3>1 DEF StreamAnswered
    <3>3. Post(BufferFrames(toBuf[r.of], i))
      BY <3>2 DEF SetStreamId, BufferFrames
    <3>4. IsSeq(toBuf[r.of])
      BY <2>3 DEF IInv, ChannelTypes
    <3> QED BY <3>3, <3>4, SaysBuffer
  <2> QED BY <2>1, <2>2, <2>3 DEF Answered
<1> QED BY <1>1, <1>2, <1>3

LEMMA ReceivePlain ==
  ASSUME IInv, Basics, Receive
  PROVE  Plain
<1> DEFINE f == Head(toClient)
<1>1. toClient # << >> /\ toClient' = Tail(toClient) /\ f \in Held(toClient) /\ Hears
  BY PipesAreSeqs, TailHeld DEF Receive, Hears
<1>2. ASSUME NEW r \in pending, f.m = "response", r.seq = f.seq, Answered(r, f)
      PROVE  Plain
  <2> HIDE DEF f
  <2>1. Speaks /\ Advance /\ (\A q \in pending' : q.of = "setup" => q \in pending) /\ server' = server
    BY <1>1, <1>2, AnswerPlain
  <2> QED BY <1>1, <2>1 DEF Plain
<1>3. CASE Ignored \/ ServerExitHeard
  <2>1. UNCHANGED <<toServer, step, outcome, pending, server>>
    BY <1>3 DEF Ignored, ServerExitHeard, clientVars, startVars, linkVars, localVars
  <2>2. Speaks /\ Advance
    BY <2>1, SaysNothing, KeepsWaiting DEF Advance
  <2> QED BY <1>1, <2>1, <2>2 DEF Plain
<1>4. CASE f.m = "streamReady" /\ StreamReady(f.id)
  <2>1. UNCHANGED <<toServer, step, outcome, pending>>
    BY <1>4 DEF StreamReady, startVars, linkVars
  <2>2. Speaks /\ Advance
    BY <2>1, SaysNothing, KeepsWaiting DEF Advance
  <2> QED BY <1>1, <1>4, <2>1, <2>2 DEF Plain
<1>5. CASE RemoteClosed(f.id)
  <2>1. UNCHANGED <<toServer, step, outcome, pending>>
    BY <1>5 DEF RemoteClosed, startVars, linkVars
  <2>2. Speaks /\ Advance
    BY <2>1, SaysNothing, KeepsWaiting DEF Advance
  <2>3. server = "none" => server' = "none"
    BY <1>5 DEF RemoteClosed, CloseServer
  <2> QED BY <1>1, <2>1, <2>2, <2>3 DEF Plain
<1>6. CASE FromProxy(f.id, f.chunk)
  <2>1. UNCHANGED <<toServer, step, outcome, pending, server>>
    BY <1>6 DEF FromProxy, startVars, linkVars
  <2>2. Speaks /\ Advance
    BY <2>1, SaysNothing, KeepsWaiting DEF Advance
  <2> QED BY <1>1, <2>1, <2>2 DEF Plain
<1>7. CASE EofHeard
  <2>1. SocketCloses /\ UNCHANGED toServer
    BY <1>7 DEF EofHeard
  <2> QED BY <1>1, <2>1, SocketPlain, SaysNothing DEF Plain
<1>8. \/ f.m = "response" /\ \E r \in pending : r.seq = f.seq /\ Answered(r, f)
      \/ Ignored \/ (f.m = "streamReady" /\ StreamReady(f.id)) \/ RemoteClosed(f.id) \/ FromProxy(f.id, f.chunk)
      \/ ServerExitHeard \/ EofHeard
  BY DEF Receive
<1> QED BY <1>2, <1>3, <1>4, <1>5, <1>6, <1>7, <1>8

LEMMA ClientPlain ==
  ASSUME IInv, Basics, Client \/ LinkFreezes \/ LinkBreaks
  PROVE  UNCHANGED remoteVars /\ (Plain \/ (SendSetup /\ Ask("setup", Steps[step], 0, FALSE)))
<1>1. CASE SendSetup
  <2>1. UNCHANGED <<toClient, remoteVars, server>>
    BY <1>1 DEF SendSetup, localVars
  <2>2. CASE csock = "closed"
    <3>1. SetupFails /\ UNCHANGED <<pending, toServer>> /\ ~Waiting("setup")
      BY <1>1, <2>2 DEF SendSetup
    <3>2. Speaks /\ ~Waiting("setup")'
      BY <3>1, SaysNothing DEF Waiting
    <3> QED BY <2>1, <3>1, <3>2 DEF Plain, Hears, Advance
  <2>3. CASE csock # "closed"
    BY <1>1, <2>1, <2>3 DEF SendSetup
  <2> QED BY <2>2, <2>3
<1>2. CASE Receive
  BY <1>2, ReceivePlain DEF Receive
<1>3. CASE Listening \/ ExitTimer \/ LaunchTimer \/ SpawnsLocally
  <2>1. UNCHANGED <<toClient, toServer, remoteVars, pending, step>> /\ (server = "none" => server' = "none")
    BY <1>3 DEF Listening, ExitTimer, LaunchTimer, SpawnsLocally, sessionVars, remoteVars, linkVars, localVars
  <2>2. outcome' # "pending"
    BY <1>3 DEF Listening, ExitTimer, LaunchTimer, SpawnsLocally
  <2>3. Speaks
    BY <2>1, SaysNothing
  <2> QED BY <2>1, <2>2, <2>3 DEF Plain, Hears, Advance
<1>4. CASE CloseTimer \/ LinkBreaks
  <2>1. SocketCloses /\ UNCHANGED <<toClient, remoteVars>> /\ (UNCHANGED toServer \/ toServer' = <<Eof>>)
    BY <1>4 DEF CloseTimer, LinkBreaks, sessionVars, remoteVars
  <2>2. Speaks
    BY <2>1, SaysNothing DEF Speaks
  <2> QED BY <2>1, <2>2, SocketPlain DEF Plain, Hears
<1>5. ASSUME NEW r \in pending, Timeout(r)
      PROVE  UNCHANGED remoteVars /\ Plain
  <2>1. pending' = pending \ {r} /\ UNCHANGED <<toClient, remoteVars, server>>
    BY <1>5 DEF Timeout
  <2>2. Advance
    <3>1. CASE r.of # "setup"
      <4>1. UNCHANGED <<step, outcome>>
        BY <1>5, <3>1 DEF Timeout
      <4>2. Waiting("setup") => Waiting("setup")'
        BY <2>1, <3>1, KeepsWaiting
      <4> QED BY <4>1, <4>2 DEF Advance
    <3>2. CASE r.of = "setup"
      <4>1. ~Waiting("setup")' /\ SetupFails
        BY <1>5, <2>1, <3>2, GivenUp DEF Timeout
      <4> QED BY <4>1 DEF Advance
    <3> QED BY <3>1, <3>2
  <2>3. Speaks
    <3>1. CASE r.of = "stop"
      BY <1>5, <3>1, SaysEof DEF Timeout
    <3>2. CASE r.of # "stop"
      BY <1>5, <3>2, SaysNothing DEF Timeout
    <3> QED BY <3>1, <3>2
  <2> QED BY <2>1, <2>2, <2>3 DEF Plain, Hears
<1>6. CASE Stop
  <2>1. UNCHANGED <<toClient, remoteVars, step, outcome>>
    BY <1>6 DEF Stop, startVars
  <2>2. CASE Ask("stop", "endSession", 0, FALSE) /\ UNCHANGED server
    <3> DEFINE f == [m |-> "endSession", seq |-> nextSeq, id |-> 0]
    <3> DEFINE r == [seq |-> nextSeq, of |-> "stop", dup |-> FALSE]
    <3>1. Post(<<f>>) /\ pending' = pending \cup {r}
      BY <2>2 DEF Ask
    <3>2. f.m = "endSession" /\ f.seq = nextSeq /\ r.of = "stop"
      OBVIOUS
    <3> HIDE DEF f, r
    <3>3. Speaks
      BY <3>1, <3>2, SaysOne DEF Utters
    <3>4. Advance
      BY <2>1, <3>1, KeepsWaiting DEF Advance
    <3> QED BY <2>1, <2>2, <3>1, <3>2, <3>3, <3>4 DEF Plain, Hears
  <2>3. CASE CloseServer({}) /\ UNCHANGED <<pending, toServer>>
    <3>1. Speaks /\ Advance
      BY <2>1, <2>3, SaysNothing, KeepsWaiting DEF Advance
    <3>2. server = "none" => server' = "none"
      BY <2>3 DEF CloseServer
    <3> QED BY <2>1, <2>3, <3>1, <3>2 DEF Plain, Hears
  <2> QED BY <1>6, <2>1, <2>2, <2>3 DEF Stop
<1>7. ASSUME NEW l \in Locals, Connect(l)
      PROVE  UNCHANGED remoteVars /\ Plain
  <2>1. UNCHANGED <<toClient, remoteVars, step, outcome, server>>
    BY <1>7 DEF Connect, startVars
  <2>2. CASE \E method \in {"startStream", "duplicateStream"} : \E dup : Ask(l, method, FirstId, dup)
    <3>0. PICK method \in {"startStream", "duplicateStream"} : \E dup : Ask(l, method, FirstId, dup)
      BY <2>2
    <3>00. PICK dup : Ask(l, method, FirstId, dup)
      BY <3>0
    <3> DEFINE f == [m |-> method, seq |-> nextSeq, id |-> FirstId]
    <3> DEFINE r == [seq |-> nextSeq, of |-> l, dup |-> dup]
    <3>1. Post(<<f>>) /\ pending' = pending \cup {r}
      BY <3>00 DEF Ask
    <3>2. f.m \in {"startStream", "duplicateStream"} /\ f.seq = nextSeq /\ f.id = FirstId /\ r.of = l
      OBVIOUS
    <3> HIDE DEF f, r
    <3>3. Speaks
      BY <3>1, <3>2, SaysOne DEF Utters
    <3>4. Advance
      BY <2>1, <3>1, KeepsWaiting DEF Advance
    <3>5. l # "setup"
      BY ClientAssumption
    <3> QED BY <2>1, <3>1, <3>2, <3>3, <3>4, <3>5 DEF Plain, Hears
  <2>3. CASE UNCHANGED <<pending, toServer>>
    <3>1. Speaks /\ Advance
      BY <2>1, <2>3, SaysNothing, KeepsWaiting DEF Advance
    <3> QED BY <2>1, <2>3, <3>1 DEF Plain, Hears
  <2>4. \/ UNCHANGED <<pending, toServer>>
        \/ \E method \in {"startStream", "duplicateStream"} : \E dup : Ask(l, method, FirstId, dup)
    BY <1>7 DEF Connect
  <2> QED BY <2>1, <2>2, <2>3, <2>4
<1>8. ASSUME NEW l \in Locals, LocalCloses(l) \/ LocalSends(l)
      PROVE  UNCHANGED remoteVars /\ Plain
  <2>1. UNCHANGED <<toClient, remoteVars, step, outcome, server, pending>>
    BY <1>8 DEF LocalCloses, LocalSends, sessionVars, remoteVars, startVars, linkVars
  <2>2. Speaks
    <3>1. CASE UNCHANGED toServer
      BY <3>1, SaysNothing
    <3>2. CASE ~UNCHANGED toServer
      <4> DEFINE f == [m |-> "data", id |-> sid[l], chunk |-> <<l, asked[l] + 1>>]
      <4>1. Post(<<f>>)
        BY <1>8, <3>2 DEF LocalCloses, LocalSends, sessionVars
      <4>2. f.m = "data"
        OBVIOUS
      <4> HIDE DEF f
      <4> QED BY <4>1, <4>2, SaysOne DEF Utters
    <3> QED BY <3>1, <3>2
  <2>3. Advance
    BY <2>1, KeepsWaiting DEF Advance
  <2> QED BY <2>1, <2>2, <2>3 DEF Plain, Hears
<1>9. CASE LinkFreezes
  <2>1. UNCHANGED <<toServer, toClient, remoteVars, step, outcome, server, pending>>
    BY <1>9 DEF LinkFreezes, sessionVars, remoteVars, startVars, linkVars, localVars
  <2>2. Speaks /\ Advance
    BY <2>1, SaysNothing, KeepsWaiting DEF Advance
  <2> QED BY <2>1, <2>2 DEF Plain, Hears
<1> QED BY <1>1, <1>2, <1>3, <1>4, <1>5, <1>6, <1>7, <1>8, <1>9, ClientAssumption DEF Client, Timers

LEMMA ClientStepBasics ==
  ASSUME IInv, Basics, OpenInv, Client \/ LinkFreezes \/ LinkBreaks
  PROVE  Basics' /\ OpenInv'
<1>1. LocalTypes' /\ OpenInv'
  BY ClientTypes
<1>2. UNCHANGED remoteVars /\ (Plain \/ (SendSetup /\ Ask("setup", Steps[step], 0, FALSE)))
  BY ClientPlain
<1>3. Basics'
  BY <1>1, <1>2, ClientBasics, SetupBasics DEF Plain
<1> QED BY <1>1, <1>3

LEMMA BasicsInit == ProxyInit => Basics /\ OpenInv
<1> SUFFICES ASSUME ProxyInit PROVE Basics /\ OpenInv
  OBVIOUS
<1>1. /\ toServer = << >> /\ toClient = << >> /\ nextId = FirstId /\ monitor = "none"
      /\ streams = [i \in Ids |-> Absent] /\ conn = [k \in Conns |-> NoConn]
      /\ step = 1 /\ outcome = "pending" /\ pending = {} /\ server = "none"
      /\ lsock = [l \in Locals |-> "none"] /\ sockets = {}
      /\ byId = [i \in Ids \cup {NoId} |-> Nobody] /\ sid = [l \in Locals |-> NoId]
      /\ fromBuf = [l \in Locals |-> << >>] /\ got = [l \in Locals |-> << >>]
      /\ asked = [l \in Locals |-> 0]
  BY DEF ProxyInit, SessionInit, ClientInit
<1>2. \A k \in Conns : conn[k].at = "none" /\ conn[k].fwd = 0 /\ conn[k].got = << >>
  BY <1>1 DEF NoConn
<1>3. FlowTypes
  BY <1>1, <1>2, NothingHeld, SessionAssumption DEF FlowTypes
<1>4. 1 .. Len(<< >>) = {}
  OBVIOUS
<1>5. FrameTypes /\ PlaceInv
  <2>1. Once(<< >>) /\ Seqs(<< >>) = {}
    BY <1>4 DEF Once, Seqs
  <2> QED BY <1>1, <1>2, <2>1, NothingHeld DEF FrameTypes, PlaceInv, Owing
<1>6. LaunchInv /\ SetupInv
  <2>1. ~Heralded /\ (\A m : ~OnPipe(m)) /\ Single(toClient) /\ ~Waiting("setup")
    BY <1>1, <1>4, NothingHeld DEF Heralded, OnPipe, Single, Waiting
  <2> QED BY <1>1, <1>2, <2>1, NothingHeld DEF LaunchInv, SetupInv
<1>7. IdsInv
  <2>1. \A k \in Conns \ {1} : FirstId <= FirstId + k - 1
    BY SessionAssumption DEF Conns
  <2>2. Absent \notin Conns
    BY DEF Absent, Conns
  <2> QED BY <1>1, <1>2, <2>1, <2>2 DEF IdsInv
<1>8. OpenInv
  BY <1>1 DEF OpenInv
<1> QED BY <1>3, <1>5, <1>6, <1>7, <1>8 DEF Basics

-----------------------------------------------------------------------------
(* The conversation *)

\* No local client has hung up or been timed out, and the local server is still there.
Calm == restless = {} /\ server # "closed"

\* The sockets of the local clients, and what they buffer.
LocalSide ==
  /\ server = "none" => status = "starting" /\ known = {} /\ \A l \in Locals : lsock[l] = "none"
  /\ server # "none" => FirstId \in known
  /\ \A l \in sockets : byId[NoId] = l \/ (lsock[l] = "open" /\ sid[l] # NoId)
  /\ \A l \in Locals : sid[l] # NoId =>
       lsock[l] = "open" /\ sid[l] \in Ids /\ byId[sid[l]] = l /\ sid[l] \in known /\ status = "connected"
  /\ status = "connected" => \E l \in Locals : sid[l] = FirstId
  /\ \A i \in Ids : byId[i] # Nobody => byId[i] \in Locals /\ sid[byId[i]] = i
  /\ byId[NoId] # Nobody => byId[NoId] \in Locals /\ sid[byId[NoId]] = NoId
  /\ csock = "closed" => pending = {}
  /\ \A l \in Locals : lsock[l] = "none" => asked[l] = 0
  /\ \A l \in Locals : sid[l] = NoId => got[l] = << >> /\ fromBuf[l] = << >>
  /\ \A l \in Locals : lsock[l] \in {"none", "open"} /\ sid[l] = NoId => toBuf[l] = Upto(l, asked[l])

\* At most one of them has a request in flight: that for its stream, the first or one more.
LocalRequests ==
  \A r \in pending : r.of \in Locals =>
    /\ lsock[r.of] = "open" /\ sid[r.of] = NoId /\ byId[NoId] = r.of
    /\ r.dup <=> status = "connected"
    /\ \A q \in pending : q.of \in Locals => q = r
    /\ \A f \in Held(toServer) :
         Marked(f) /\ f.seq = r.seq => f.m = IF r.dup THEN "duplicateStream" ELSE "startStream"

\* Stream i has a local client, or the answer that gives it one is among the first n frames.
Grants(f, r, i) == f.m = "response" /\ f.seq = r.seq /\ f.ok /\ f.id = i
Given(i)        == \E l \in Locals : sid[l] = i
Promised(i, n)  ==
  \E r \in pending : r.of \in Locals /\ \E p \in 1 .. Len(toClient) : p <= n /\ Grants(toClient[p], r, i)
Owned(i, n)     == Given(i) \/ Promised(i, n)

\* Stream i is not to be joined any more: the connections that it has are one.
Settled(i) ==
  /\ i \in Ids /\ i < nextId
  /\ \A k \in Conns : conn[k].at \in Owing => conn[k].id # i
  /\ i = FirstId => ~OnPipe("startStream")
  /\ \A k \in Conns : conn[k].at \in {"forwarding", "mute"} /\ conn[k].id = i => streams[i] = k

\* Whoever asks or owes does so for a local client that waits.
Asking ==
  /\ \A f \in Held(toServer) : f.m \in {"startStream", "duplicateStream"} =>
       \E r \in pending : r.of \in Locals /\ r.seq = f.seq
  /\ \A k \in Conns : conn[k].at \in Owing =>
       /\ conn[k].id \in Ids /\ conn[k].id < nextId
       /\ \E r \in pending : r.of \in Locals /\ r.seq = conn[k].seq /\ (r.dup <=> conn[k].id # FirstId)

\* No chunk is on its way before the answer that tells whose it is.
Owners ==
  /\ \A k \in Conns : conn[k].at \in {"forwarding", "mute"} => Owned(conn[k].id, Len(toClient))
  /\ \A p \in 1 .. Len(toClient) : toClient[p].m = "data" => Owned(toClient[p].id, p)

\* The stream that is granted is a fresh one.
Fresh ==
  \A r \in pending, f \in Held(toClient) :
    r.of \in Locals /\ Grants(f, r, f.id) =>
      /\ Settled(f.id) /\ ~Given(f.id) /\ (r.dup <=> f.id # FirstId)
      /\ \A k \in Conns : streams[f.id] = k => OnTheWay(toClient, f.id, k, 0, conn[k].fwd)

Tokens == csock # "closed" => Asking /\ Owners /\ Fresh

\* Who has a stream speaks with its connection.
Serves(l) ==
  LET i == sid[l]
  IN  /\ Settled(i)
      /\ \A k \in Conns : streams[i] = k =>
           /\ Conveys(got[l], toClient, i, k, conn[k].fwd)
           /\ loop = "running" /\ csock = "open" /\ HasPeer(k) =>
                Conveys(conn[k].got, toServer, i, l, asked[l])

Served ==
  /\ \A f \in Held(toClient) : f.m = "streamReady" => f.id = FirstId
  /\ \A f \in Held(toClient) : f.m = "data" => f.id # NoId
  /\ \A k \in Conns : conn[k].id # NoId
  /\ \A f \in Held(toServer) : f.m = "data" => f.id # NoId /\ Given(f.id)
  /\ \A k \in Conns : conn[k].got # << >> => Given(conn[k].id)
  /\ \A l \in Locals : sid[l] # NoId => Serves(l)

Talk == LocalSide /\ LocalRequests /\ Tokens /\ Served

\* What may still be owed or promised to a local client is for the one request.
LEMMA OneRequest ==
  ASSUME LocalRequests, NEW r \in pending, NEW q \in pending, r.of \in Locals, q.of \in Locals
  PROVE  r = q
BY DEF LocalRequests

LEMMA GivenIsSettled ==
  ASSUME Served, NEW i, Given(i), i # NoId
  PROVE  Settled(i)
BY DEF Served, Given, Serves

LEMMA IdsAreNot == NoId \notin Ids /\ FirstId \in Ids
BY SessionAssumption DEF NoId, Ids

-----------------------------------------------------------------------------
(* Steps of the session, as a conversation sees them *)

\* The client's own.
LEMMA ClientStays ==
  ASSUME UNCHANGED clientVars
  PROVE  /\ UNCHANGED <<pending, csock, status, known, server, lsock, sockets, byId, sid, toBuf, fromBuf,
                        got, asked, restless>>
         /\ \A i : Given(i)' <=> Given(i)
         /\ Calm' <=> Calm
         /\ LocalSide => LocalSide'
BY DEF clientVars, linkVars, localVars, startVars, Given, Calm, LocalSide

\* What a settled stream is joined to stays, as long as it is joined to one.
SettledStays ==
  \A i : Settled(i) => Settled(i)' /\ (streams'[i] \in Conns => streams'[i] = streams[i])

LEMMA QuietSettled == ASSUME IInv, Basics, Quiet PROVE SettledStays
<1>1. UNCHANGED streams /\ nextId' >= nextId /\ \A k \in Conns : Tame(k)
  BY NumbersOfIds DEF Quiet, IdsMove
<1>2. \A k \in Conns : /\ conn'[k].id = conn[k].id
                       /\ conn'[k].at \in Owing => conn[k].at \in Owing
                       /\ conn'[k].at \in {"forwarding", "mute"} => conn'[k].at = conn[k].at
  BY <1>1 DEF Tame, Owing
<1>3. \A m : OnPipe(m)' => OnPipe(m)
  BY PipesAreSeqs, TailHeld DEF Quiet, Taken, OnPipe
<1>4. nextId' \in Nat /\ nextId \in Nat /\ \A i \in Ids : i \in Nat
  BY <1>1, NumbersOfIds DEF Quiet, IdsMove, Ids
<1>5. ASSUME NEW i, Settled(i) PROVE Settled(i)'
  <2>1. i \in Ids /\ i < nextId'
    BY <1>1, <1>4, <1>5 DEF Settled
  <2> QED BY <1>1, <1>2, <1>3, <1>5, <2>1 DEF Settled
<1> QED BY <1>1, <1>5 DEF SettledStays

LEMMA SpawnSettled == ASSUME IInv, Basics, NEW k \in Conns, NEW i \in Nat, Spawns(k, i) PROVE SettledStays
<1>1. /\ Head(toServer) \in Held(toServer) /\ Held(toServer') \subseteq Held(toServer)
      /\ nextId \in Nat /\ DOMAIN streams = Ids
  BY PipesAreSeqs, TailHeld, NumbersOfIds DEF Spawns, Taken, Basics, FlowTypes
<1>2. nextId' = nextId \/ nextId' = nextId + 1
  BY DEF Spawns
<1>3. ASSUME NEW j, Settled(j) PROVE Settled(j)' /\ (streams'[j] \in Conns => streams'[j] = streams[j])
  <2>1. j \in Ids /\ j < nextId /\ j \in Nat /\ j < nextId'
    BY <1>1, <1>2, <1>3, SessionAssumption DEF Settled, Ids
  <2>2. j # i
    <3>1. CASE Head(toServer).m = "startStream" /\ i = FirstId
      BY <1>1, <1>3, <3>1 DEF Settled, OnPipe
    <3>2. CASE i = nextId
      BY <1>1, <2>1, <3>2
    <3> QED BY <3>1, <3>2 DEF Spawns
  <2>3. streams'[j] = streams[j]
    <3>1. CASE UNCHANGED streams
      BY <3>1
    <3>2. CASE streams' = [streams EXCEPT ![nextId] = Unconnected]
      <4>1. j # nextId
        BY <1>1, <2>1
      <4> QED BY <1>1, <3>2, <4>1
    <3> QED BY <3>1, <3>2 DEF Spawns
  <2>4. \A h \in Conns : h # k => conn'[h] = conn[h]
    BY DEF Spawns
  <2>5. conn'[k].at = "waiting" /\ conn'[k].id = i
    BY DEF Spawns
  <2>6. j = FirstId => ~OnPipe("startStream")'
    BY <1>1, <1>3 DEF Settled, OnPipe
  <2>7. \A h \in Conns : conn'[h].at \in Owing => conn'[h].id # j
    BY <1>3, <2>2, <2>4, <2>5 DEF Settled
  <2>8. \A h \in Conns : conn'[h].at \in {"forwarding", "mute"} /\ conn'[h].id = j => streams'[j] = h
    BY <1>3, <2>3, <2>4, <2>5 DEF Settled
  <2> QED BY <2>1, <2>3, <2>6, <2>7, <2>8 DEF Settled
<1> QED BY <1>3 DEF SettledStays

LEMMA JoinsSettled == ASSUME IInv, Basics, NEW k \in Conns, Joins(k) PROVE SettledStays
<1>1. /\ UNCHANGED <<toServer, nextId>> /\ DOMAIN streams = Ids
      /\ streams' = [streams EXCEPT ![conn[k].id] = k] /\ conn[k].at \in Owing
      /\ \A j \in Conns : j # k => conn'[j] = conn[j]
      /\ conn'[k].at \in {"forwarding", "mute"} /\ conn'[k].id = conn[k].id
  BY DEF Joins, Owing, Basics, FlowTypes
<1>2. conn'[k].at \notin Owing
  BY <1>1 DEF Owing
<1>3. ASSUME NEW i, Settled(i) PROVE Settled(i)' /\ (streams'[i] \in Conns => streams'[i] = streams[i])
  <2>1. i \in Ids /\ i # conn[k].id
    BY <1>1, <1>3 DEF Settled
  <2>2. streams'[i] = streams[i]
    BY <1>1, <2>1
  <2> QED BY <1>1, <1>2, <1>3, <2>1, <2>2 DEF Settled, OnPipe
<1> QED BY <1>3 DEF SettledStays

LEMMA OtherSettled ==
  ASSUME IInv, Basics, (\E k \in Conns : Sends(k) \/ Closes(k)) \/ Opens \/ (\E k : Feeds(k))
  PROVE  SettledStays
<1>1. UNCHANGED nextId /\ \A m : OnPipe(m)' => OnPipe(m)
  BY PipesAreSeqs, TailHeld DEF Sends, Closes, Opens, Feeds, Taken, OnPipe
<1>2. DOMAIN streams = Ids
  BY DEF Basics, FlowTypes
<1>3. CASE (\E k \in Conns : Sends(k)) \/ (\E k : Feeds(k))
  <2>1. UNCHANGED streams /\ \A k \in Conns : conn'[k].at = conn[k].at /\ conn'[k].id = conn[k].id
    BY <1>3 DEF Sends, Feeds
  <2> QED BY <1>1, <2>1 DEF SettledStays, Settled
<1>4. CASE Opens
  <2>1. (\A i \in Ids : streams[i] = Absent) /\ (\A k \in Conns : conn[k].at = "none") /\ UNCHANGED conn
    BY <1>4 DEF Opens, Basics, LaunchInv
  <2>2. \A i \in Ids : streams'[i] \notin Conns
    BY <1>2, <1>4, <2>1, NumbersOfIds DEF Opens
  <2> QED BY <1>1, <2>1, <2>2 DEF SettledStays, Settled, Owing
<1>5. ASSUME NEW k \in Conns, Closes(k) PROVE SettledStays
  <2>1. /\ streams' = [streams EXCEPT ![conn[k].id] = Absent] /\ conn[k].at = "forwarding"
        /\ \A j \in Conns : j # k => conn'[j] = conn[j]
        /\ conn'[k].at = "gone"
    BY <1>5 DEF Closes
  <2>2. ASSUME NEW i, Settled(i) PROVE Settled(i)' /\ (streams'[i] \in Conns => streams'[i] = streams[i])
    <3>1. i \in Ids /\ streams'[i] = IF i = conn[k].id THEN Absent ELSE streams[i]
      BY <1>2, <2>1, <2>2 DEF Settled
    <3>2. ASSUME NEW j \in Conns, conn'[j].at \in {"forwarding", "mute"}, conn'[j].id = i
          PROVE  streams'[i] = j
      <4>1. j # k /\ conn[j].at \in {"forwarding", "mute"} /\ conn[j].id = i
        BY <2>1, <3>2
      <4>2. streams[i] = j
        BY <2>2, <4>1 DEF Settled
      <4>3. i # conn[k].id
        <5> SUFFICES ASSUME i = conn[k].id PROVE FALSE
          OBVIOUS
        <5>1. streams[i] = k
          BY <2>1, <2>2 DEF Settled
        <5> QED BY <4>1, <4>2, <5>1
      <4> QED BY <3>1, <4>2, <4>3
    <3>3. \A j \in Conns : conn'[j].at \in Owing => conn'[j].id # i
      BY <2>1, <2>2 DEF Settled, Owing
    <3> QED BY <1>1, <2>2, <3>1, <3>2, <3>3, NumbersOfIds DEF Settled
  <2> QED BY <2>2 DEF SettledStays
<1> QED BY <1>3, <1>4, <1>5

LEMMA SessionSettled == ASSUME IInv, Basics, SessionStep PROVE SettledStays
BY QuietSettled, SpawnSettled, JoinsSettled, OtherSettled DEF SessionStep

\* The chunks on their way on a settled stream are followed by those its connection sends.
FlowsOn ==
  \A i \in Ids, k \in Conns, n \in Nat :
    Settled(i) /\ streams'[i] = k /\ OnTheWay(toClient, i, k, n, conn[k].fwd) =>
      OnTheWay(toClient', i, k, n, conn'[k].fwd)

LEMMA SessionFlows == ASSUME IInv, Basics, SessionStep PROVE FlowsOn
<1> SUFFICES ASSUME NEW i \in Ids, NEW k \in Conns, NEW n \in Nat, Settled(i), streams'[i] = k,
                    OnTheWay(toClient, i, k, n, conn[k].fwd)
             PROVE  OnTheWay(toClient', i, k, n, conn'[k].fwd)
  BY DEF FlowsOn
<1>0. streams[i] = k /\ IsSeq(toClient)
  BY SessionSettled, PipesAreSeqs DEF SettledStays
<1>00. conn[k].id = i /\ conn[k].at \in {"forwarding", "mute"} /\ conn[k].fwd \in Nat
  BY <1>0 DEF Basics, IdsInv, FlowTypes
<1>1. CASE Quiet
  <2>1. Grows(toClient, toClient') /\ \A p \in Behind(toClient, toClient') : ~IsChunk(toClient'[p], i)
    BY <1>1 DEF Quiet, Dull, IsChunk
  <2>2. conn'[k].fwd = conn[k].fwd
    BY <1>1 DEF Quiet, Tame
  <2> QED BY <1>0, <2>1, <2>2, GrowsOnTheWay
<1>2. ASSUME NEW j \in Conns, NEW h \in Nat, Spawns(j, h)
      PROVE  OnTheWay(toClient', i, k, n, conn'[k].fwd)
  <2>1. j # k /\ conn'[k] = conn[k] /\ toClient' = toClient
    BY <1>00, <1>2 DEF Spawns
  <2> QED BY <2>1
<1>3. ASSUME NEW f, Frame(f), f.m # "data", conn'[k].fwd = conn[k].fwd
      PROVE  OnTheWay(toClient', i, k, n, conn'[k].fwd)
  <2>1. Grows(toClient, toClient') /\ \A p \in Behind(toClient, toClient') : ~IsChunk(toClient'[p], i)
    BY <1>3, FrameBehind DEF IsChunk
  <2> QED BY <1>0, <1>3, <2>1, GrowsOnTheWay
<1>4. ASSUME NEW j \in Conns, Joins(j) \/ Closes(j)
      PROVE  OnTheWay(toClient', i, k, n, conn'[k].fwd)
  <2>1. PICK f : Frame(f) /\ f.m # "data"
    BY <1>4 DEF Joins, Closes, Answer
  <2>2. conn'[k].fwd = conn[k].fwd
    BY <1>4 DEF Joins, Closes
  <2> QED BY <1>3, <2>1, <2>2
<1>5. CASE Opens
  <2>1. PICK f : Frame(f) /\ f.m # "data"
    BY <1>5 DEF Opens
  <2>2. conn'[k].fwd = conn[k].fwd
    BY <1>5 DEF Opens
  <2> QED BY <1>3, <2>1, <2>2
<1>6. ASSUME NEW j, Feeds(j)
      PROVE  OnTheWay(toClient', i, k, n, conn'[k].fwd)
  BY <1>6 DEF Feeds
<1>7. ASSUME NEW j \in Conns, Sends(j)
      PROVE  OnTheWay(toClient', i, k, n, conn'[k].fwd)
  <2> DEFINE f == [m |-> "data", id |-> conn[j].id, chunk |-> <<j, conn[j].fwd + 1>>]
  <2>1. Frame(f) /\ conn[j].at = "forwarding" /\ conn'[j].fwd = conn[j].fwd + 1
        /\ \A h \in Conns : h # j => conn'[h] = conn[h]
    BY <1>7 DEF Sends
  <2>2. f.m = "data" /\ f.id = conn[j].id /\ f.chunk = <<j, conn[j].fwd + 1>>
    OBVIOUS
  <2> HIDE DEF f
  <2>3. CASE conn[j].id = i
    <3>1. j = k
      BY <1>0, <2>1, <2>3 DEF Settled
    <3>2. IsChunk(f, i) /\ f.chunk = <<k, conn[k].fwd + 1>> /\ toClient' = Append(toClient, f)
      BY <2>1, <2>2, <2>3, <3>1 DEF IsChunk, Frame
    <3>3. conn'[k].fwd = conn[k].fwd + 1
      BY <2>1, <3>1
    <3>4. OnTheWay(Append(toClient, f), i, k, n, conn[k].fwd + 1)
      BY <1>0, <1>00, <3>2, ChunkOnTheWay
    <3> QED BY <3>2, <3>3, <3>4
  <2>4. CASE conn[j].id # i
    <3>1. j # k
      BY <1>00, <2>4
    <3>2. conn'[k].fwd = conn[k].fwd
      BY <2>1, <3>1
    <3>3. Grows(toClient, toClient') /\ \A p \in Behind(toClient, toClient') : ~IsChunk(toClient'[p], i)
      BY <2>1, <2>2, <2>4, FrameBehind DEF IsChunk
    <3> QED BY <1>0, <3>2, <3>3, GrowsOnTheWay
  <2> QED BY <2>3, <2>4
<1> QED BY <1>1, <1>2, <1>4, <1>5, <1>6, <1>7 DEF SessionStep

-----------------------------------------------------------------------------
(* The session keeps the conversation *)

\* What it says that opens a stream, or is of one.
LEMMA SessionSays ==
  ASSUME IInv, Basics, SessionStep
  PROVE  /\ Grows(toClient, toClient') /\ Held(toServer') \subseteq Held(toServer)
         /\ nextId \in Nat /\ nextId' \in Nat /\ nextId <= nextId'
         /\ loop' = "running" => loop = "running"
         /\ \A p \in Behind(toClient, toClient') :
              \/ Quiet /\ Dull(toClient'[p])
              \/ \E k \in Conns : /\ Joins(k) /\ p = Len(toClient) + 1
                                 /\ toClient'[p] = Answer(conn[k].seq, TRUE, conn[k].id)
              \/ \E k \in Conns : /\ Sends(k) /\ p = Len(toClient) + 1
                                 /\ toClient'[p].m = "data" /\ toClient'[p].id = conn[k].id
              \/ toClient'[p].m = "streamReady" /\ toClient'[p].id = FirstId
              \/ toClient'[p].m = "streamClosed"
<1>0. nextId \in Nat
  BY NumbersOfIds
<1>1. Held(toServer') \subseteq Held(toServer)
  BY PipesAreSeqs, TailHeld DEF SessionStep, Quiet, Spawns, Joins, Sends, Closes, Opens, Feeds, Taken
<1>2. nextId' = nextId \/ nextId' = nextId + 1
  BY DEF SessionStep, Quiet, IdsMove, Spawns, Joins, Sends, Closes, Opens, Feeds
<1>3. loop' = "running" => loop = "running"
  <2>1. CASE Quiet
    BY <2>1 DEF Quiet
  <2>2. CASE ~Quiet
    <3>1. loop' = loop
      BY <2>2 DEF SessionStep, Spawns, Joins, Sends, Closes, Opens, Feeds
    <3> QED BY <3>1
  <2> QED BY <2>1, <2>2
<1>4. ASSUME Quiet
      PROVE  /\ Grows(toClient, toClient')
             /\ \A p \in Behind(toClient, toClient') : Dull(toClient'[p])
  BY <1>4 DEF Quiet
<1>5. CASE (\E k \in Conns, i \in Nat : Spawns(k, i)) \/ \E k : Feeds(k)
  <2>1. Grows(toClient, toClient') /\ Behind(toClient, toClient') = {}
    BY <1>5, NothingBehind DEF Spawns, Feeds
  <2> QED BY <1>0, <1>1, <1>2, <1>3, <2>1
<1>6. ASSUME NEW k \in Conns, Joins(k)
      PROVE  /\ Grows(toClient, toClient')
             /\ \A p \in Behind(toClient, toClient') :
                  p = Len(toClient) + 1 /\ toClient'[p] = Answer(conn[k].seq, TRUE, conn[k].id)
  BY <1>6, FrameBehind DEF Joins
<1>7. ASSUME NEW k \in Conns, Sends(k)
      PROVE  /\ Grows(toClient, toClient')
             /\ \A p \in Behind(toClient, toClient') :
                  p = Len(toClient) + 1 /\ toClient'[p].m = "data" /\ toClient'[p].id = conn[k].id
  <2> DEFINE f == [m |-> "data", id |-> conn[k].id, chunk |-> <<k, conn[k].fwd + 1>>]
  <2>1. Frame(f) /\ f.m = "data" /\ f.id = conn[k].id
    BY <1>7 DEF Sends
  <2> HIDE DEF f
  <2> QED BY <2>1, FrameBehind
<1>8. ASSUME NEW k \in Conns, Closes(k)
      PROVE  /\ Grows(toClient, toClient')
             /\ \A p \in Behind(toClient, toClient') : toClient'[p].m = "streamClosed"
  <2> DEFINE f == [m |-> "streamClosed", id |-> conn[k].id]
  <2>1. Frame(f) /\ f.m = "streamClosed"
    BY <1>8 DEF Closes
  <2> HIDE DEF f
  <2> QED BY <2>1, FrameBehind
<1>9. ASSUME Opens
      PROVE  /\ Grows(toClient, toClient')
             /\ \A p \in Behind(toClient, toClient') : toClient'[p].m = "streamReady" /\ toClient'[p].id = FirstId
  <2> DEFINE f == [m |-> "streamReady", id |-> FirstId]
  <2>1. Frame(f) /\ f.m = "streamReady" /\ f.id = FirstId
    BY <1>9 DEF Opens
  <2> HIDE DEF f
  <2> QED BY <2>1, FrameBehind
<1>10. nextId' \in Nat /\ nextId <= nextId'
  BY <1>0, <1>2
<1> QED BY <1>0, <1>1, <1>3, <1>4, <1>5, <1>6, <1>7, <1>8, <1>9, <1>10 DEF SessionStep

LEMMA OwnedGrows ==
  ASSUME IInv, UNCHANGED clientVars, Grows(toClient, toClient')
  PROVE  \A i, n : Owned(i, n) => Owned(i, n)'
<1>1. \A p \in 1 .. Len(toClient) : p \in 1 .. Len(toClient') /\ toClient'[p] = toClient[p]
  <2>1. Len(toClient) \in Nat /\ Len(toClient') \in Nat
    BY PipesAreSeqs, LenIsNat DEF Grows
  <2> QED BY <2>1 DEF Grows
<1>2. UNCHANGED pending /\ \A i : Given(i)' <=> Given(i)
  BY ClientStays
<1> QED BY <1>1, <1>2 DEF Owned, Promised, Grants

LEMMA OwnedLater ==
  ASSUME NEW i, NEW n \in Int, NEW m \in Int, n <= m, Owned(i, n)
  PROVE  Owned(i, m)
<1>1. CASE Given(i)
  BY <1>1 DEF Owned
<1>2. CASE Promised(i, n)
  <2>1. PICK r \in pending, p \in 1 .. Len(toClient) : r.of \in Locals /\ p <= n /\ Grants(toClient[p], r, i)
    BY <1>2 DEF Promised
  <2>2. p <= m
    BY <2>1
  <2> QED BY <2>1, <2>2 DEF Owned, Promised
<1> QED BY <1>1, <1>2 DEF Owned

LEMMA SpawnAsks ==
  ASSUME IInv, Basics, UNCHANGED clientVars, LocalRequests, Asking, Served,
         NEW k \in Conns, NEW i \in Nat, Spawns(k, i)
  PROVE  /\ i \in Ids /\ i < nextId'
         /\ \E r \in pending : r.of \in Locals /\ r.seq = conn'[k].seq /\ (r.dup <=> i # FirstId)
<1>1. i \in Ids /\ i < nextId'
  BY SpawnBasics
<1>2. /\ Head(toServer) \in Held(toServer) /\ Marked(Head(toServer))
      /\ Head(toServer).m \in {"startStream", "duplicateStream"}
  BY PipesAreSeqs, TailHeld DEF Spawns, Taken, Marked, Marks
<1>3. PICK r \in pending : r.of \in Locals /\ r.seq = Head(toServer).seq
  BY <1>2 DEF Asking
<1>4. Head(toServer).m = IF r.dup THEN "duplicateStream" ELSE "startStream"
  BY <1>2, <1>3 DEF LocalRequests
<1>5. r.seq = conn'[k].seq
  BY <1>3 DEF Spawns
<1>6. nextId > FirstId /\ FirstId \in Nat /\ nextId \in Nat
  <2>1. monitor \notin {"none", "watching", "found"}
    BY Busy, NumbersOfIds DEF Spawns
  <2> QED BY <2>1, NumbersOfIds DEF Basics, LaunchInv
<1>7. r.dup <=> i # FirstId
  <2>1. CASE Head(toServer).m = "startStream"
    <3>1. i = FirstId
      BY <2>1 DEF Spawns
    <3> QED BY <1>4, <2>1, <3>1
  <2>2. CASE Head(toServer).m = "duplicateStream"
    <3>1. i = nextId
      BY <2>2 DEF Spawns
    <3> QED BY <1>4, <1>6, <2>2, <3>1
  <2> QED BY <1>2, <2>1, <2>2
<1> QED BY <1>1, <1>3, <1>5, <1>7

LEMMA SessionAsks ==
  ASSUME IInv, Basics, SessionStep, UNCHANGED clientVars, LocalRequests, Asking, Served
  PROVE  Asking'
<1>1. Held(toServer') \subseteq Held(toServer) /\ nextId \in Nat /\ nextId' \in Nat /\ nextId <= nextId'
  BY SessionSays
<1>2. UNCHANGED pending
  BY ClientStays
<1>3. ASSUME NEW k \in Conns, conn'[k].at \in Owing
      PROVE  /\ conn'[k].id \in Ids /\ conn'[k].id < nextId'
             /\ \E r \in pending : r.of \in Locals /\ r.seq = conn'[k].seq /\ (r.dup <=> conn'[k].id # FirstId)
  <2>1. CASE conn[k].at \in Owing /\ conn'[k].id = conn[k].id /\ conn'[k].seq = conn[k].seq
    <3>1. conn[k].id \in Ids /\ conn[k].id < nextId
      BY <2>1 DEF Asking
    <3>2. conn[k].id \in Nat
      BY <3>1, SessionAssumption DEF Ids
    <3>3. conn[k].id < nextId'
      BY <1>1, <3>1, <3>2
    <3> QED BY <2>1, <3>1, <3>3 DEF Asking
  <2>2. CASE ~(conn[k].at \in Owing /\ conn'[k].id = conn[k].id /\ conn'[k].seq = conn[k].seq)
    <3>1. ~Quiet
      BY <1>3, <2>2 DEF Quiet, Tame, Owing
    <3>2. ~Opens /\ \A j : ~Feeds(j)
      BY <1>3, <2>2 DEF Opens, Feeds
    <3>3. \A j \in Conns : ~Joins(j) /\ ~Sends(j) /\ ~Closes(j)
      BY <1>3, <2>2 DEF Joins, Sends, Closes, Owing
    <3>4. PICK j \in Conns, i \in Nat : Spawns(j, i)
      BY <3>1, <3>2, <3>3 DEF SessionStep
    <3>5. j = k
      BY <1>3, <2>2, <3>4 DEF Spawns
    <3>6. conn'[k].id = i
      BY <3>4, <3>5 DEF Spawns
    <3> QED BY <3>4, <3>5, <3>6, SpawnAsks
  <2> QED BY <2>1, <2>2
<1> QED BY <1>1, <1>2, <1>3 DEF Asking

\* A stream that is about to be joined has been silent, and is nobody's.
LEMMA JoinsFresh ==
  ASSUME IInv, Basics, UNCHANGED clientVars, LocalRequests, Asking, Owners, Served,
         NEW k \in Conns, Joins(k), NEW r \in pending, r.of \in Locals, r.seq = conn[k].seq,
         NEW i, i = conn[k].id
  PROVE  /\ Settled(i)' /\ ~Given(i) /\ (r.dup <=> i # FirstId)
         /\ \A j \in Conns : streams'[i] = j => OnTheWay(toClient', i, j, 0, conn'[j].fwd)
<1>1. /\ conn[k].at \in Owing /\ conn'[k].fwd = conn[k].fwd /\ conn[k].fwd = 0
      /\ conn'[k].id = i /\ conn'[k].at \notin Owing
      /\ \A j \in Conns : j # k => conn'[j] = conn[j]
      /\ UNCHANGED <<toServer, nextId>>
  BY DEF Joins, Owing, Basics, IdsInv
<1>2. streams' = [streams EXCEPT ![i] = k] /\ Frame(Answer(conn[k].seq, TRUE, i))
  BY DEF Joins
<1>3. i = conn[k].id
  OBVIOUS
<1>4. i \in Ids /\ i < nextId /\ i # NoId
  BY <1>1, <1>3, IdsAreNot DEF Asking
<1>5. streams'[i] = k
  BY <1>2, <1>4 DEF Basics, FlowTypes
<1>6. PICK x \in pending : x.of \in Locals /\ x.seq = conn[k].seq /\ (x.dup <=> i # FirstId)
  BY <1>1, <1>3 DEF Asking
<1>7. r.dup <=> i # FirstId
  BY <1>6, OneRequest
<1>8. ~Given(i)
  BY <1>1, <1>3, <1>4, GivenIsSettled DEF Settled
<1>9. r.seq \notin Seqs(toServer) /\ r.seq \notin Seqs(toClient)
  BY <1>1 DEF Basics, PlaceInv
<1>10. \A n : ~Owned(i, n)
  <2> SUFFICES ASSUME NEW n, Promised(i, n) PROVE FALSE
    BY <1>8 DEF Owned
  <2>1. PICK q \in pending, p \in 1 .. Len(toClient) : q.of \in Locals /\ Grants(toClient[p], q, i)
    BY DEF Promised
  <2>2. q = r
    BY <2>1, OneRequest
  <2>3. r.seq \in Seqs(toClient)
    BY <2>1, <2>2, SeqsOf DEF Grants, Marked, Marks
  <2> QED BY <1>9, <2>3
<1>11. Settled(i)'
  <2>1. \A j \in Conns : conn'[j].at \in Owing => conn'[j].id # i
    <3> SUFFICES ASSUME NEW j \in Conns, conn'[j].at \in Owing, conn'[j].id = i PROVE FALSE
      OBVIOUS
    <3>1. j # k /\ conn[j].at \in Owing
      BY <1>1
    <3>2. PICK q \in pending : q.of \in Locals /\ q.seq = conn[j].seq
      BY <3>1 DEF Asking
    <3>3. q = r
      BY <3>2, OneRequest
    <3> QED BY <1>1, <3>1, <3>2, <3>3 DEF Basics, PlaceInv
  <2>2. ~OnPipe("startStream")
    <3> SUFFICES ASSUME NEW f \in Held(toServer), f.m = "startStream" PROVE FALSE
      BY DEF OnPipe
    <3>1. PICK q \in pending : q.of \in Locals /\ q.seq = f.seq
      BY DEF Asking
    <3>2. q = r
      BY <3>1, OneRequest
    <3>3. f.seq \in Seqs(toServer)
      BY HeldAt, SeqsOf DEF Marked, Marks
    <3> QED BY <1>9, <3>1, <3>2, <3>3
  <2>3. \A j \in Conns : conn'[j].at \in {"forwarding", "mute"} /\ conn'[j].id = i => streams'[i] = j
    <3> SUFFICES ASSUME NEW j \in Conns, conn'[j].at \in {"forwarding", "mute"}, conn'[j].id = i, j # k PROVE FALSE
      BY <1>5
    <3>1. conn[j].at \in {"forwarding", "mute"} /\ conn[j].id = i
      BY <1>1
    <3>2. Owned(i, Len(toClient))
      BY <3>1 DEF Owners
    <3> QED BY <1>10, <3>2
  <2>4. ~OnPipe("startStream")'
    BY <1>1, <2>2 DEF OnPipe
  <2> QED BY <1>1, <1>4, <2>1, <2>3, <2>4 DEF Settled
<1>12. OnTheWay(toClient', i, k, 0, 0)
  <2> DEFINE f == Answer(conn[k].seq, TRUE, i)
  <2>1. Frame(f) /\ f.m = "response"
    BY <1>2 DEF Answer
  <2> HIDE DEF f
  <2>2. /\ Grows(toClient, toClient')
        /\ \A p \in Behind(toClient, toClient') : ~IsChunk(toClient'[p], i)
    BY <2>1, FrameBehind DEF IsChunk
  <2>3. \A p \in 1 .. Len(toClient) : ~IsChunk(toClient[p], i)
    BY <1>10 DEF Owners, IsChunk
  <2>4. OnTheWay(toClient, i, k, 0, 0)
    BY <2>3, NothingOnTheWay
  <2> QED BY <2>2, <2>4, PipesAreSeqs, GrowsOnTheWay
<1> QED BY <1>1, <1>3, <1>5, <1>7, <1>8, <1>11, <1>12

\* What the owners of the next state are.
LEMMA OwnersNext ==
  ASSUME \A k \in Conns : \A i, n :
           conn'[k].at \in {"forwarding", "mute"} /\ i = conn'[k].id /\ n = Len(toClient') => Owned(i, n)',
         \A p \in 1 .. Len(toClient') : \A i : toClient'[p].m = "data" /\ i = toClient'[p].id => Owned(i, p)'
  PROVE  Owners'
<1>1. ASSUME NEW k \in Conns, conn'[k].at \in {"forwarding", "mute"}
      PROVE  Owned(conn[k].id, Len(toClient))'
  <2>1. PICK i, n : i = conn'[k].id /\ n = Len(toClient')
    OBVIOUS
  <2>2. Owned(i, n)'
    BY <1>1, <2>1
  <2> QED BY <2>1, <2>2 DEF Owned, Promised, Given
<1>2. ASSUME NEW p \in 1 .. Len(toClient'), toClient'[p].m = "data"
      PROVE  Owned(toClient[p].id, p)'
  <2>1. PICK i : i = toClient'[p].id
    OBVIOUS
  <2>2. Owned(i, p)'
    BY <1>2, <2>1
  <2> QED BY <2>1, <2>2 DEF Owned, Promised, Given
<1> QED BY <1>1, <1>2 DEF Owners

LEMMA SessionOwns ==
  ASSUME IInv, Basics, SessionStep, UNCHANGED clientVars, LocalRequests, Asking, Owners
  PROVE  Owners'
<1>1. Grows(toClient, toClient') /\ Len(toClient) \in Nat /\ Len(toClient') \in Nat /\ Len(toClient) <= Len(toClient')
  BY SessionSays, PipesAreSeqs, LenIsNat DEF Grows
<1>2. \A i, n : Owned(i, n) => Owned(i, n)'
  BY <1>1, OwnedGrows
<1>20. ASSUME NEW i, Owned(i, Len(toClient)), NEW m \in Int, Len(toClient) <= m PROVE Owned(i, m)'
  <2>1. Owned(i, m)
    BY <1>1, <1>20, OwnedLater
  <2> QED BY <1>2, <2>1
<1>3. UNCHANGED pending
  BY ClientStays
<1>4. ASSUME NEW k \in Conns, NEW i, NEW n, conn'[k].at \in {"forwarding", "mute"},
             i = conn'[k].id, n = Len(toClient')
      PROVE  Owned(i, n)'
  <2>0. n \in Nat /\ Len(toClient) <= n
    BY <1>1, <1>4
  <2>1. CASE conn[k].at \in {"forwarding", "mute"} /\ conn'[k].id = conn[k].id
    <3>1. Owned(i, Len(toClient))
      BY <1>4, <2>1 DEF Owners
    <3> QED BY <2>0, <1>20, <3>1
  <2>2. CASE ~(conn[k].at \in {"forwarding", "mute"} /\ conn'[k].id = conn[k].id)
    <3>1. ~Quiet
      BY <1>4, <2>2 DEF Quiet, Tame, Owing
    <3>2. ~Opens /\ \A j : ~Feeds(j)
      BY <1>4, <2>2 DEF Opens, Feeds
    <3>3. \A j \in Conns : ~Sends(j) /\ ~Closes(j) /\ \A h \in Nat : ~Spawns(j, h)
      BY <1>4, <2>2 DEF Sends, Closes, Spawns
    <3>4. PICK j \in Conns : Joins(j)
      BY <3>1, <3>2, <3>3 DEF SessionStep
    <3>5. j = k
      BY <1>4, <2>2, <3>4 DEF Joins
    <3>6. conn[k].at \in Owing /\ i = conn[k].id
      BY <1>4, <3>4, <3>5 DEF Joins, Owing
    <3>7. PICK r \in pending : r.of \in Locals /\ r.seq = conn[k].seq
      BY <3>6 DEF Asking
    <3>8. PICK f : Frame(f) /\ Grants(f, r, i)
      BY <3>4, <3>5, <3>6, <3>7 DEF Joins, Answer, Grants
    <3>9. Len(toClient') = Len(toClient) + 1 /\ toClient'[Len(toClient) + 1] = f
      BY <3>8, PipesAreSeqs, AppendGrows DEF Frame
    <3>10. n \in 1 .. Len(toClient') /\ n <= n /\ toClient'[n] = f
      BY <1>1, <1>4, <2>0, <3>9
    <3> QED BY <1>3, <3>7, <3>8, <3>10 DEF Owned, Promised, Grants
  <2> QED BY <2>1, <2>2
<1>5. ASSUME NEW p \in 1 .. Len(toClient'), NEW i, toClient'[p].m = "data", i = toClient'[p].id
      PROVE  Owned(i, p)'
  <2>1. CASE p \in 1 .. Len(toClient)
    <3>1. toClient'[p] = toClient[p]
      BY <2>1, <1>1 DEF Grows
    <3>2. Owned(i, p)
      BY <1>5, <2>1, <3>1 DEF Owners
    <3> QED BY <1>2, <3>2
  <2>2. CASE p \notin 1 .. Len(toClient)
    <3>1. p \in Behind(toClient, toClient')
      BY <1>1, <2>2 DEF Behind
    <3>2. ~Dull(toClient'[p]) /\ toClient'[p].m \notin {"response", "streamReady", "streamClosed"}
      BY <1>5 DEF Dull
    <3>20. \A k \in Conns : toClient'[p] # Answer(conn[k].seq, TRUE, conn[k].id)
      BY <3>2 DEF Answer
    <3>3. PICK k \in Conns : Sends(k) /\ p = Len(toClient) + 1 /\ toClient'[p].id = conn[k].id
      BY <3>1, <3>2, <3>20, SessionSays
    <3>4. Owned(i, Len(toClient))
      BY <1>5, <3>3 DEF Sends, Owners
    <3>5. Len(toClient) <= p /\ p \in Int
      BY <1>1, <3>3
    <3> QED BY <1>20, <3>4, <3>5
  <2> QED BY <2>1, <2>2
<1> QED BY <1>4, <1>5, OwnersNext

LEMMA SessionFresh ==
  ASSUME IInv, Basics, SessionStep, UNCHANGED clientVars, LocalRequests, Asking, Owners, Fresh, Served
  PROVE  Fresh'
<1>1. UNCHANGED pending /\ \A i : Given(i)' <=> Given(i)
  BY ClientStays
<1>2. Grows(toClient, toClient')
  BY SessionSays
<1>3. ASSUME NEW r \in pending, NEW f \in Held(toClient'), r.of \in Locals, NEW i, i = f.id, Grants(f, r, i)
      PROVE  /\ Settled(i)' /\ ~Given(i) /\ (r.dup <=> i # FirstId)
             /\ \A k \in Conns : streams'[i] = k => OnTheWay(toClient', i, k, 0, conn'[k].fwd)
  <2>1. CASE f \in Held(toClient)
    <3>1. /\ Settled(i) /\ ~Given(i) /\ (r.dup <=> i # FirstId)
          /\ \A k \in Conns : streams[i] = k => OnTheWay(toClient, i, k, 0, conn[k].fwd)
      BY <1>3, <2>1 DEF Fresh
    <3>2. Settled(i)' /\ (streams'[i] \in Conns => streams'[i] = streams[i])
      BY <3>1, SessionSettled DEF SettledStays
    <3>3. ASSUME NEW k \in Conns, streams'[i] = k
          PROVE  OnTheWay(toClient', i, k, 0, conn'[k].fwd)
      <4>1. streams[i] = k /\ i \in Ids
        BY <3>1, <3>2, <3>3 DEF Settled
      <4>2. OnTheWay(toClient, i, k, 0, conn[k].fwd)
        BY <3>1, <4>1
      <4>3. FlowsOn
        BY SessionFlows
      <4> QED BY <3>1, <3>3, <4>1, <4>2, <4>3 DEF FlowsOn
    <3> QED BY <3>1, <3>2, <3>3
  <2>2. CASE f \notin Held(toClient)
    <3>1. PICK p \in Behind(toClient, toClient') : f = toClient'[p]
      BY <1>2, <2>2, PipesAreSeqs, GrowsHeld
    <3>2. ~Dull(f)
      <4> SUFFICES ASSUME Dull(f) PROVE FALSE
        OBVIOUS
      <4>1. /\ Taken /\ Head(toServer).m \in {"initialize", "syncFile", "endSession", "startGdbServer", "allocatePorts"}
            /\ r.seq = Head(toServer).seq
        BY <1>3 DEF Dull, Grants
      <4>2. Head(toServer) \in Held(toServer) /\ Marked(Head(toServer))
        BY <4>1, PipesAreSeqs, TailHeld DEF Taken, Marked, Marks
      <4> QED BY <1>3, <4>1, <4>2 DEF LocalRequests
    <3>3. f.m = "response"
      BY <1>3 DEF Grants
    <3>4. ~Dull(toClient'[p]) /\ toClient'[p].m = "response"
      BY <3>1, <3>2, <3>3
    <3>5. PICK k \in Conns : Joins(k) /\ toClient'[p] = Answer(conn[k].seq, TRUE, conn[k].id)
      BY <3>1, <3>4, SessionSays
    <3>6. r.seq = conn[k].seq /\ i = conn[k].id
      BY <1>3, <3>1, <3>5 DEF Answer, Grants
    <3> QED BY <1>3, <3>5, <3>6, JoinsFresh
  <2> QED BY <2>1, <2>2
<1>4. ASSUME NEW r \in pending', NEW f \in Held(toClient'), r.of \in Locals, Grants(f, r, f.id)
      PROVE  /\ Settled(f.id)' /\ ~Given(f.id)' /\ (r.dup <=> f.id # FirstId)
             /\ \A k \in Conns : streams'[f.id] = k => OnTheWay(toClient', f.id, k, 0, conn'[k].fwd)
  <2>1. PICK i : i = f.id
    OBVIOUS
  <2>2. Grants(f, r, i) /\ r \in pending
    BY <1>1, <1>4, <2>1 DEF Grants
  <2>3. /\ Settled(i)' /\ ~Given(i) /\ (r.dup <=> i # FirstId)
        /\ \A k \in Conns : streams'[i] = k => OnTheWay(toClient', i, k, 0, conn'[k].fwd)
    BY <1>3, <1>4, <2>1, <2>2
  <2>4. ~Given(i)'
    BY <1>1, <2>3
  <2> QED BY <2>1, <2>3, <2>4
<1> QED BY <1>4 DEF Fresh, Grants

LEMMA PeerStays ==
  ASSUME SessionStep, NEW k \in Conns, conn[k].at # "none", HasPeer(k)'
  PROVE  HasPeer(k)
<1>1. child' = "running" /\ ~conn'[k].hung
  BY DEF HasPeer
<1>2. child = "running"
  <2>1. CASE Quiet
    BY <1>1, <2>1 DEF Quiet, PeersStay
  <2>2. CASE ~Quiet
    <3>1. child' = child
      BY <2>2 DEF SessionStep, Spawns, Joins, Sends, Closes, Opens, Feeds
    <3> QED BY <1>1, <3>1
  <2> QED BY <2>1, <2>2
<1>3. ~conn[k].hung
  <2>1. CASE Quiet
    BY <1>1, <2>1 DEF Quiet, Tame
  <2>2. CASE ~Quiet
    BY <1>1, <2>2 DEF SessionStep, Spawns, Joins, Sends, Closes, Opens, Feeds
  <2> QED BY <2>1, <2>2
<1> QED BY <1>2, <1>3 DEF HasPeer

LEMMA UptoGrows ==
  ASSUME NEW who, NEW n \in Nat
  PROVE  /\ IsSeq(Upto(who, n)) /\ Len(Upto(who, n)) = n
         /\ Append(Upto(who, n), <<who, n + 1>>) = Upto(who, n + 1)
<1> DEFINE S == {<<who, c>> : c \in Nat}
<1>1. \A m \in Nat : Upto(who, m) \in Seq(S) /\ Len(Upto(who, m)) = m /\ \A j \in 1 .. m : Upto(who, m)[j] = <<who, j>>
  <2> SUFFICES ASSUME NEW m \in Nat
               PROVE Upto(who, m) \in Seq(S) /\ Len(Upto(who, m)) = m /\ \A j \in 1 .. m : Upto(who, m)[j] = <<who, j>>
    OBVIOUS
  <2>1. \A j \in 1 .. m : <<who, j>> \in S
    OBVIOUS
  <2> HIDE DEF S
  <2>2. Upto(who, m) \in [1 .. m -> S]
    BY <2>1 DEF Upto
  <2>3. DOMAIN Upto(who, m) = 1 .. m /\ \A j \in 1 .. m : Upto(who, m)[j] = <<who, j>>
    BY DEF Upto
  <2>4. Upto(who, m) \in Seq(S)
    BY <2>2, SeqDef
  <2>5. Len(Upto(who, m)) \in Nat /\ DOMAIN Upto(who, m) = 1 .. Len(Upto(who, m))
    BY <2>4, LenProperties
  <2>6. Len(Upto(who, m)) = m
    BY <2>3, <2>5
  <2> QED BY <2>3, <2>4, <2>6
<1> DEFINE x == <<who, n + 1>>
<1>2. x \in S
  OBVIOUS
<1> HIDE DEF S, x
<1>3. /\ Append(Upto(who, n), x) \in Seq(S) /\ Len(Append(Upto(who, n), x)) = n + 1
      /\ \A j \in 1 .. n + 1 : Append(Upto(who, n), x)[j] = IF j <= n THEN Upto(who, n)[j] ELSE x
  BY <1>1, <1>2, AppendProperties
<1>4. \A j \in 1 .. n + 1 : Append(Upto(who, n), x)[j] = Upto(who, n + 1)[j]
  <2> SUFFICES ASSUME NEW j \in 1 .. n + 1 PROVE Append(Upto(who, n), x)[j] = Upto(who, n + 1)[j]
    OBVIOUS
  <2>1. CASE j <= n
    <3>1. j \in 1 .. n
      BY <2>1
    <3>2. Upto(who, n)[j] = <<who, j>>
      BY <1>1, <3>1
    <3>3. Upto(who, n + 1)[j] = <<who, j>>
      BY DEF Upto
    <3> QED BY <1>3, <2>1, <3>2, <3>3
  <2>2. CASE ~(j <= n)
    <3>1. j = n + 1 /\ n + 1 \in Nat
      BY <2>2
    <3>2. Upto(who, n + 1)[n + 1] = <<who, n + 1>>
      BY <1>1, <3>1
    <3> QED BY <1>3, <2>2, <3>1, <3>2 DEF x
  <2> QED BY <2>1, <2>2
<1>5. Upto(who, n + 1) \in Seq(S) /\ Len(Upto(who, n + 1)) = n + 1
  BY <1>1
<1>6. Append(Upto(who, n), x) = Upto(who, n + 1)
  BY <1>3, <1>4, <1>5, SeqEqual
<1> QED BY <1>1, <1>6 DEF x, IsSeq

\* What arrives goes on arriving: a frame is taken that is not of the stream, or its next chunk.
LEMMA NextConveys ==
  ASSUME NEW s, IsSeq(s), NEW got0, IsSeq(got0), NEW t, NEW got1, NEW i, NEW who, NEW m \in Nat,
         Conveys(got0, s, i, who, m),
         \/ t = s /\ got1 = got0
         \/ s # << >> /\ t = Tail(s) /\ ~IsChunk(Head(s), i) /\ got1 = got0
         \/ s # << >> /\ t = Tail(s) /\ IsChunk(Head(s), i) /\ got1 = Append(got0, Head(s).chunk)
  PROVE  Conveys(got1, t, i, who, m)
<1>1. /\ got0 = Upto(who, Len(got0)) /\ OnTheWay(s, i, who, Len(got0), m) /\ Len(got0) \in Nat
  BY LenIsNat DEF Conveys
<1>2. CASE t = s /\ got1 = got0
  BY <1>2
<1>3. CASE s # << >> /\ t = Tail(s) /\ ~IsChunk(Head(s), i) /\ got1 = got0
  <2>1. OnTheWay(t, i, who, Len(got0), m)
    BY <1>1, <1>3, TailOnTheWay
  <2> QED BY <1>1, <1>3, <2>1 DEF Conveys
<1>4. CASE s # << >> /\ t = Tail(s) /\ IsChunk(Head(s), i) /\ got1 = Append(got0, Head(s).chunk)
  <2>1. PICK n \in Nat : n = Len(got0)
    BY <1>1
  <2>10. OnTheWay(s, i, who, n, m) /\ s # << >> /\ IsChunk(Head(s), i)
    BY <1>1, <1>4, <2>1
  <2>11. Head(s).chunk = <<who, n + 1>> /\ OnTheWay(Tail(s), i, who, n + 1, m)
    BY <2>10, ChunkTaken
  <2>2. OnTheWay(t, i, who, n + 1, m)
    BY <1>4, <2>11
  <2>12. got0 = Upto(who, n) /\ got1 = Append(got0, Head(s).chunk)
    BY <1>1, <1>4, <2>1
  <2>3. got1 = Append(Upto(who, n), <<who, n + 1>>)
    BY <2>11, <2>12
  <2>13. Append(Upto(who, n), <<who, n + 1>>) = Upto(who, n + 1)
    BY UptoGrows
  <2>4. got1 = Upto(who, n + 1) /\ n + 1 \in Nat
    BY <2>3, <2>13
  <2>5. Len(got1) = n + 1
    BY <2>4, UptoGrows
  <2> QED BY <2>2, <2>4, <2>5 DEF Conveys
<1> QED BY <1>2, <1>3, <1>4

LEMMA SessionReaches ==
  ASSUME IInv, Basics, SessionStep, \A f \in Held(toServer) : f.m = "data" => f.id \in Ids,
         NEW i \in Ids, NEW k \in Conns, streams[i] = k, HasPeer(k), NEW l, NEW m \in Nat,
         Conveys(conn[k].got, toServer, i, l, m)
  PROVE  Conveys(conn'[k].got, toServer', i, l, m)
<1>1. conn[k].id = i /\ conn[k].at \in {"forwarding", "mute"} /\ IsSeq(conn[k].got) /\ IsSeq(toServer)
  BY PipesAreSeqs DEF Basics, IdsInv, FlowTypes
<1>2. \/ toServer' = toServer /\ conn'[k].got = conn[k].got
      \/ toServer # << >> /\ toServer' = Tail(toServer) /\ ~IsChunk(Head(toServer), i) /\ conn'[k].got = conn[k].got
      \/ /\ toServer # << >> /\ toServer' = Tail(toServer) /\ IsChunk(Head(toServer), i)
         /\ conn'[k].got = Append(conn[k].got, Head(toServer).chunk)
  <2>1. CASE Quiet
    <3>1. conn'[k].got = conn[k].got
      BY <2>1 DEF Quiet, Tame
    <3>2. toServer' = toServer \/ (Taken /\ Head(toServer).m # "data")
      BY <2>1 DEF Quiet
    <3> QED BY <3>1, <3>2 DEF Taken, IsChunk
  <2>2. ASSUME NEW j \in Conns, NEW h \in Nat, Spawns(j, h)
        PROVE  Taken /\ Head(toServer).m # "data" /\ conn'[k].got = conn[k].got
    BY <1>1, <2>2 DEF Spawns
  <2>3. ASSUME (\E j \in Conns : Joins(j) \/ Sends(j) \/ Closes(j)) \/ Opens
        PROVE  toServer' = toServer /\ conn'[k].got = conn[k].got
    BY <2>3 DEF Joins, Sends, Closes, Opens
  <2>4. ASSUME NEW j, Feeds(j)
        PROVE  \/ Taken /\ ~IsChunk(Head(toServer), i) /\ conn'[k].got = conn[k].got
               \/ /\ Taken /\ IsChunk(Head(toServer), i)
                  /\ conn'[k].got = Append(conn[k].got, Head(toServer).chunk)
    <3>1. PICK h : h = Head(toServer).id
      OBVIOUS
    <3>2. Taken /\ Head(toServer).m = "data" /\ j = streams[h]
      BY <2>4, <3>1 DEF Feeds
    <3>3. h \in Ids
      BY <1>1, <3>1, <3>2, TailHeld DEF Taken
    <3>4. CASE h = i
      <4>1. j = k /\ IsChunk(Head(toServer), i)
        BY <3>1, <3>2, <3>4 DEF IsChunk
      <4> QED BY <2>4, <3>2, <4>1 DEF Feeds
    <3>5. CASE h # i
      <4>1. j # k
        BY <1>1, <3>2, <3>3, <3>5 DEF Basics, IdsInv
      <4>2. conn'[k].got = conn[k].got
        BY <2>4, <4>1 DEF Feeds
      <4> QED BY <3>1, <3>2, <3>5, <4>2 DEF IsChunk
    <3> QED BY <3>4, <3>5
  <2> QED BY <2>1, <2>2, <2>3, <2>4 DEF SessionStep, Taken, IsChunk
<1>3. PICK s, t, g, h : s = toServer /\ t = toServer' /\ g = conn[k].got /\ h = conn'[k].got
  OBVIOUS
<1>30. IsSeq(s) /\ IsSeq(g) /\ Conveys(g, s, i, l, m)
  BY <1>1, <1>3
<1>4. \/ t = s /\ h = g
      \/ s # << >> /\ t = Tail(s) /\ ~IsChunk(Head(s), i) /\ h = g
      \/ s # << >> /\ t = Tail(s) /\ IsChunk(Head(s), i) /\ h = Append(g, Head(s).chunk)
  BY <1>2, <1>3
<1>5. Conveys(h, t, i, l, m)
  BY <1>30, <1>4, NextConveys
<1> QED BY <1>3, <1>5

LEMMA SessionGets ==
  ASSUME IInv, Basics, SessionStep, NEW k \in Conns, conn'[k].got # << >>
  PROVE  \/ conn[k].got # << >> /\ conn'[k].id = conn[k].id
         \/ /\ toServer # << >> /\ Head(toServer).m = "data" /\ k = streams[Head(toServer).id]
            /\ conn'[k].id = conn[k].id
BY DEF SessionStep, Quiet, Tame, Spawns, Joins, Sends, Closes, Opens, Feeds, Taken

LEMMA SessionServes ==
  ASSUME IInv, Basics, SessionStep, UNCHANGED clientVars, LocalSide, Served
  PROVE  Served'
<1>1. /\ UNCHANGED <<pending, csock, sid, got, asked>>
      /\ \A i : Given(i)' <=> Given(i)
  BY ClientStays
<1>2. /\ Held(toServer') \subseteq Held(toServer) /\ Grows(toClient, toClient')
      /\ loop' = "running" => loop = "running"
  BY SessionSays
<1>3. ASSUME NEW f \in Held(toClient'), f.m = "streamReady" PROVE f.id = FirstId
  <2>1. CASE f \in Held(toClient)
    BY <1>3, <2>1 DEF Served
  <2>2. CASE f \notin Held(toClient)
    <3>1. PICK p \in Behind(toClient, toClient') : f = toClient'[p]
      BY <1>2, <2>2, PipesAreSeqs, GrowsHeld
    <3>2. ~Dull(toClient'[p]) /\ toClient'[p].m = "streamReady"
      BY <1>3, <3>1 DEF Dull
    <3>3. \A k \in Conns : toClient'[p] # Answer(conn[k].seq, TRUE, conn[k].id)
      BY <3>2 DEF Answer
    <3> QED BY <3>1, <3>2, <3>3, SessionSays
  <2> QED BY <2>1, <2>2
<1>4. ASSUME NEW f \in Held(toServer'), f.m = "data" PROVE f.id # NoId /\ Given(f.id)'
  <2>1. PICK i : i = f.id
    OBVIOUS
  <2>2. i # NoId /\ Given(i)
    BY <1>2, <1>4, <2>1 DEF Served
  <2>3. Given(i)'
    BY <1>1, <2>2
  <2> QED BY <2>1, <2>2, <2>3
<1>5. \A f \in Held(toServer) : f.m = "data" => f.id \in Ids
  BY DEF Served, Given, LocalSide
<1>6. ASSUME NEW k \in Conns, NEW i, i = conn'[k].id, conn'[k].got # << >> PROVE Given(i)'
  <2>1. CASE conn[k].got # << >> /\ conn'[k].id = conn[k].id
    <3>1. Given(i)
      BY <1>6, <2>1 DEF Served
    <3> QED BY <1>1, <3>1
  <2>2. CASE /\ toServer # << >> /\ Head(toServer).m = "data" /\ k = streams[Head(toServer).id]
             /\ conn'[k].id = conn[k].id
    <3>1. Head(toServer) \in Held(toServer)
      BY <2>2, PipesAreSeqs, TailHeld
    <3>2. PICK j \in Ids : j = Head(toServer).id
      BY <1>5, <2>2, <3>1
    <3>3. conn[k].id = j
      BY <2>2, <3>2 DEF Basics, IdsInv
    <3>4. Given(i)
      BY <1>6, <2>2, <3>1, <3>2, <3>3 DEF Served
    <3> QED BY <1>1, <3>4
  <2> QED BY <1>6, <2>1, <2>2, SessionGets
<1>7. ASSUME NEW l \in Locals, NEW i, i = sid[l], i # NoId
      PROVE  /\ Settled(i)'
             /\ \A k \in Conns : streams'[i] = k =>
                  /\ Conveys(got[l], toClient', i, k, conn'[k].fwd)
                  /\ loop' = "running" /\ csock = "open" /\ HasPeer(k)' =>
                       Conveys(conn'[k].got, toServer', i, l, asked[l])
  <2>1. Settled(i) /\ i \in Ids
    BY <1>7 DEF Served, Serves, Settled
  <2>2. Settled(i)' /\ (streams'[i] \in Conns => streams'[i] = streams[i])
    BY <2>1, SessionSettled DEF SettledStays
  <2>3. ASSUME NEW k \in Conns, streams'[i] = k
        PROVE  /\ Conveys(got[l], toClient', i, k, conn'[k].fwd)
               /\ loop' = "running" /\ csock = "open" /\ HasPeer(k)' =>
                    Conveys(conn'[k].got, toServer', i, l, asked[l])
    <3>1. streams[i] = k
      BY <2>2, <2>3
    <3>2. /\ Conveys(got[l], toClient, i, k, conn[k].fwd)
          /\ loop = "running" /\ csock = "open" /\ HasPeer(k) =>
               Conveys(conn[k].got, toServer, i, l, asked[l])
      BY <1>7, <3>1 DEF Served, Serves
    <3>3. conn[k].at # "none" /\ IsSeq(got[l]) /\ asked[l] \in Nat
      BY <2>1, <3>1 DEF Basics, IdsInv, FlowTypes
    <3>4. Conveys(got[l], toClient', i, k, conn'[k].fwd)
      <4>1. PICK n \in Nat : n = Len(got[l])
        BY <3>3, LenIsNat
      <4>2. OnTheWay(toClient, i, k, n, conn[k].fwd)
        BY <3>2, <4>1 DEF Conveys
      <4>3. FlowsOn
        BY SessionFlows
      <4>4. OnTheWay(toClient', i, k, n, conn'[k].fwd)
        BY <2>1, <2>3, <4>2, <4>3 DEF FlowsOn
      <4> QED BY <3>2, <4>1, <4>4 DEF Conveys
    <3>5. ASSUME loop' = "running", csock = "open", HasPeer(k)'
          PROVE  Conveys(conn'[k].got, toServer', i, l, asked[l])
      <4>1. HasPeer(k)
        BY <3>3, <3>5, PeerStays
      <4>2. Conveys(conn[k].got, toServer, i, l, asked[l])
        BY <1>2, <3>2, <3>5, <4>1
      <4> QED BY <1>5, <2>1, <3>1, <3>3, <4>1, <4>2, SessionReaches
    <3> QED BY <3>4, <3>5
  <2> QED BY <2>2, <2>3
<1>8. ASSUME NEW l \in Locals, sid'[l] # NoId PROVE Serves(l)'
  <2>1. PICK i : i = sid[l]
    OBVIOUS
  <2>2. i = sid'[l] /\ i # NoId
    BY <1>1, <1>8, <2>1
  <2>3. Settled(sid[l])'
    <3>1. Settled(i)'
      BY <1>7, <2>1, <2>2
    <3> QED BY <2>2, <3>1 DEF Settled
  <2> QED BY <1>1, <1>7, <2>1, <2>2, <2>3 DEF Serves, HasPeer
<1>9. ASSUME NEW k \in Conns, conn'[k].got # << >> PROVE Given(conn[k].id)'
  BY <1>6, <1>9 DEF Given
<1>10. ASSUME NEW k \in Conns PROVE conn'[k].id # NoId
  <2>1. conn[k].id # NoId
    BY DEF Served
  <2>2. conn'[k].id = conn[k].id \/ conn'[k].id \in Nat
    BY DEF SessionStep, Quiet, Tame, Spawns, Joins, Sends, Closes, Opens, Feeds
  <2> QED BY <2>1, <2>2 DEF NoId
<1>11. ASSUME NEW f \in Held(toClient'), f.m = "data" PROVE f.id # NoId
  <2>1. CASE f \in Held(toClient)
    BY <1>11, <2>1 DEF Served
  <2>2. CASE f \notin Held(toClient)
    <3>1. PICK p \in Behind(toClient, toClient') : f = toClient'[p]
      BY <1>2, <2>2, PipesAreSeqs, GrowsHeld
    <3>2. ~Dull(toClient'[p]) /\ toClient'[p].m = "data"
      BY <1>11, <3>1 DEF Dull
    <3>3. \A k \in Conns : toClient'[p] # Answer(conn[k].seq, TRUE, conn[k].id)
      BY <3>2 DEF Answer
    <3>4. PICK k \in Conns : toClient'[p].id = conn[k].id
      BY <3>1, <3>2, <3>3, SessionSays
    <3> QED BY <3>1, <3>4 DEF Served
  <2> QED BY <2>1, <2>2
<1> QED BY <1>3, <1>4, <1>8, <1>9, <1>10, <1>11 DEF Served, Given

LEMMA SessionTalk ==
  ASSUME IInv, Basics, SessionStep, UNCHANGED clientVars, Calm => Talk, Calm'
  PROVE  Talk'
<1>1. Calm /\ Talk
  BY ClientStays
<1>2. LocalSide'
  BY <1>1, ClientStays DEF Talk
<1>3. LocalRequests'
  <2>1. UNCHANGED <<pending, lsock, sid, byId, status>>
    BY ClientStays
  <2>2. Held(toServer') \subseteq Held(toServer)
    BY SessionSays
  <2> QED BY <1>1, <2>1, <2>2 DEF Talk, LocalRequests
<1>4. Tokens'
  <2>1. csock' = csock
    BY ClientStays
  <2>2. ASSUME csock # "closed" PROVE Asking' /\ Owners' /\ Fresh'
    <3>1. LocalRequests /\ Asking /\ Owners /\ Fresh /\ Served
      BY <1>1, <2>2 DEF Talk, Tokens
    <3> QED BY <3>1, SessionAsks, SessionOwns, SessionFresh
  <2> QED BY <2>1, <2>2 DEF Tokens
<1>5. Served'
  BY <1>1, SessionServes DEF Talk
<1> QED BY <1>2, <1>3, <1>4, <1>5 DEF Talk

-----------------------------------------------------------------------------
(* Steps of the client, as a conversation sees them *)

RemoteStays ==
  UNCHANGED <<loop, nextId, streams, conn, child>>

LEMMA RemoteIs == UNCHANGED remoteVars => RemoteStays
BY DEF remoteVars, streamVars, childVars, RemoteStays

LEMMA SettledKeeps ==
  ASSUME RemoteStays, NEW i, Settled(i), i = FirstId => ~OnPipe("startStream")'
  PROVE  Settled(i)'
BY DEF RemoteStays, Settled

\* Who asks for a stream of its own does not disturb who has one.
LEMMA ServesKeeps ==
  ASSUME IInv, Basics, RemoteStays, NEW l \in Locals, sid[l] # NoId, Serves(l),
         sid'[l] = sid[l], got'[l] = got[l], asked'[l] = asked[l],
         toClient' = toClient \/ (toClient # << >> /\ toClient' = Tail(toClient)
                                  /\ ~IsChunk(Head(toClient), sid[l])),
         sid[l] = FirstId => ~OnPipe("startStream")',
         csock' = "open" => /\ csock = "open" /\ Grows(toServer, toServer')
                            /\ \A p \in Behind(toServer, toServer') : ~IsChunk(toServer'[p], sid[l])
  PROVE  Serves(l)'
<1>1. PICK i : i = sid[l]
  OBVIOUS
<1>2. Settled(i)'
  <2>1. Settled(i)
    BY <1>1 DEF Serves
  <2> QED BY <1>1, <2>1, SettledKeeps
<1>3. IsSeq(toServer) /\ IsSeq(toClient) /\ IsSeq(got[l]) /\ asked[l] \in Nat
  BY PipesAreSeqs DEF Basics, FlowTypes
<1>4. ASSUME NEW k \in Conns, streams[i] = k
      PROVE  /\ Conveys(got[l], toClient', i, k, conn[k].fwd)
             /\ loop = "running" /\ csock' = "open" /\ HasPeer(k) => Conveys(conn[k].got, toServer', i, l, asked[l])
  <2>1. /\ Conveys(got[l], toClient, i, k, conn[k].fwd)
        /\ loop = "running" /\ csock = "open" /\ HasPeer(k) => Conveys(conn[k].got, toServer, i, l, asked[l])
    BY <1>1, <1>4 DEF Serves
  <2>2. conn[k].fwd \in Nat
    BY DEF Basics, FlowTypes
  <2>3. Conveys(got[l], toClient', i, k, conn[k].fwd)
    <3>1. PICK s, t, g : s = toClient /\ t = toClient' /\ g = got[l]
      OBVIOUS
    <3>2. IsSeq(s) /\ IsSeq(g) /\ Conveys(g, s, i, k, conn[k].fwd)
      BY <1>3, <2>1, <3>1
    <3>3. t = s \/ (s # << >> /\ t = Tail(s) /\ ~IsChunk(Head(s), i))
      BY <1>1, <3>1
    <3>4. Conveys(g, t, i, k, conn[k].fwd)
      BY <2>2, <3>2, <3>3, NextConveys
    <3> QED BY <3>1, <3>4
  <2>4. ASSUME loop = "running", csock' = "open", HasPeer(k)
        PROVE  Conveys(conn[k].got, toServer', i, l, asked[l])
    <3>1. Conveys(conn[k].got, toServer, i, l, asked[l])
      BY <2>1, <2>4
    <3>2. Grows(toServer, toServer') /\ \A p \in Behind(toServer, toServer') : ~IsChunk(toServer'[p], i)
      BY <1>1, <2>4
    <3>3. PICK n : n = Len(conn[k].got)
      OBVIOUS
    <3>4. OnTheWay(toServer, i, l, n, asked[l])
      BY <3>1, <3>3 DEF Conveys
    <3>5. OnTheWay(toServer', i, l, n, asked[l])
      BY <1>3, <3>2, <3>4, GrowsOnTheWay
    <3> QED BY <3>1, <3>3, <3>5 DEF Conveys
  <2> QED BY <2>3, <2>4
<1>5. UNCHANGED <<streams, conn, loop, child>>
  BY DEF RemoteStays
<1>6. Settled(sid[l])'
  BY <1>1, <1>2 DEF Settled
<1> QED BY <1>1, <1>4, <1>5, <1>6 DEF Serves, HasPeer

LEMMA ServedKeeps ==
  ASSUME Served, RemoteStays, Held(toClient') \subseteq Held(toClient),
         \A f \in Held(toServer') : \A i : f.m = "data" /\ i = f.id => f \in Held(toServer) \/ (i # NoId /\ Given(i)'),
         \A i : i # NoId /\ Given(i) => Given(i)',
         \A l \in Locals : sid'[l] # NoId => Serves(l)'
  PROVE  Served'
<1>1. ASSUME NEW f \in Held(toServer'), f.m = "data" PROVE f.id # NoId /\ Given(f.id)'
  <2>1. PICK i : i = f.id
    OBVIOUS
  <2>2. i # NoId /\ Given(i)'
    BY <1>1, <2>1 DEF Served
  <2> QED BY <2>1, <2>2
<1>2. ASSUME NEW k \in Conns, conn'[k].got # << >> PROVE Given(conn[k].id)'
  <2>1. PICK i : i = conn[k].id
    OBVIOUS
  <2>2. conn' = conn
    BY DEF RemoteStays
  <2>3. Given(i)'
    BY <1>2, <2>1, <2>2 DEF Served
  <2> QED BY <2>1, <2>2, <2>3 DEF Given
<1>3. \A k \in Conns : conn'[k].id # NoId
  BY DEF Served, RemoteStays
<1> QED BY <1>1, <1>2, <1>3 DEF Served

LEMMA AskedKeeps ==
  ASSUME IInv, LocalRequests,
         \A r \in pending' : r.of \in Locals =>
           /\ r \in pending /\ lsock'[r.of] = lsock[r.of] /\ sid'[r.of] = sid[r.of] /\ byId'[NoId] = byId[NoId]
           /\ status' = status,
         \A f \in Held(toServer') : Marked(f) => f \in Held(toServer) \/ f.seq = nextSeq
  PROVE  LocalRequests'
<1>1. ASSUME NEW r \in pending', r.of \in Locals
      PROVE  /\ lsock'[r.of] = "open" /\ sid'[r.of] = NoId /\ byId'[NoId] = r.of
             /\ r.dup <=> status' = "connected"
             /\ \A q \in pending' : q.of \in Locals => q = r
             /\ \A f \in Held(toServer') :
                  Marked(f) /\ f.seq = r.seq => f.m = IF r.dup THEN "duplicateStream" ELSE "startStream"
  <2>1. r \in pending /\ r.seq # nextSeq
    BY <1>1 DEF IInv, NumberInv
  <2>2. /\ lsock[r.of] = "open" /\ sid[r.of] = NoId /\ byId[NoId] = r.of
        /\ r.dup <=> status = "connected"
        /\ \A q \in pending : q.of \in Locals => q = r
        /\ \A f \in Held(toServer) :
             Marked(f) /\ f.seq = r.seq => f.m = IF r.dup THEN "duplicateStream" ELSE "startStream"
    BY <1>1, <2>1 DEF LocalRequests
  <2>3. lsock'[r.of] = "open" /\ sid'[r.of] = NoId /\ byId'[NoId] = r.of
    BY <1>1, <2>2
  <2>4. r.dup <=> status' = "connected"
    BY <1>1, <2>2
  <2>5. \A q \in pending' : q.of \in Locals => q = r
    BY <2>2
  <2>6. \A f \in Held(toServer') :
          Marked(f) /\ f.seq = r.seq => f.m = IF r.dup THEN "duplicateStream" ELSE "startStream"
    BY <2>1, <2>2
  <2> QED BY <2>3, <2>4, <2>5, <2>6
<1> QED BY <1>1 DEF LocalRequests

\* The first frame gives nobody a stream: what is promised remains so.
LEMMA OwnedKeeps ==
  ASSUME IInv, Hears,
         \A r : r.of \in Locals /\ r \in pending => r \in pending',
         \A i : Given(i) => Given(i)',
         toClient' = toClient \/ \A r \in pending : r.of \in Locals =>
           ~(Head(toClient).m = "response" /\ Head(toClient).seq = r.seq),
         NEW i, NEW n \in Int, NEW m \in Int,
         (toClient' = toClient /\ m = n) \/ (toClient # << >> /\ toClient' = Tail(toClient) /\ m = n - 1),
         Owned(i, n)
  PROVE  Owned(i, m)'
<1>1. CASE Given(i)
  <2>1. Given(i)'
    BY <1>1
  <2> QED BY <2>1 DEF Owned
<1>2. CASE Promised(i, n)
  <2>1. PICK r \in pending, p \in 1 .. Len(toClient) : r.of \in Locals /\ p <= n /\ Grants(toClient[p], r, i)
    BY <1>2 DEF Promised
  <2>2. CASE toClient' = toClient /\ m = n
    BY <2>1, <2>2 DEF Owned, Promised, Grants
  <2>3. CASE toClient # << >> /\ toClient' = Tail(toClient) /\ m = n - 1 /\ toClient' # toClient
    <3>1. p # 1
      BY <2>1, <2>3, PipesAreSeqs, TailAt DEF Grants
    <3>2. p - 1 \in 1 .. Len(toClient') /\ toClient'[p - 1] = toClient[p] /\ p - 1 <= m
      <4>1. Len(toClient') = Len(toClient) - 1 /\ Len(toClient) \in Nat \ {0}
            /\ \A q \in 1 .. Len(toClient') : toClient'[q] = toClient[q + 1]
        BY <2>3, PipesAreSeqs, TailAt
      <4>2. p - 1 \in 1 .. Len(toClient')
        BY <3>1, <4>1
      <4>3. (p - 1) + 1 = p /\ p - 1 <= m
        BY <2>1, <2>3
      <4> QED BY <4>1, <4>2, <4>3
    <3>3. PICK q \in 1 .. Len(toClient') : q <= m /\ Grants(toClient'[q], r, i)
      BY <2>1, <3>2
    <3>4. r \in pending'
      BY <2>1
    <3> QED BY <2>1, <3>3, <3>4 DEF Owned, Promised, Grants
  <2>4. CASE toClient' = Tail(toClient) /\ toClient' = toClient /\ toClient # << >>
    <3>1. Len(toClient') = Len(toClient) - 1 /\ Len(toClient) \in Nat
      BY <2>4, PipesAreSeqs, TailAt
    <3>2. PICK x \in Nat : x = Len(toClient)
      BY <3>1
    <3>3. Len(toClient') = x
      BY <2>4, <3>2
    <3>4. x = x - 1
      BY <3>1, <3>2, <3>3
    <3> QED BY <3>4
  <2> QED BY <2>2, <2>3, <2>4
<1> QED BY <1>1, <1>2 DEF Owned

LEMMA CalmBefore ==
  ASSUME IInv, Basics, Client \/ LinkFreezes \/ LinkBreaks, Calm'
  PROVE  Calm
<1>1. ASSUME SocketCloses PROVE server' # "closed" => server # "closed"
  BY <1>1 DEF SocketCloses, CloseServer
<1>2. ASSUME Receive PROVE UNCHANGED restless /\ (server' # "closed" => server # "closed")
  <2>1. toClient # << >> /\ Head(toClient) \in Held(toClient)
    BY <1>2, PipesAreSeqs, TailHeld DEF Receive
  <2>2. CASE Head(toClient).m = "response"
    BY <1>2, <2>2 DEF Receive, Answered, Ignored, clientVars, localVars
  <2>3. CASE Head(toClient).m = "streamReady"
    <3>1. server = "none"
      BY <2>1, <2>3 DEF Basics, LaunchInv, Heralded
    <3> QED BY <1>2, <2>3, <3>1 DEF Receive, StreamReady
  <2>4. CASE Head(toClient).m = "streamClosed"
    BY <1>2, <2>4 DEF Receive, RemoteClosed, CloseServer
  <2>5. CASE Head(toClient).m = "data"
    BY <1>2, <2>5 DEF Receive, FromProxy
  <2>6. CASE Head(toClient).m = "gdbServerExited"
    BY <1>2, <2>6 DEF Receive, ServerExitHeard, localVars
  <2>7. CASE Head(toClient).m = "eof"
    BY <1>1, <1>2, <2>7 DEF Receive, EofHeard
  <2>8. CASE Head(toClient).m \notin {"response", "streamReady", "streamClosed", "data", "gdbServerExited", "eof"}
    BY <1>2, <2>8 DEF Receive, Ignored, clientVars, localVars
  <2> QED BY <2>2, <2>3, <2>4, <2>5, <2>6, <2>7, <2>8
<1>3. ASSUME SendSetup \/ ExitTimer \/ LaunchTimer \/ SpawnsLocally \/ LinkFreezes
      PROVE  UNCHANGED <<restless, server>>
  BY <1>3 DEF SendSetup, ExitTimer, LaunchTimer, SpawnsLocally, LinkFreezes, localVars
<1>4. ASSUME Listening PROVE UNCHANGED restless /\ server # "closed"
  BY <1>4 DEF Listening
<1>5. ASSUME Stop PROVE UNCHANGED restless /\ (server' # "closed" => server # "closed")
  BY <1>5 DEF Stop, CloseServer
<1>6. ASSUME CloseTimer \/ LinkBreaks PROVE UNCHANGED restless /\ (server' # "closed" => server # "closed")
  BY <1>1, <1>6 DEF CloseTimer, LinkBreaks
<1>7. ASSUME NEW r \in pending, Timeout(r) PROVE restless \subseteq restless' /\ UNCHANGED server
  BY <1>7 DEF Timeout
<1>8. ASSUME NEW l, Connect(l) \/ LocalSends(l) PROVE UNCHANGED <<restless, server>>
  BY <1>8 DEF Connect, LocalSends
<1>9. ASSUME NEW l, LocalCloses(l) PROVE restless \subseteq restless' /\ UNCHANGED server
  BY <1>9 DEF LocalCloses
<1>10. restless \subseteq restless' /\ (server' # "closed" => server # "closed")
  BY <1>2, <1>3, <1>4, <1>5, <1>6, <1>7, <1>8, <1>9 DEF Client, Timers
<1>11. restless' = {} /\ server' # "closed"
  BY DEF Calm
<1>12. restless = {}
  BY <1>10, <1>11
<1> QED BY <1>10, <1>11, <1>12 DEF Calm

\* Who asks, owes and is promised stays, as long as the local clients' requests do.
LEMMA TokensKeep ==
  ASSUME IInv, Basics, Tokens, RemoteStays, Hears,
         csock' # "closed" => csock # "closed",
         \A r : r.of \in Locals => (r \in pending' <=> r \in pending),
         UNCHANGED sid,
         \A f \in Held(toServer') : f.m \in {"startStream", "duplicateStream"} => f \in Held(toServer),
         toClient' = toClient \/ \A r \in pending : r.of \in Locals =>
           ~(Head(toClient).m = "response" /\ Head(toClient).seq = r.seq)
  PROVE  Tokens'
<1> SUFFICES ASSUME csock' # "closed" PROVE Asking' /\ Owners' /\ Fresh'
  BY DEF Tokens
<1>1. Asking /\ Owners /\ Fresh
  BY DEF Tokens
<1>2. UNCHANGED <<conn, streams, nextId, loop, child>>
  BY DEF RemoteStays
<1>3. \A i : Given(i)' <=> Given(i)
  BY DEF Given
<1>4. Asking'
  BY <1>1, <1>2 DEF Asking
<1>5. ASSUME NEW i, NEW n \in Int, NEW m \in Int, Owned(i, n),
             (toClient' = toClient /\ m = n) \/ (toClient # << >> /\ toClient' = Tail(toClient) /\ m = n - 1)
      PROVE  Owned(i, m)'
  BY <1>3, <1>5, OwnedKeeps
<1>6. Len(toClient) \in Nat /\ Len(toClient') \in Nat
      /\ (toClient' = toClient \/ (toClient # << >> /\ toClient' = Tail(toClient)))
      /\ (toClient' # toClient => Len(toClient') = Len(toClient) - 1
                                  /\ \A p \in 1 .. Len(toClient') : toClient'[p] = toClient[p + 1])
  <2>1. CASE toClient' = toClient
    BY <2>1, PipesAreSeqs, LenIsNat
  <2>2. CASE toClient # << >> /\ toClient' = Tail(toClient)
    BY <2>2, PipesAreSeqs, LenIsNat, TailAt
  <2> QED BY <2>1, <2>2 DEF Hears
<1>7. Owners'
  <2>1. ASSUME NEW k \in Conns, NEW i, NEW n, conn'[k].at \in {"forwarding", "mute"},
               i = conn'[k].id, n = Len(toClient')
        PROVE  Owned(i, n)'
    <3>1. PICK m \in Nat : m = Len(toClient)
      BY <1>6
    <3>2. Owned(i, m)
      BY <1>1, <1>2, <2>1, <3>1 DEF Owners
    <3>3. n \in Nat /\ ((toClient' = toClient /\ n = m) \/ (toClient # << >> /\ toClient' = Tail(toClient) /\ n = m - 1))
      BY <1>6, <2>1, <3>1
    <3> QED BY <1>5, <3>2, <3>3
  <2>2. ASSUME NEW p \in 1 .. Len(toClient'), NEW i, toClient'[p].m = "data", i = toClient'[p].id
        PROVE  Owned(i, p)'
    <3>1. CASE toClient' = toClient
      <4>1. Owned(i, p)
        BY <1>1, <2>2, <3>1 DEF Owners
      <4> QED BY <1>5, <3>1, <4>1
    <3>2. CASE toClient' # toClient
      <4>1. p + 1 \in 1 .. Len(toClient) /\ toClient'[p] = toClient[p + 1]
        BY <1>6, <3>2
      <4>2. PICK n \in Int : n = p + 1 /\ p = n - 1
        OBVIOUS
      <4>3. Owned(i, n)
        BY <1>1, <2>2, <4>1, <4>2 DEF Owners
      <4> QED BY <1>5, <1>6, <3>2, <4>2, <4>3
    <3> QED BY <3>1, <3>2
  <2> QED BY <2>1, <2>2, OwnersNext
<1>8. Fresh'
  <2>1. ASSUME NEW r \in pending', NEW f \in Held(toClient'), r.of \in Locals, NEW i, i = f.id, Grants(f, r, i)
        PROVE  /\ Settled(i)' /\ ~Given(i)' /\ (r.dup <=> i # FirstId)
               /\ \A k \in Conns : streams[i] = k => OnTheWay(toClient', i, k, 0, conn[k].fwd)
    <3>1. r \in pending /\ f \in Held(toClient)
      BY <2>1, HearsHeld
    <3>2. /\ Settled(i) /\ ~Given(i) /\ (r.dup <=> i # FirstId)
          /\ \A k \in Conns : streams[i] = k => OnTheWay(toClient, i, k, 0, conn[k].fwd)
      BY <1>1, <2>1, <3>1 DEF Fresh
    <3>3. i = FirstId => ~OnPipe("startStream")'
      BY <3>2 DEF Settled, OnPipe
    <3>4. Settled(i)'
      BY <3>2, <3>3, SettledKeeps
    <3>5. ASSUME NEW k \in Conns, streams[i] = k
          PROVE  OnTheWay(toClient', i, k, 0, conn[k].fwd)
      <4>1. OnTheWay(toClient, i, k, 0, conn[k].fwd) /\ conn[k].fwd \in Nat
        BY <3>2, <3>5 DEF Basics, FlowTypes
      <4>2. CASE toClient' = toClient
        BY <4>1, <4>2
      <4>3. CASE toClient # << >> /\ toClient' = Tail(toClient) /\ toClient' # toClient
        <5>1. ~IsChunk(Head(toClient), i)
          <6> SUFFICES ASSUME IsChunk(Head(toClient), i) PROVE FALSE
            OBVIOUS
          <6>1. 1 \in 1 .. Len(toClient) /\ toClient[1] = Head(toClient)
            <7>1. Len(toClient) \in Nat \ {0} /\ Head(toClient) = toClient[1]
              BY <4>3, PipesAreSeqs, TailAt
            <7> QED BY <7>1
          <6>2. Owned(i, 1)
            BY <1>1, <6>1 DEF Owners, IsChunk
          <6>3. Promised(i, 1)
            BY <3>2, <6>2 DEF Owned
          <6>4. PICK q \in pending, p \in 1 .. Len(toClient) : p <= 1 /\ Grants(toClient[p], q, i)
            BY <6>3 DEF Promised
          <6>5. p = 1
            BY <6>4
          <6> QED BY <6>1, <6>4, <6>5 DEF Grants, IsChunk
        <5>2. OnTheWay(Tail(toClient), i, k, 0, conn[k].fwd)
          BY <4>1, <4>3, <5>1, PipesAreSeqs, TailOnTheWay
        <5> QED BY <4>3, <5>2
      <4> QED BY <4>2, <4>3, <1>6
    <3> QED BY <1>3, <3>2, <3>4, <3>5
  <2>2. ASSUME NEW r \in pending', NEW f \in Held(toClient'), r.of \in Locals, Grants(f, r, f.id)
        PROVE  /\ Settled(f.id)' /\ ~Given(f.id)' /\ (r.dup <=> f.id # FirstId)
               /\ \A k \in Conns : streams'[f.id] = k => OnTheWay(toClient', f.id, k, 0, conn'[k].fwd)
    <3>1. PICK i : i = f.id
      OBVIOUS
    <3>2. Grants(f, r, i)
      BY <2>2, <3>1
    <3>3. /\ Settled(i)' /\ ~Given(i)' /\ (r.dup <=> i # FirstId)
          /\ \A k \in Conns : streams[i] = k => OnTheWay(toClient', i, k, 0, conn[k].fwd)
      BY <2>1, <2>2, <3>1, <3>2
    <3> QED BY <1>2, <3>1, <3>3
  <2> QED BY <2>2 DEF Fresh, Grants
<1> QED BY <1>4, <1>7, <1>8

\* A step of the client that is of no local client.
Idle ==
  /\ UNCHANGED <<status, known, sid, toBuf, fromBuf, got, asked, byId, sockets>>
  /\ \A l \in Locals : lsock'[l] = lsock[l]
  /\ server' = "none" <=> server = "none"
  /\ Hears
  /\ \A r : r.of \in Locals => (r \in pending' <=> r \in pending)
  /\ csock' = "closed" => csock = "closed" /\ pending' \subseteq pending
  /\ csock' # "closed" => csock # "closed"
  /\ csock' = "open" => csock = "open"
  /\ Grows(toServer, toServer')
  /\ \A p \in Behind(toServer, toServer') :
       \/ toServer'[p].m = "eof"
       \/ toServer'[p].seq = nextSeq /\ toServer'[p].m \notin {"data", "startStream", "duplicateStream"}
  /\ toClient' = toClient \/
       (Head(toClient).m # "data" /\ \A r \in pending : r.of \in Locals =>
          ~(Head(toClient).m = "response" /\ Head(toClient).seq = r.seq))

LEMMA IdleTalk ==
  ASSUME IInv, Basics, Talk, RemoteStays, Idle
  PROVE  Talk'
<1>1. LocalSide /\ LocalRequests /\ Tokens /\ Served
  BY DEF Talk
<1>2. /\ UNCHANGED <<status, known, sid, toBuf, fromBuf, got, asked, byId, sockets>>
      /\ \A l \in Locals : lsock'[l] = lsock[l]
      /\ server' = "none" <=> server = "none"
      /\ csock' = "closed" => csock = "closed" /\ pending' \subseteq pending
  BY DEF Idle
<1>3. \A f \in Held(toServer') :
         \/ f \in Held(toServer) \/ f.m = "eof"
         \/ f.seq = nextSeq /\ f.m \notin {"data", "startStream", "duplicateStream"}
  <2>1. Grows(toServer, toServer')
    BY DEF Idle
  <2>2. \A f \in Held(toServer') : f \in Held(toServer) \/ \E p \in Behind(toServer, toServer') : f = toServer'[p]
    BY <2>1, PipesAreSeqs, GrowsHeld
  <2> QED BY <2>2 DEF Idle
<1>4. LocalSide'
  <2>1. csock' = "closed" => pending' = {}
    BY <1>1, <1>2 DEF LocalSide
  <2>2. \A l \in sockets : l \in Locals
    BY DEF Basics, FlowTypes
  <2> QED BY <1>1, <1>2, <2>1, <2>2 DEF LocalSide
<1>5. LocalRequests'
  <2>1. \A r \in pending' : r.of \in Locals => r \in pending
    BY DEF Idle
  <2>2. \A f \in Held(toServer') : Marked(f) => f \in Held(toServer) \/ f.seq = nextSeq
    BY <1>3 DEF Marked, Marks
  <2>3. \A r \in pending' : r.of \in Locals =>
           /\ r \in pending /\ lsock'[r.of] = lsock[r.of] /\ sid'[r.of] = sid[r.of] /\ byId'[NoId] = byId[NoId]
           /\ status' = status
    BY <1>2, <2>1
  <2> QED BY <1>1, <2>2, <2>3, AskedKeeps
<1>6. Tokens'
  <2>1. /\ Hears /\ (csock' # "closed" => csock # "closed") /\ sid' = sid
        /\ \A r : r.of \in Locals => (r \in pending' <=> r \in pending)
        /\ toClient' = toClient \/ \A r \in pending : r.of \in Locals =>
             ~(Head(toClient).m = "response" /\ Head(toClient).seq = r.seq)
    BY DEF Idle
  <2>2. \A f \in Held(toServer') : f.m \in {"startStream", "duplicateStream"} => f \in Held(toServer)
    BY <1>3
  <2> QED BY <1>1, <2>1, <2>2, TokensKeep
<1>7. Served'
  <2>1. Held(toClient') \subseteq Held(toClient)
    BY HearsHeld DEF Idle
  <2>2. \A f \in Held(toServer') : \A i : f.m = "data" /\ i = f.id => f \in Held(toServer)
    BY <1>3
  <2>3. \A i : Given(i) => Given(i)'
    BY <1>2 DEF Given
  <2>4. ASSUME NEW l \in Locals, sid[l] # NoId PROVE Serves(l)'
    <3>1. Serves(l)
      BY <1>1, <2>4 DEF Served
    <3>2. toClient' = toClient \/ (toClient # << >> /\ toClient' = Tail(toClient) /\ ~IsChunk(Head(toClient), sid[l]))
      BY DEF Idle, Hears, IsChunk
    <3>3. sid[l] = FirstId => ~OnPipe("startStream")'
      <4> SUFFICES ASSUME sid[l] = FirstId, NEW f \in Held(toServer'), f.m = "startStream" PROVE FALSE
        BY DEF OnPipe
      <4>1. f \in Held(toServer)
        BY <1>3
      <4> QED BY <3>1, <4>1 DEF Serves, Settled, OnPipe
    <3>4. csock' = "open" => /\ csock = "open" /\ Grows(toServer, toServer')
                             /\ \A p \in Behind(toServer, toServer') : ~IsChunk(toServer'[p], sid[l])
      BY DEF Idle, IsChunk
    <3> QED BY <1>2, <2>4, <3>1, <3>2, <3>3, <3>4, ServesKeeps
  <2>5. \A l \in Locals : sid'[l] # NoId => Serves(l)'
    BY <1>2, <2>4
  <2> QED BY <1>1, <2>1, <2>2, <2>3, <2>5, ServedKeeps
<1> QED BY <1>4, <1>5, <1>6, <1>7 DEF Talk

-----------------------------------------------------------------------------
(* The connection to the Probe Agent closes *)

\* Nothing is asked or written any more.
LEMMA ClosedServed ==
  ASSUME IInv, Basics, Served, RemoteStays, Hears,
         UNCHANGED <<sid, got, asked>>, csock' # "open",
         \A f \in Held(toServer') : f \in Held(toServer) \/ f.m = "eof",
         toClient' = toClient \/ Head(toClient).m # "data"
  PROVE  Served'
<1>1. Held(toClient') \subseteq Held(toClient)
  BY HearsHeld
<1>2. \A f \in Held(toServer') : \A i : f.m = "data" /\ i = f.id => f \in Held(toServer)
  OBVIOUS
<1>3. \A i : Given(i) => Given(i)'
  BY DEF Given
<1>4. ASSUME NEW l \in Locals, sid[l] # NoId PROVE Serves(l)'
  <2>1. Serves(l)
    BY <1>4 DEF Served
  <2>2. toClient' = toClient \/ (toClient # << >> /\ toClient' = Tail(toClient) /\ ~IsChunk(Head(toClient), sid[l]))
    BY DEF Hears, IsChunk
  <2>3. sid[l] = FirstId => ~OnPipe("startStream")'
    BY <2>1 DEF Serves, Settled, OnPipe
  <2>4. sid'[l] = sid[l] /\ got'[l] = got[l] /\ asked'[l] = asked[l]
    OBVIOUS
  <2> QED BY <1>4, <2>1, <2>2, <2>3, <2>4, ServesKeeps
<1>5. \A l \in Locals : sid'[l] # NoId => Serves(l)'
  BY <1>4
<1> QED BY <1>1, <1>2, <1>3, <1>5, ServedKeeps

\* No local server, no local client.
LEMMA NoServerNobody ==
  ASSUME LocalSide, LocalRequests, OpenInv, server = "none"
  PROVE  /\ sockets = {} /\ known = {} /\ status # "connected"
         /\ \A l \in Locals : lsock[l] = "none" /\ sid[l] = NoId
         /\ \A r \in pending : r.of \notin Locals
BY DEF LocalSide, LocalRequests, OpenInv

LEMMA CloseNothing ==
  ASSUME Basics, LocalSide, LocalRequests, OpenInv, NEW rs, rs \subseteq pending, CloseServer(rs), server' # "closed"
  PROVE  /\ server = "none" /\ server' = "none" /\ sockets' = {} /\ (\A l \in Locals : lsock'[l] = lsock[l])
         /\ \A i \in Ids \cup {NoId} : byId'[i] = Nobody
<1>1. server = "none" /\ server' = "none"
  BY DEF CloseServer
<1>2. sockets' = {} /\ DOMAIN lsock' = Locals
      /\ \A i \in Ids \cup {NoId} : byId'[i] = Nobody
      /\ \A l \in Locals : l \notin sockets => lsock'[l] = lsock[l]
  BY ServerCloses
<1>3. \A l \in Locals : lsock'[l] = lsock[l]
  BY <1>1, <1>2, NoServerNobody
<1> QED BY <1>1, <1>2, <1>3

LEMMA SocketTalk ==
  ASSUME IInv, Basics, OpenInv, Talk, RemoteStays, SocketCloses, Hears, UNCHANGED asked, server' # "closed",
         toServer' = toServer \/ toServer' = <<Eof>>,
         toClient' = toClient \/ Head(toClient).m # "data"
  PROVE  Talk'
<1>1. LocalSide /\ LocalRequests /\ Tokens /\ Served
  BY DEF Talk
<1>2. csock' = "closed" /\ pending' = {} /\ UNCHANGED <<status, sid, toBuf, fromBuf, got>>
  BY DEF SocketCloses
<1>3. Served'
  <2>1. \A f \in Held(toServer') : f \in Held(toServer) \/ f.m = "eof"
    <3>1. CASE toServer' = toServer
      BY <3>1
    <3>2. CASE toServer' = <<Eof>>
      <4>1. Held(toServer') = {Eof}
        BY <3>2, OneHeld
      <4> QED BY <4>1 DEF Eof
    <3> QED BY <3>1, <3>2
  <2>2. csock' # "open"
    BY <1>2
  <2> QED BY <1>1, <1>2, <2>1, <2>2, ClosedServed
<1>4. LocalSide'
  <2>1. CASE stopping \in {"ending", "closing"}
    <3>1. CloseServer(pending) /\ known' = {}
      BY <2>1 DEF SocketCloses
    <3>2. /\ server = "none" /\ server' = "none" /\ sockets' = {} /\ (\A l \in Locals : lsock'[l] = lsock[l])
          /\ \A i \in Ids \cup {NoId} : byId'[i] = Nobody
      BY <1>1, <3>1, CloseNothing
    <3>3. status # "connected" /\ \A l \in Locals : lsock[l] = "none" /\ sid[l] = NoId
      BY <1>1, <3>2, NoServerNobody
    <3> QED BY <1>1, <1>2, <3>1, <3>2, <3>3 DEF LocalSide
  <2>2. CASE stopping \notin {"ending", "closing"}
    <3>1. lsock' = Ended(pending) /\ UNCHANGED <<known, server, sockets, byId>>
      BY <2>2 DEF SocketCloses
    <3>2. ASSUME NEW l \in Locals
          PROVE  /\ lsock'[l] = lsock[l] \/ (lsock'[l] = "ended" /\ sid[l] = NoId /\ byId[NoId] = l /\ lsock[l] = "open")
      BY <1>1, <3>1, EndedOpens DEF LocalRequests
    <3>3. server' = "none" => status = "starting" /\ known' = {} /\ \A l \in Locals : lsock'[l] = "none"
      BY <1>1, <3>1, <3>2 DEF LocalSide
    <3>4. \A l \in sockets : byId[NoId] = l \/ (lsock'[l] = "open" /\ sid[l] # NoId)
      BY <1>1, <3>2 DEF LocalSide, Basics, FlowTypes
    <3>5. \A l \in Locals : sid[l] # NoId =>
             lsock'[l] = "open" /\ sid[l] \in Ids /\ byId[sid[l]] = l /\ sid[l] \in known /\ status = "connected"
      BY <1>1, <3>2 DEF LocalSide
    <3>6. /\ \A l \in Locals : lsock'[l] = "none" => asked[l] = 0
          /\ \A l \in Locals : lsock'[l] \in {"none", "open"} /\ sid[l] = NoId => toBuf[l] = Upto(l, asked[l])
      BY <1>1, <3>2 DEF LocalSide
    <3> QED BY <1>1, <1>2, <3>1, <3>3, <3>4, <3>5, <3>6 DEF LocalSide
  <2> QED BY <2>1, <2>2
<1>5. LocalRequests' /\ Tokens'
  BY <1>2 DEF LocalRequests, Tokens
<1> QED BY <1>3, <1>4, <1>5 DEF Talk

LEMMA IdlePost ==
  ASSUME IInv, NEW f, Post(<<f>>),
         f.m = "eof" \/ (f.seq = nextSeq /\ f.m \notin {"data", "startStream", "duplicateStream"})
  PROVE  /\ Grows(toServer, toServer')
         /\ \A p \in Behind(toServer, toServer') :
              \/ toServer'[p].m = "eof"
              \/ toServer'[p].seq = nextSeq /\ toServer'[p].m \notin {"data", "startStream", "duplicateStream"}
<1>1. /\ Grows(toServer, toServer')
      /\ \A p \in Behind(toServer, toServer') : toServer'[p] = f
  BY PostsOne
<1> QED BY <1>1

LEMMA IdleSilence ==
  ASSUME IInv, UNCHANGED toServer
  PROVE  Grows(toServer, toServer') /\ Behind(toServer, toServer') = {}
<1>1. Len(toServer) \in Nat /\ IsSeq(toServer)
  BY PipesAreSeqs, LenIsNat
<1> QED BY <1>1 DEF Grows, Behind

LEMMA IdleEof ==
  ASSUME IInv, HalfClose
  PROVE  /\ Grows(toServer, toServer')
         /\ \A p \in Behind(toServer, toServer') : toServer'[p].m = "eof"
<1> DEFINE f == Eof
<1>1. f.m = "eof" /\ toServer' = Append(toServer, f)
  BY DEF HalfClose, Eof
<1> HIDE DEF f
<1>2. Grows(toServer, toServer') /\ \A p \in Behind(toServer, toServer') : toServer'[p] = f
  BY <1>1, PipesAreSeqs, AppendGrows
<1> QED BY <1>1, <1>2

LEMMA SetupIdle ==
  ASSUME IInv, Basics, LocalSide, SendSetup
  PROVE  Idle
<1>1. /\ UNCHANGED <<status, known, sid, toBuf, fromBuf, got, asked, byId, sockets, lsock, server, csock, toClient>>
  BY DEF SendSetup, localVars
<1>2. CASE csock = "closed"
  <2>1. UNCHANGED <<pending, toServer>>
    BY <1>2 DEF SendSetup
  <2> QED BY <1>1, <2>1, IdleSilence DEF Idle, Hears
<1>3. CASE csock # "closed"
  <2> DEFINE f == [m |-> Steps[step], seq |-> nextSeq, id |-> 0]
  <2>1. /\ pending' = pending \cup {[seq |-> nextSeq, of |-> "setup", dup |-> FALSE]}
        /\ Post(<<f>>)
    BY <1>3 DEF SendSetup, Ask
  <2>2. f.m = Steps[step] /\ f.seq = nextSeq
    OBVIOUS
  <2> HIDE DEF f
  <2>3. Steps[step] \notin {"data", "startStream", "duplicateStream"}
    <3>1. step \in Nat \ {0} /\ Len(Steps) = 4
      BY DEF Basics, LaunchInv, Steps
    <3>2. step <= Len(Steps)
      BY DEF SendSetup
    <3>3. step = 1 \/ step = 2 \/ step = 3 \/ step = 4
      BY <3>1, <3>2
    <3> QED BY <3>3 DEF Steps
  <2>4. /\ Grows(toServer, toServer')
        /\ \A p \in Behind(toServer, toServer') :
              \/ toServer'[p].m = "eof"
              \/ toServer'[p].seq = nextSeq /\ toServer'[p].m \notin {"data", "startStream", "duplicateStream"}
    BY <2>1, <2>2, <2>3, IdlePost
  <2>5. \A r : r.of \in Locals => (r \in pending' <=> r \in pending)
    <3>1. "setup" \notin Locals
      BY ClientAssumption
    <3> QED BY <2>1, <3>1
  <2> QED BY <1>1, <1>3, <2>4, <2>5 DEF Idle, Hears
<1> QED BY <1>2, <1>3

LEMMA TimersIdle ==
  ASSUME IInv, Basics, ExitTimer \/ LaunchTimer \/ SpawnsLocally \/ Listening \/ LinkFreezes
  PROVE  Idle
<1>1. /\ UNCHANGED <<status, known, sid, toBuf, fromBuf, got, asked, byId, sockets, lsock, csock, toClient, pending, toServer>>
      /\ server' = "none" <=> server = "none"
  BY DEF ExitTimer, LaunchTimer, SpawnsLocally, Listening, LinkFreezes, localVars, linkVars, sessionVars
<1> QED BY <1>1, IdleSilence DEF Idle, Hears

LEMMA TimeoutIdle ==
  ASSUME IInv, Basics, LocalSide, NEW r \in pending, Timeout(r), restless' = {}
  PROVE  Idle
<1>1. r.of \notin Locals /\ csock # "closed"
  BY DEF Timeout, LocalSide
<1>2. /\ UNCHANGED <<status, known, sid, toBuf, fromBuf, got, asked, byId, sockets, server, toClient>>
      /\ pending' = pending \ {r} /\ lsock' = Ended({r})
      /\ (UNCHANGED <<csock, toServer>> \/ HalfClose)
  BY DEF Timeout
<1>3. \A l \in Locals : lsock'[l] = lsock[l]
  BY <1>1, <1>2, EndedOpens
<1>4. \A q : q.of \in Locals => (q \in pending' <=> q \in pending)
  BY <1>1, <1>2
<1>5. CASE UNCHANGED <<csock, toServer>>
  BY <1>1, <1>2, <1>3, <1>4, <1>5, IdleSilence DEF Idle, Hears
<1>6. CASE HalfClose
  <2>1. csock' = "ended"
    BY <1>6 DEF HalfClose
  <2>2. /\ Grows(toServer, toServer')
        /\ \A p \in Behind(toServer, toServer') : toServer'[p].m = "eof"
    BY <1>6, IdleEof
  <2> QED BY <1>1, <1>2, <1>3, <1>4, <2>1, <2>2 DEF Idle, Hears
<1> QED BY <1>2, <1>5, <1>6

LEMMA StopTalk ==
  ASSUME IInv, Basics, OpenInv, Talk, Stop, server' # "closed"
  PROVE  Talk'
<1>0. LocalSide /\ LocalRequests /\ Tokens /\ Served /\ RemoteStays
  BY RemoteIs DEF Talk, Stop
<1>1. UNCHANGED <<toClient, csock, status, sid, toBuf, fromBuf, got, asked>>
  BY DEF Stop
<1>2. CASE csock = "open"
  <2> DEFINE f == [m |-> "endSession", seq |-> nextSeq, id |-> 0]
  <2>1. /\ pending' = pending \cup {[seq |-> nextSeq, of |-> "stop", dup |-> FALSE]}
        /\ Post(<<f>>) /\ UNCHANGED <<known, server, lsock, sockets, byId>>
    BY <1>2 DEF Stop, Ask
  <2>2. f.m = "endSession" /\ f.seq = nextSeq
    OBVIOUS
  <2> HIDE DEF f
  <2>4. /\ Grows(toServer, toServer')
        /\ \A p \in Behind(toServer, toServer') :
              \/ toServer'[p].m = "eof"
              \/ toServer'[p].seq = nextSeq /\ toServer'[p].m \notin {"data", "startStream", "duplicateStream"}
    BY <2>1, <2>2, IdlePost
  <2>5. \A r : r.of \in Locals => (r \in pending' <=> r \in pending)
    <3>1. "stop" \notin Locals
      BY ClientAssumption
    <3> QED BY <2>1, <3>1
  <2>6. Idle
    BY <1>1, <1>2, <2>1, <2>4, <2>5 DEF Idle, Hears
  <2> QED BY <1>0, <2>6, IdleTalk
<1>3. CASE csock # "open"
  <2>1. CloseServer({}) /\ known' = {} /\ UNCHANGED <<pending, toServer>>
    BY <1>3 DEF Stop
  <2>2. /\ server = "none" /\ server' = "none" /\ sockets' = {} /\ (\A l \in Locals : lsock'[l] = lsock[l])
        /\ \A i \in Ids \cup {NoId} : byId'[i] = Nobody
    BY <1>0, <2>1, CloseNothing
  <2>3. /\ status # "connected" /\ \A l \in Locals : lsock[l] = "none" /\ sid[l] = NoId
        /\ \A r \in pending : r.of \notin Locals
    BY <1>0, <2>2, NoServerNobody
  <2>4. LocalSide'
    BY <1>0, <1>1, <2>1, <2>2, <2>3 DEF LocalSide
  <2>5. LocalRequests'
    BY <2>1, <2>3 DEF LocalRequests
  <2>6. Tokens'
    BY <1>0, <1>1, <2>1, TokensKeep DEF Hears
  <2>7. Served'
    BY <1>0, <1>1, <1>3, <2>1, ClosedServed DEF Hears
  <2> QED BY <2>4, <2>5, <2>6, <2>7 DEF Talk
<1> QED BY <1>2, <1>3

\* What the handlers of the proxy's frames may rely on.
Hearing ==
  /\ UNCHANGED remoteVars
  /\ csock # "closed" /\ toClient # << >> /\ toClient' = Tail(toClient)

LEMMA HearingIs ==
  ASSUME IInv, Hearing
  PROVE  /\ RemoteStays /\ Hears /\ Head(toClient) \in Held(toClient)
         /\ Len(toClient) \in Nat \ {0} /\ Head(toClient) = toClient[1] /\ IsSeq(toClient)
BY PipesAreSeqs, TailHeld, TailAt, RemoteIs DEF Hearing, Hears

LEMMA QuietFrame ==
  ASSUME IInv, Hearing, UNCHANGED <<toServer, csock, pending, localVars, asked>>,
         Head(toClient).m # "data",
         \A r \in pending : r.of \in Locals => ~(Head(toClient).m = "response" /\ Head(toClient).seq = r.seq)
  PROVE  Idle
<1>1. UNCHANGED <<status, known, server, lsock, sockets, byId, sid, toBuf, fromBuf, got>>
  BY DEF localVars
<1> QED BY <1>1, IdleSilence DEF Idle, Hears, Hearing

LEMMA AnswerIdle ==
  ASSUME IInv, Basics, OpenInv, Hearing, Head(toClient).m = "response",
         NEW r \in pending, r.seq = Head(toClient).seq, r.of \notin Locals, Answered(r, Head(toClient))
  PROVE  Idle
<1>1. /\ UNCHANGED <<server, sockets, toBuf, asked, status, known, lsock, byId, sid, fromBuf, got>>
      /\ pending' = pending \ {r}
      /\ (UNCHANGED <<csock, toServer>> \/ HalfClose)
  BY DEF Answered
<1>2. \A q \in pending : q.of \in Locals => Head(toClient).seq # q.seq
  BY DEF OpenInv
<1>3. \A q : q.of \in Locals => (q \in pending' <=> q \in pending)
  BY <1>1
<1>4. toClient' = Tail(toClient) /\ toClient # << >> /\ csock # "closed" /\ Head(toClient).m # "data"
  BY DEF Hearing
<1>5. CASE UNCHANGED <<csock, toServer>>
  BY <1>1, <1>2, <1>3, <1>4, <1>5, IdleSilence DEF Idle, Hears
<1>6. CASE HalfClose
  <2>1. csock' = "ended"
    BY <1>6 DEF HalfClose
  <2>2. /\ Grows(toServer, toServer')
        /\ \A p \in Behind(toServer, toServer') : toServer'[p].m = "eof"
    BY <1>6, IdleEof
  <2> QED BY <1>1, <1>2, <1>3, <1>4, <2>1, <2>2 DEF Idle, Hears
<1> QED BY <1>1, <1>5, <1>6

LEMMA ReadyTalk ==
  ASSUME IInv, Basics, OpenInv, Talk, Hearing, Head(toClient).m = "streamReady", StreamReady(Head(toClient).id)
  PROVE  Talk'
<1>0. LocalSide /\ LocalRequests /\ Tokens /\ Served /\ RemoteStays /\ Hears /\ Head(toClient) \in Held(toClient)
  BY HearingIs DEF Talk
<1>1. server = "none"
  BY <1>0 DEF Basics, LaunchInv, Heralded
<1>2. /\ known = {} /\ \A l \in Locals : lsock[l] = "none" /\ sid[l] = NoId
      /\ \A r \in pending : r.of \notin Locals
  BY <1>0, <1>1, NoServerNobody
<1>3. Head(toClient).id = FirstId
  BY <1>0 DEF Served
<1>4. /\ status' = "ready" /\ server' = "opening" /\ known' = {FirstId}
      /\ UNCHANGED <<toServer, csock, pending, lsock, sockets, byId, sid, toBuf, fromBuf, got, asked>>
  BY <1>2, <1>3 DEF StreamReady, linkVars
<1>5. LocalSide'
  BY <1>0, <1>2, <1>4 DEF LocalSide
<1>6. LocalRequests'
  BY <1>2, <1>4 DEF LocalRequests
<1>7. Tokens'
  BY <1>0, <1>4, TokensKeep
<1>8. Served'
  <2>1. Held(toClient') \subseteq Held(toClient)
    BY <1>0, HearsHeld
  <2>2. \A i : Given(i) => Given(i)'
    BY <1>4 DEF Given
  <2> QED BY <1>0, <1>2, <1>4, <2>1, <2>2, ServedKeeps
<1> QED BY <1>5, <1>6, <1>7, <1>8 DEF Talk

\* A chunk of the gdb-server, for the client that has its stream.
LEMMA DataTalk ==
  ASSUME IInv, Basics, Talk, Hearing, Head(toClient).m = "data",
         FromProxy(Head(toClient).id, Head(toClient).chunk)
  PROVE  Talk'
<1>0. /\ LocalSide /\ LocalRequests /\ Tokens /\ Served /\ RemoteStays /\ Hears /\ Head(toClient) \in Held(toClient)
      /\ Len(toClient) \in Nat \ {0} /\ Head(toClient) = toClient[1] /\ IsSeq(toClient)
      /\ csock # "closed" /\ toClient # << >> /\ toClient' = Tail(toClient)
  BY HearingIs DEF Talk, Hearing
<1>1. /\ UNCHANGED <<toServer, csock, pending, status, known, server, lsock, sockets, byId, sid, toBuf, asked>>
  BY DEF FromProxy, linkVars
<1>2. PICK i, c : i = Head(toClient).id /\ c = Head(toClient).chunk
  OBVIOUS
<1>3. i # NoId
  BY <1>0, <1>2 DEF Served
<1>4. Given(i)
  <2>1. 1 \in 1 .. Len(toClient)
    BY <1>0
  <2>2. Owned(i, 1)
    BY <1>0, <1>2, <2>1 DEF Tokens, Owners
  <2>3. ~Promised(i, 1)
    <3> SUFFICES ASSUME Promised(i, 1) PROVE FALSE
      OBVIOUS
    <3>1. PICK q \in pending, p \in 1 .. Len(toClient) : p <= 1 /\ Grants(toClient[p], q, i)
      BY DEF Promised
    <3>2. p = 1
      BY <3>1
    <3> QED BY <1>0, <3>1, <3>2 DEF Grants
  <2> QED BY <2>2, <2>3 DEF Owned
<1>5. PICK l0 \in Locals : sid[l0] = i
  BY <1>4 DEF Given
<1>6. lsock[l0] = "open" /\ i \in Ids /\ byId[i] = l0 /\ i \in known
  BY <1>0, <1>3, <1>5 DEF LocalSide
<1>7. l0 # Nobody
  BY ClientAssumption DEF Nobody
<1>8. got' = [got EXCEPT ![l0] = Append(@, c)] /\ UNCHANGED fromBuf
  <2>1. FromProxy(i, c)
    BY <1>2
  <2> QED BY <1>3, <1>5, <1>6, <1>7, <2>1 DEF FromProxy
<1>9. PICK x : x = Append(got[l0], c)
  OBVIOUS
<1>10. got'[l0] = x /\ \A l \in Locals : l # l0 => got'[l] = got[l]
  BY <1>8, <1>9 DEF Basics, FlowTypes
<1>11. \A r \in pending : r.of \in Locals => ~(Head(toClient).m = "response" /\ Head(toClient).seq = r.seq)
  OBVIOUS
<1>12. LocalSide'
  <2>1. \A l \in Locals : sid[l] = NoId => got'[l] = got[l]
    BY <1>3, <1>5, <1>10
  <2> QED BY <1>0, <1>1, <1>8, <2>1 DEF LocalSide
<1>13. LocalRequests'
  BY <1>0, <1>1, AskedKeeps
<1>14. Tokens'
  BY <1>0, <1>1, <1>11, TokensKeep
<1>15. Grows(toServer, toServer') /\ Behind(toServer, toServer') = {}
  BY <1>1, IdleSilence
<1>16. ASSUME NEW l \in Locals, sid[l] # NoId, l # l0 PROVE Serves(l)'
  <2>1. Serves(l)
    BY <1>0, <1>16 DEF Served
  <2>2. sid[l] # i
    BY <1>0, <1>6, <1>16 DEF LocalSide
  <2>3. ~IsChunk(Head(toClient), sid[l])
    BY <1>2, <2>2 DEF IsChunk
  <2>4. sid[l] = FirstId => ~OnPipe("startStream")'
    BY <1>1, <2>1 DEF Serves, Settled, OnPipe
  <2> QED BY <1>0, <1>1, <1>10, <1>15, <1>16, <2>1, <2>3, <2>4, ServesKeeps
<1>17. Serves(l0)'
  <2>1. Serves(l0)
    BY <1>0, <1>3, <1>5 DEF Served
  <2>2. UNCHANGED <<loop, nextId, streams, conn, child>>
    BY <1>0 DEF RemoteStays
  <2>3. Settled(i)'
    <3>1. Settled(i)
      BY <1>5, <2>1 DEF Serves
    <3> QED BY <1>1, <2>2, <3>1 DEF Settled, OnPipe
  <2>4. ASSUME NEW k \in Conns, streams[i] = k
        PROVE  Conveys(x, toClient', i, k, conn[k].fwd)
    <3>1. PICK s, t, g : s = toClient /\ t = toClient' /\ g = got[l0]
      OBVIOUS
    <3>2. Conveys(g, s, i, k, conn[k].fwd) /\ IsSeq(g) /\ IsSeq(s) /\ conn[k].fwd \in Nat
      BY <1>0, <1>5, <2>1, <2>4, <3>1 DEF Serves, Basics, FlowTypes
    <3>3. s # << >> /\ t = Tail(s) /\ IsChunk(Head(s), i) /\ x = Append(g, Head(s).chunk)
      BY <1>0, <1>2, <1>9, <3>1 DEF IsChunk
    <3>5. \/ t = s /\ x = g
          \/ s # << >> /\ t = Tail(s) /\ ~IsChunk(Head(s), i) /\ x = g
          \/ s # << >> /\ t = Tail(s) /\ IsChunk(Head(s), i) /\ x = Append(g, Head(s).chunk)
      BY <3>3
    <3>6. PICK m \in Nat : m = conn[k].fwd
      BY <3>2
    <3>7. Conveys(g, s, i, k, m)
      BY <3>2, <3>6
    <3>8. Conveys(x, t, i, k, m)
      BY <3>2, <3>5, <3>7, NextConveys
    <3>4. Conveys(x, t, i, k, conn[k].fwd)
      BY <3>6, <3>8
    <3> QED BY <3>1, <3>4
  <2>5. ASSUME NEW k \in Conns, streams[i] = k, loop = "running", csock = "open", HasPeer(k)
        PROVE  Conveys(conn[k].got, toServer, i, l0, asked[l0])
    BY <1>5, <2>1, <2>5 DEF Serves
  <2>6. Settled(sid[l0])'
    BY <1>1, <1>5, <2>3 DEF Settled
  <2> QED BY <1>1, <1>5, <1>10, <2>2, <2>4, <2>5, <2>6 DEF Serves, HasPeer
<1>18. Served'
  <2>1. Held(toClient') \subseteq Held(toClient)
    BY <1>0, HearsHeld
  <2>2. \A j : Given(j) => Given(j)'
    BY <1>1 DEF Given
  <2>3. \A l \in Locals : sid'[l] # NoId => Serves(l)'
    BY <1>1, <1>16, <1>17
  <2> QED BY <1>0, <1>1, <2>1, <2>2, <2>3, ServedKeeps
<1> QED BY <1>12, <1>13, <1>14, <1>18 DEF Talk

\* The answer to the request of a local client has arrived: it is the only one, and nobody
\* else owes one.
LEMMA AnswerAlone ==
  ASSUME IInv, Basics, Talk, Hearing, Head(toClient).m = "response",
         NEW r \in pending, r.seq = Head(toClient).seq, r.of \in Locals
  PROVE  /\ lsock[r.of] = "open" /\ sid[r.of] = NoId /\ byId[NoId] = r.of /\ server # "none"
         /\ r.dup <=> status = "connected"
         /\ \A q \in pending : q.of \in Locals => q = r
         /\ ~OnPipe("startStream") /\ ~OnPipe("duplicateStream")
         /\ \A k \in Conns : conn[k].at \notin Owing
         /\ \A i, n : Owned(i, n) => Given(i) \/ (Head(toClient).ok /\ i = Head(toClient).id)
<1>0. /\ LocalSide /\ LocalRequests /\ Tokens /\ RemoteStays /\ Hears /\ Head(toClient) \in Held(toClient)
      /\ Len(toClient) \in Nat \ {0} /\ Head(toClient) = toClient[1] /\ IsSeq(toClient)
      /\ csock # "closed" /\ toClient # << >> /\ toClient' = Tail(toClient)
  BY HearingIs DEF Talk, Hearing
<1>1. Asking
  BY <1>0 DEF Tokens
<1>2. /\ lsock[r.of] = "open" /\ sid[r.of] = NoId /\ byId[NoId] = r.of
      /\ r.dup <=> status = "connected"
      /\ \A q \in pending : q.of \in Locals => q = r
  BY <1>0 DEF LocalRequests
<1>3. server # "none"
  <2>1. lsock[r.of] # "none"
    BY <1>2
  <2> QED BY <1>0, <2>1 DEF LocalSide
<1>4. Marked(toClient[1]) /\ toClient[1].seq = r.seq /\ 1 \in 1 .. Len(toClient)
  BY <1>0 DEF Marked, Marks
<1>5. r.seq \in Seqs(toClient)
  BY <1>4, SeqsOf
<1>6. ASSUME NEW f \in Held(toServer), f.m \in {"startStream", "duplicateStream"} PROVE FALSE
  <2>1. f.seq = r.seq
    BY <1>1, <1>2, <1>6 DEF Asking
  <2>2. f.seq \in Seqs(toServer)
    BY <1>6, HeldAt, SeqsOf DEF Marked, Marks
  <2> QED BY <1>5, <2>1, <2>2 DEF Basics, PlaceInv
<1>7. ASSUME NEW k \in Conns, conn[k].at \in Owing PROVE FALSE
  <2>1. conn[k].seq = r.seq
    BY <1>1, <1>2, <1>7 DEF Asking
  <2> QED BY <1>5, <1>7, <2>1 DEF Basics, PlaceInv
<1>8. ASSUME NEW i, NEW n, Owned(i, n), ~Given(i) PROVE Head(toClient).ok /\ i = Head(toClient).id
  <2>1. PICK q \in pending, p \in 1 .. Len(toClient) : q.of \in Locals /\ Grants(toClient[p], q, i)
    BY <1>8 DEF Owned, Promised
  <2>2. q = r
    BY <1>2, <2>1
  <2>3. Marked(toClient[p]) /\ toClient[p].seq = toClient[1].seq
    BY <1>4, <2>1, <2>2 DEF Grants, Marked, Marks
  <2>4. p = 1
    BY <1>4, <2>3 DEF Basics, PlaceInv, Once
  <2> QED BY <1>0, <2>1, <2>4 DEF Grants
<1> QED BY <1>2, <1>3, <1>6, <1>7, <1>8 DEF OnPipe

\* With the answer, nobody waits.
LEMMA TokensSpent ==
  ASSUME IInv, Basics, Talk, Hearing, Head(toClient).m = "response",
         NEW r \in pending, r.seq = Head(toClient).seq, r.of \in Locals,
         pending' = pending \ {r},
         \A f \in Held(toServer') : f \in Held(toServer) \/ f.m = "data",
         \A i : i # NoId /\ Given(i) => Given(i)',
         \A i : Head(toClient).ok /\ i = Head(toClient).id => Given(i)'
  PROVE  Tokens' /\ LocalRequests'
<1>0. /\ Tokens /\ RemoteStays /\ Hears
      /\ Len(toClient) \in Nat \ {0} /\ IsSeq(toClient)
      /\ csock # "closed" /\ toClient # << >> /\ toClient' = Tail(toClient)
  BY HearingIs DEF Talk, Hearing
<1>1. /\ \A q \in pending : q.of \in Locals => q = r
      /\ ~OnPipe("startStream") /\ ~OnPipe("duplicateStream")
      /\ \A k \in Conns : conn[k].at \notin Owing
  BY AnswerAlone
<1>2. \A q \in pending' : q.of \notin Locals
  BY <1>1
<1>3. LocalRequests'
  BY <1>2 DEF LocalRequests
<1>4. UNCHANGED <<conn, streams, nextId>>
  BY <1>0 DEF RemoteStays
<1>5. Asking'
  BY <1>1, <1>4 DEF Asking, OnPipe
<1>6. Fresh'
  BY <1>2 DEF Fresh
<1>7. ASSUME NEW i, NEW n, i # NoId, Owned(i, n) PROVE Given(i)'
  BY <1>7, AnswerAlone
<1>8. Owners /\ Len(toClient') = Len(toClient) - 1 /\ \A p \in 1 .. Len(toClient') : toClient'[p] = toClient[p + 1]
  BY <1>0, TailAt DEF Tokens
<1>9. Owners'
  <2>1. ASSUME NEW k \in Conns, NEW i, NEW n, conn'[k].at \in {"forwarding", "mute"}, i = conn'[k].id,
               n = Len(toClient')
        PROVE  Owned(i, n)'
    <3>1. Owned(i, Len(toClient)) /\ i # NoId
      BY <1>4, <1>8, <2>1 DEF Owners, Talk, Served
    <3>2. Given(i)'
      BY <1>7, <3>1
    <3> QED BY <3>2 DEF Owned
  <2>2. ASSUME NEW p \in 1 .. Len(toClient'), NEW i, toClient'[p].m = "data", i = toClient'[p].id
        PROVE  Owned(i, p)'
    <3>1. p + 1 \in 1 .. Len(toClient) /\ toClient'[p] = toClient[p + 1]
      BY <1>0, <1>8
    <3>2. PICK n : n = p + 1
      OBVIOUS
    <3>3. Owned(i, n) /\ i # NoId
      <4>1. toClient[n] \in Held(toClient)
        BY <3>1, <3>2, HeldAt
      <4> QED BY <1>8, <2>2, <3>1, <3>2, <4>1 DEF Owners, Talk, Served
    <3>4. Given(i)'
      BY <1>7, <3>3
    <3> QED BY <3>4 DEF Owned
  <2> QED BY <2>1, <2>2, OwnersNext
<1> QED BY <1>3, <1>5, <1>6, <1>9 DEF Tokens

LEMMA RefusedTalk ==
  ASSUME IInv, Basics, Talk, Hearing, Head(toClient).m = "response",
         NEW r \in pending, r.seq = Head(toClient).seq, r.of \in Locals, Answered(r, Head(toClient)),
         ~Head(toClient).ok
  PROVE  Talk'
<1>0. /\ LocalSide /\ Served /\ RemoteStays /\ Hears /\ csock # "closed" /\ toClient # << >> /\ toClient' = Tail(toClient)
  BY HearingIs DEF Talk, Hearing
<1>1. /\ lsock[r.of] = "open" /\ sid[r.of] = NoId /\ byId[NoId] = r.of /\ server # "none"
      /\ ~OnPipe("startStream")
  BY AnswerAlone
<1>2. /\ pending' = pending \ {r} /\ lsock' = Ended({r})
      /\ UNCHANGED <<server, sockets, toBuf, asked, csock, status, known, byId, sid, fromBuf, got, toServer>>
  <2>1. r.of # "stop"
    BY ClientAssumption
  <2> QED BY <2>1 DEF Answered, StreamAnswered
<1>3. \A l \in Locals : lsock'[l] = lsock[l] \/ (l = r.of /\ lsock'[l] = "ended")
  BY <1>2, EndedOpens
<1>4. LocalSide'
  <2>1. \A l \in sockets : l \in Locals
    BY DEF Basics, FlowTypes
  <2>2. server' = "none" => status = "starting" /\ known = {} /\ \A l \in Locals : lsock'[l] = "none"
    BY <1>1, <1>2
  <2>3. \A l \in sockets : byId[NoId] = l \/ (lsock'[l] = "open" /\ sid[l] # NoId)
    BY <1>0, <1>1, <1>3, <2>1 DEF LocalSide
  <2>4. \A l \in Locals : sid[l] # NoId =>
          lsock'[l] = "open" /\ sid[l] \in Ids /\ byId[sid[l]] = l /\ sid[l] \in known /\ status = "connected"
    BY <1>0, <1>1, <1>3 DEF LocalSide
  <2>5. /\ \A l \in Locals : lsock'[l] = "none" => asked[l] = 0
        /\ \A l \in Locals : lsock'[l] \in {"none", "open"} /\ sid[l] = NoId => toBuf[l] = Upto(l, asked[l])
    BY <1>0, <1>3 DEF LocalSide
  <2> QED BY <1>0, <1>2, <2>2, <2>3, <2>4, <2>5 DEF LocalSide
<1>5. \A i : Given(i) => Given(i)'
  BY <1>2 DEF Given
<1>6. Tokens' /\ LocalRequests'
  BY <1>2, <1>5, TokensSpent
<1>7. Grows(toServer, toServer') /\ Behind(toServer, toServer') = {}
  BY <1>2, IdleSilence
<1>8. ASSUME NEW l \in Locals, sid[l] # NoId PROVE Serves(l)'
  <2>1. Serves(l) /\ ~IsChunk(Head(toClient), sid[l])
    BY <1>0, <1>8 DEF Served, IsChunk
  <2>2. ~OnPipe("startStream")'
    BY <1>1, <1>2 DEF OnPipe
  <2> QED BY <1>0, <1>2, <1>7, <1>8, <2>1, <2>2, ServesKeeps
<1>9. Served'
  <2>1. Held(toClient') \subseteq Held(toClient)
    BY <1>0, HearsHeld
  <2>2. \A l \in Locals : sid'[l] # NoId => Serves(l)'
    BY <1>2, <1>8
  <2> QED BY <1>0, <1>2, <1>5, <2>1, <2>2, ServedKeeps
<1> QED BY <1>4, <1>6, <1>9 DEF Talk

\* What a granted stream changes on the client's side.
LEMMA GrantedIs ==
  ASSUME IInv, Basics, Talk, Hearing, Head(toClient).m = "response",
         NEW r \in pending, r.seq = Head(toClient).seq, r.of \in Locals, Answered(r, Head(toClient)),
         Head(toClient).ok, NEW i, i = Head(toClient).id, NEW l, l = r.of
  PROVE  /\ Settled(i) /\ ~Given(i) /\ (r.dup <=> i # FirstId) /\ i \in Ids /\ i # NoId
         /\ \A k \in Conns : streams[i] = k => OnTheWay(toClient, i, k, 0, conn[k].fwd)
         /\ pending' = pending \ {r}
         /\ UNCHANGED <<server, sockets, toBuf, asked, csock, lsock>>
         /\ i \in known' /\ known \subseteq known' /\ status' = "connected"
         /\ byId'[i] = l /\ byId'[NoId] = Nobody
         /\ \A j \in Ids : j # i => byId'[j] = byId[j]
         /\ sid'[l] = i /\ got'[l] = << >>
         /\ \A m \in Locals : m # l => sid'[m] = sid[m] /\ got'[m] = got[m] /\ fromBuf'[m] = fromBuf[m]
         /\ Post(BufferFrames(toBuf[l], i))
<1>0. /\ LocalSide /\ Tokens /\ Head(toClient) \in Held(toClient) /\ csock # "closed"
  BY HearingIs DEF Talk, Hearing
<1>1. /\ lsock[l] = "open" /\ sid[l] = NoId /\ byId[NoId] = l /\ server # "none"
      /\ r.dup <=> status = "connected"
  BY AnswerAlone
<1>2. Grants(Head(toClient), r, Head(toClient).id)
  BY DEF Grants
<1>3. /\ Settled(i) /\ ~Given(i) /\ (r.dup <=> i # FirstId)
      /\ \A k \in Conns : streams[i] = k => OnTheWay(toClient, i, k, 0, conn[k].fwd)
  BY <1>0, <1>2 DEF Tokens, Fresh
<1>4. i \in Ids /\ i # NoId
  BY <1>3, IdsAreNot DEF Settled
<1>5. byId[i] = Nobody
  BY <1>0, <1>3, <1>4 DEF LocalSide, Given
<1>6. StreamAnswered(r, Head(toClient)) /\ pending' = pending \ {r}
      /\ UNCHANGED <<server, sockets, toBuf, asked, csock>>
  <2>1. r.of # "stop"
    BY ClientAssumption
  <2> QED BY <2>1 DEF Answered
<1>7. SetStreamId(l, i)
  <2>1. SetStreamId(l, IF r.dup THEN i ELSE FirstId)
    BY <1>6 DEF StreamAnswered
  <2>2. CASE r.dup
    BY <2>1, <2>2
  <2>3. CASE ~r.dup
    BY <1>3, <2>1, <2>3
  <2> QED BY <2>2, <2>3
<1>8. status' = "connected" /\ lsock' = lsock /\ known' = IF r.dup THEN known \cup {i} ELSE known
  <2>1. /\ known' = IF r.dup THEN known \cup {i} ELSE known
        /\ status' = IF r.dup THEN status ELSE "connected"
        /\ lsock' = IF status' = "connected" THEN lsock ELSE Ended({r})
    BY <1>6 DEF StreamAnswered
  <2>2. status' = "connected"
    BY <1>1, <2>1
  <2> QED BY <2>1, <2>2
<1>9. i \in known' /\ known \subseteq known'
  <2>1. FirstId \in known
    BY <1>0, <1>1 DEF LocalSide
  <2> QED BY <1>3, <1>8, <2>1
<1>10. byId' = [byId EXCEPT ![NoId] = Nobody, ![i] = l] /\ DOMAIN byId = Ids \cup {NoId}
  BY <1>5, <1>7 DEF SetStreamId, Basics, FlowTypes
<1>11. byId'[i] = l /\ byId'[NoId] = Nobody /\ \A j \in Ids : j # i => byId'[j] = byId[j]
  BY <1>4, <1>10, IdsAreNot
<1>12. sid' = [sid EXCEPT ![l] = i] /\ got' = [got EXCEPT ![l] = @ \o fromBuf[l]]
       /\ fromBuf' = [fromBuf EXCEPT ![l] = << >>]
       /\ DOMAIN sid = Locals /\ DOMAIN got = Locals /\ DOMAIN fromBuf = Locals
  BY <1>1, <1>7 DEF SetStreamId, Basics, FlowTypes
<1>13. got[l] = << >> /\ fromBuf[l] = << >>
  BY <1>0, <1>1 DEF LocalSide
<1>14. got'[l] = << >>
  <2>1. got'[l] = got[l] \o fromBuf[l]
    BY <1>12
  <2>2. << >> \o << >> = << >>
    OBVIOUS
  <2> QED BY <1>13, <2>1, <2>2
<1>15. sid'[l] = i /\ \A m \in Locals : m # l => sid'[m] = sid[m] /\ got'[m] = got[m] /\ fromBuf'[m] = fromBuf[m]
  BY <1>12
<1>16. Post(BufferFrames(toBuf[l], i))
  BY <1>7 DEF SetStreamId, BufferFrames
<1> QED BY <1>3, <1>4, <1>6, <1>8, <1>9, <1>11, <1>14, <1>15, <1>16

\* Its socket has the stream, and the others theirs.
LEMMA GrantedSide ==
  ASSUME IInv, Basics, Talk, Hearing, Head(toClient).m = "response",
         NEW r \in pending, r.seq = Head(toClient).seq, r.of \in Locals, Answered(r, Head(toClient)),
         Head(toClient).ok
  PROVE  LocalSide'
<1>0. LocalSide /\ csock # "closed"
  BY DEF Talk, Hearing
<1>1. PICK i, l : i = Head(toClient).id /\ l = r.of
  OBVIOUS
<1>2. /\ ~Given(i) /\ (r.dup <=> i # FirstId) /\ i \in Ids /\ i # NoId /\ l \in Locals
      /\ UNCHANGED <<server, sockets, toBuf, asked, csock, lsock>>
      /\ i \in known' /\ known \subseteq known' /\ status' = "connected"
  BY <1>1, GrantedIs
<1>3. /\ byId'[i] = l /\ byId'[NoId] = Nobody
      /\ \A j \in Ids : j # i => byId'[j] = byId[j]
      /\ sid'[l] = i /\ got'[l] = << >>
      /\ \A m \in Locals : m # l => sid'[m] = sid[m] /\ got'[m] = got[m] /\ fromBuf'[m] = fromBuf[m]
  BY <1>1, GrantedIs
<1>4. /\ lsock[l] = "open" /\ sid[l] = NoId /\ byId[NoId] = l /\ server # "none"
      /\ r.dup <=> status = "connected"
  BY <1>1, AnswerAlone
<1>5. FirstId \in known'
  BY <1>0, <1>2, <1>4 DEF LocalSide
<1>6. \A m \in sockets : byId'[NoId] = m \/ (lsock[m] = "open" /\ sid'[m] # NoId)
  <2> SUFFICES ASSUME NEW m \in sockets PROVE lsock[m] = "open" /\ sid'[m] # NoId
    OBVIOUS
  <2>1. m \in Locals
    BY DEF Basics, FlowTypes
  <2>2. CASE m = l
    BY <1>2, <1>3, <1>4, <2>2
  <2>3. CASE m # l
    BY <1>0, <1>3, <1>4, <2>1, <2>3 DEF LocalSide
  <2> QED BY <2>2, <2>3
<1>7. ASSUME NEW m \in Locals, sid'[m] # NoId
      PROVE  lsock[m] = "open" /\ sid'[m] \in Ids /\ byId'[sid'[m]] = m /\ sid'[m] \in known'
  <2>1. CASE m = l
    BY <1>2, <1>3, <1>4, <2>1
  <2>2. CASE m # l
    <3>1. sid'[m] = sid[m] /\ sid[m] # i
      BY <1>2, <1>3, <2>2 DEF Given
    <3>2. lsock[m] = "open" /\ sid[m] \in Ids /\ byId[sid[m]] = m /\ sid[m] \in known
      BY <1>0, <1>7, <3>1 DEF LocalSide
    <3> QED BY <1>2, <1>3, <3>1, <3>2
  <2> QED BY <2>1, <2>2
<1>8. \E m \in Locals : sid'[m] = FirstId
  <2>1. CASE status = "connected"
    <3>1. PICK m \in Locals : sid[m] = FirstId
      BY <1>0, <2>1 DEF LocalSide
    <3>2. m # l
      BY <1>4, <3>1, IdsAreNot
    <3> QED BY <1>3, <3>1, <3>2
  <2>2. CASE status # "connected"
    BY <1>2, <1>3, <1>4, <2>2
  <2> QED BY <2>1, <2>2
<1>9. ASSUME NEW j \in Ids, byId'[j] # Nobody PROVE byId'[j] \in Locals /\ sid'[byId'[j]] = j
  <2>1. CASE j = i
    BY <1>2, <1>3, <2>1
  <2>2. CASE j # i
    <3>1. byId'[j] = byId[j] /\ byId[j] \in Locals /\ sid[byId[j]] = j
      BY <1>0, <1>3, <1>9, <2>2 DEF LocalSide
    <3>2. byId[j] # l
      BY <1>4, <1>9, <3>1, IdsAreNot
    <3> QED BY <1>3, <3>1, <3>2
  <2> QED BY <2>1, <2>2
<1>10. ASSUME NEW m \in Locals, sid'[m] = NoId
       PROVE  /\ got'[m] = << >> /\ fromBuf'[m] = << >>
              /\ lsock[m] \in {"none", "open"} => toBuf[m] = Upto(m, asked[m])
  <2>1. m # l
    BY <1>2, <1>3, <1>10
  <2>2. sid[m] = NoId
    BY <1>3, <1>10, <2>1
  <2> QED BY <1>0, <1>3, <2>1, <2>2 DEF LocalSide
<1>11. \A m \in Locals : lsock[m] = "none" => asked[m] = 0
  BY <1>0 DEF LocalSide
<1> QED BY <1>0, <1>2, <1>3, <1>4, <1>5, <1>6, <1>7, <1>8, <1>9, <1>10, <1>11 DEF LocalSide

\* What the local client buffered goes out as the first chunks of its stream.
LEMMA GrantedSays ==
  ASSUME IInv, Basics, Talk, NEW i, ~Given(i), NEW l \in Locals, NEW m \in Nat,
         toBuf[l] = Upto(l, m), csock = "open", Post(BufferFrames(toBuf[l], i))
  PROVE  OnTheWay(toServer', i, l, 0, m)
<1>1. PICK b, s, t, u : b = toBuf[l] /\ s = toServer /\ t = toServer' /\ u = BufferFrames(toBuf[l], i)
  OBVIOUS
<1>2. IsSeq(b) /\ Len(b) = m
  BY <1>1, UptoGrows
<1>3. IsSeq(u) /\ Len(u) = m /\ \A c \in 1 .. m : IsChunk(u[c], i) /\ u[c].chunk = b[c]
  BY <1>1, <1>2, BuffersAre
<1>4. \A c \in 1 .. m : u[c].chunk = <<l, c>>
  BY <1>1, <1>3 DEF Upto
<1>5. IsSeq(s)
  BY <1>1, PipesAreSeqs
<1>6. t = s \o u
  BY <1>1 DEF Post
<1>7. /\ Len(s) \in Nat /\ Len(t) = Len(s) + m /\ Grows(s, t)
      /\ \A p \in Behind(s, t) : t[p] = u[p - Len(s)]
  BY <1>3, <1>5, <1>6, ConcatGrows
<1>8. ASSUME NEW c \in 1 .. m PROVE IsChunk(t[Len(s) + c], i) /\ t[Len(s) + c].chunk = <<l, c>>
  <2>1. Len(s) + c \in Behind(s, t) /\ (Len(s) + c) - Len(s) = c
    BY <1>7 DEF Behind
  <2>2. t[Len(s) + c] = u[c]
    BY <1>7, <2>1
  <2> QED BY <1>3, <1>4, <2>2
<1>9. ASSUME NEW p \in 1 .. Len(s), IsChunk(s[p], i) PROVE FALSE
  <2>1. s[p] \in Held(toServer)
    BY <1>1, HeldAt
  <2> QED BY <1>9, <2>1 DEF Talk, Served, IsChunk
<1>10. OnTheWay(t, i, l, 0, m)
  BY <1>5, <1>7, <1>8, <1>9, RunOnTheWay
<1> QED BY <1>1, <1>10

LEMMA GrantedServes ==
  ASSUME IInv, Basics, Talk, Hearing, Head(toClient).m = "response",
         NEW r \in pending, r.seq = Head(toClient).seq, r.of \in Locals, Answered(r, Head(toClient)),
         Head(toClient).ok, NEW l, l = r.of
  PROVE  Serves(l)'
<1>0. /\ LocalSide /\ Served /\ RemoteStays /\ csock # "closed" /\ toClient # << >> /\ toClient' = Tail(toClient)
      /\ IsSeq(toClient)
  BY HearingIs DEF Talk, Hearing
<1>1. PICK i : i = Head(toClient).id
  OBVIOUS
<1>2. /\ Settled(i) /\ ~Given(i) /\ i \in Ids /\ l \in Locals
      /\ \A k \in Conns : streams[i] = k => OnTheWay(toClient, i, k, 0, conn[k].fwd)
  BY <1>1, GrantedIs
<1>3. /\ UNCHANGED <<toBuf, asked, csock, lsock>>
      /\ sid'[l] = i /\ got'[l] = << >> /\ Post(BufferFrames(toBuf[l], i))
  BY <1>1, GrantedIs
<1>4. lsock[l] = "open" /\ sid[l] = NoId /\ ~OnPipe("startStream")
  BY AnswerAlone
<1>5. toBuf[l] = Upto(l, asked[l]) /\ asked[l] \in Nat
  BY <1>0, <1>2, <1>4 DEF LocalSide, Basics, FlowTypes
<1>6. PICK m \in Nat : m = asked[l]
  BY <1>5
<1>7. csock = "open" => OnTheWay(toServer', i, l, 0, m)
  BY <1>2, <1>3, <1>5, <1>6, GrantedSays
<1>8. UNCHANGED <<loop, nextId, streams, conn, child>>
  BY <1>0 DEF RemoteStays
<1>9. ~OnPipe("startStream")'
  <2>1. IsSeq(BufferFrames(toBuf[l], i)) /\ Len(BufferFrames(toBuf[l], i)) = Len(toBuf[l])
        /\ \A n \in 1 .. Len(toBuf[l]) : BufferFrames(toBuf[l], i)[n].m = "data"
    <3>1. IsSeq(toBuf[l])
      BY <1>5, UptoGrows
    <3> QED BY <3>1, BuffersAre DEF IsChunk
  <2>2. PICK fs : fs = BufferFrames(toBuf[l], i)
    OBVIOUS
  <2>3. IsSeq(fs) /\ Post(fs) /\ \A n \in 1 .. Len(fs) : fs[n].m = "data"
    BY <1>3, <2>1, <2>2
  <2>4. /\ Grows(toServer, toServer')
        /\ \A p \in Behind(toServer, toServer') : toServer'[p].m = "data"
    BY <2>3, PostGrows
  <2>5. \A f \in Held(toServer') : f \in Held(toServer) \/ f.m = "data"
    BY <2>4, PipesAreSeqs, GrowsHeld
  <2> QED BY <1>4, <2>5 DEF OnPipe
<1>10. Settled(i)'
  BY <1>0, <1>2, <1>9, SettledKeeps
<1>11. << >> = Upto(l, 0) /\ Len(<< >>) = 0 /\ \A k : << >> = Upto(k, 0)
  BY DEF Upto
<1>12. ASSUME NEW k \in Conns, streams[i] = k
       PROVE  OnTheWay(toClient', i, k, 0, conn[k].fwd)
  <2>1. OnTheWay(toClient, i, k, 0, conn[k].fwd) /\ conn[k].fwd \in Nat
    BY <1>2, <1>12 DEF Basics, FlowTypes
  <2>2. ~IsChunk(Head(toClient), i)
    BY DEF IsChunk
  <2>3. OnTheWay(Tail(toClient), i, k, 0, conn[k].fwd)
    BY <1>0, <2>1, <2>2, TailOnTheWay
  <2> QED BY <1>0, <2>3
<1>13. ASSUME NEW k \in Conns, streams[i] = k PROVE conn[k].got = << >>
  <2>1. conn[k].id = i
    BY <1>2, <1>13 DEF Basics, IdsInv
  <2> QED BY <1>0, <1>2, <2>1 DEF Served
<1>14. ASSUME NEW k \in Conns, streams'[i] = k
       PROVE  Conveys(got'[l], toClient', i, k, conn'[k].fwd)
  BY <1>3, <1>8, <1>11, <1>12, <1>14 DEF Conveys
<1>15. ASSUME NEW k \in Conns, streams'[i] = k, csock = "open"
       PROVE  Conveys(conn'[k].got, toServer', i, l, m)
  BY <1>7, <1>8, <1>11, <1>13, <1>15 DEF Conveys
<1> QED BY <1>3, <1>6, <1>10, <1>14, <1>15 DEF Serves, HasPeer, Settled

LEMMA GrantedTalk ==
  ASSUME IInv, Basics, Talk, Hearing, Head(toClient).m = "response",
         NEW r \in pending, r.seq = Head(toClient).seq, r.of \in Locals, Answered(r, Head(toClient)),
         Head(toClient).ok
  PROVE  Talk'
<1>0. /\ LocalSide /\ Served /\ RemoteStays /\ Hears /\ csock # "closed" /\ toClient # << >> /\ toClient' = Tail(toClient)
  BY HearingIs DEF Talk, Hearing
<1>1. PICK i, l : i = Head(toClient).id /\ l = r.of
  OBVIOUS
<1>2. /\ ~Given(i) /\ i \in Ids /\ i # NoId /\ l \in Locals
      /\ UNCHANGED <<asked, csock, toBuf>> /\ pending' = pending \ {r}
      /\ sid'[l] = i /\ \A m \in Locals : m # l => sid'[m] = sid[m] /\ got'[m] = got[m]
      /\ Post(BufferFrames(toBuf[l], i))
  BY <1>1, GrantedIs
<1>3. sid[l] = NoId /\ lsock[l] = "open" /\ ~OnPipe("startStream")
  BY <1>1, AnswerAlone
<1>4. /\ Grows(toServer, toServer')
      /\ \A p \in Behind(toServer, toServer') : toServer'[p].m = "data" /\ toServer'[p].id = i
  <2>1. toBuf[l] = Upto(l, asked[l]) /\ asked[l] \in Nat
    BY <1>0, <1>2, <1>3 DEF LocalSide, Basics, FlowTypes
  <2>2. IsSeq(BufferFrames(toBuf[l], i)) /\ Len(BufferFrames(toBuf[l], i)) = Len(toBuf[l])
        /\ \A n \in 1 .. Len(toBuf[l]) : IsChunk(BufferFrames(toBuf[l], i)[n], i)
    <3>1. IsSeq(toBuf[l])
      BY <2>1, UptoGrows
    <3> QED BY <3>1, BuffersAre
  <2>3. PICK fs : fs = BufferFrames(toBuf[l], i)
    OBVIOUS
  <2>4. IsSeq(fs) /\ Post(fs) /\ \A n \in 1 .. Len(fs) : IsChunk(fs[n], i)
    BY <1>2, <2>2, <2>3
  <2> QED BY <2>4, PostGrows DEF IsChunk
<1>5. \A f \in Held(toServer') : f \in Held(toServer) \/ (f.m = "data" /\ f.id = i)
  BY <1>4, PipesAreSeqs, GrowsHeld
<1>6. ASSUME NEW j, Given(j), j # NoId PROVE Given(j)'
  <2>1. PICK m \in Locals : sid[m] = j
    BY <1>6 DEF Given
  <2>2. m # l
    BY <1>3, <1>6, <2>1
  <2> QED BY <1>2, <2>1, <2>2 DEF Given
<1>7. Given(i)'
  BY <1>2 DEF Given
<1>8. LocalSide'
  BY GrantedSide
<1>9. \A f \in Held(toServer') : f \in Held(toServer) \/ f.m = "data"
  BY <1>5
<1>10. Tokens' /\ LocalRequests'
  BY <1>1, <1>2, <1>6, <1>7, <1>9, TokensSpent
<1>11. ASSUME NEW m \in Locals, sid[m] # NoId PROVE Serves(m)'
  <2>1. m # l /\ sid'[m] = sid[m] /\ got'[m] = got[m] /\ sid[m] # i
    BY <1>2, <1>3, <1>11 DEF Given
  <2>2. Serves(m) /\ ~IsChunk(Head(toClient), sid[m])
    BY <1>0, <1>11 DEF Served, IsChunk
  <2>3. ~OnPipe("startStream")'
    BY <1>3, <1>9 DEF OnPipe
  <2>4. \A p \in Behind(toServer, toServer') : ~IsChunk(toServer'[p], sid[m])
    BY <1>4, <2>1 DEF IsChunk
  <2> QED BY <1>0, <1>2, <1>4, <1>11, <2>1, <2>2, <2>3, <2>4, ServesKeeps
<1>12. ASSUME NEW m \in Locals, sid'[m] # NoId PROVE Serves(m)'
  <2>1. CASE m = l
    BY <1>1, <2>1, GrantedServes
  <2>2. CASE m # l
    BY <1>2, <1>11, <1>12, <2>2
  <2> QED BY <2>1, <2>2
<1>13. \A f \in Held(toServer') : \A j : f.m = "data" /\ j = f.id => f \in Held(toServer) \/ (j # NoId /\ Given(j)')
  <2> SUFFICES ASSUME NEW f \in Held(toServer'), NEW j, f.m = "data", j = f.id, f \notin Held(toServer)
               PROVE  j # NoId /\ Given(j)'
    OBVIOUS
  <2>1. j = i
    BY <1>5
  <2> QED BY <1>2, <1>7, <2>1
<1>14. Served'
  <2>1. Held(toClient') \subseteq Held(toClient)
    BY <1>0, HearsHeld
  <2> QED BY <1>0, <1>6, <1>12, <1>13, <2>1, ServedKeeps
<1> QED BY <1>8, <1>10, <1>14 DEF Talk

-----------------------------------------------------------------------------
(* A frame of the proxy *)

LEMMA ResponseTalk ==
  ASSUME IInv, Basics, OpenInv, Talk, Hearing, Head(toClient).m = "response",
         IF \E r \in pending : r.seq = Head(toClient).seq
         THEN \E r \in pending : r.seq = Head(toClient).seq /\ Answered(r, Head(toClient))
         ELSE Ignored
  PROVE  Talk'
<1>0. RemoteStays
  BY HearingIs
<1>1. CASE \E r \in pending : r.seq = Head(toClient).seq
  <2>1. PICK r \in pending : r.seq = Head(toClient).seq /\ Answered(r, Head(toClient))
    BY <1>1
  <2>2. CASE r.of \notin Locals
    <3>1. Idle
      BY <2>1, <2>2, AnswerIdle
    <3> QED BY <1>0, <3>1, IdleTalk
  <2>3. CASE r.of \in Locals /\ ~Head(toClient).ok
    BY <2>1, <2>3, RefusedTalk
  <2>4. CASE r.of \in Locals /\ Head(toClient).ok
    BY <2>1, <2>4, GrantedTalk
  <2> QED BY <2>2, <2>3, <2>4
<1>2. CASE ~\E r \in pending : r.seq = Head(toClient).seq
  <2>1. UNCHANGED <<toServer, csock, pending, localVars, asked>>
    BY <1>2 DEF Ignored, clientVars, linkVars
  <2>2. \A r \in pending : r.of \in Locals => ~(Head(toClient).m = "response" /\ Head(toClient).seq = r.seq)
    BY <1>2
  <2>3. Head(toClient).m # "data"
    OBVIOUS
  <2>4. Idle
    BY <2>1, <2>2, <2>3, QuietFrame
  <2> QED BY <1>0, <2>4, IdleTalk
<1> QED BY <1>1, <1>2

\* The frames that say nothing of a stream.
LEMMA OtherFrameTalk ==
  ASSUME IInv, Basics, Talk, Hearing, Head(toClient).m \notin {"response", "data"},
         UNCHANGED <<toServer, csock, pending, localVars, asked>>
  PROVE  Talk'
<1>0. RemoteStays
  BY HearingIs
<1>1. \A r \in pending : r.of \in Locals => ~(Head(toClient).m = "response" /\ Head(toClient).seq = r.seq)
  OBVIOUS
<1>2. Head(toClient).m # "data"
  OBVIOUS
<1>3. Idle
  BY <1>1, <1>2, QuietFrame
<1> QED BY <1>0, <1>3, IdleTalk

LEMMA ReceiveTalk ==
  ASSUME IInv, Basics, OpenInv, Talk, Receive, server' # "closed"
  PROVE  Talk'
<1>0. Hearing
  BY DEF Receive, Hearing
<1>1. RemoteStays /\ Hears
  BY <1>0, HearingIs
<1>2. PICK f : f = Head(toClient)
  OBVIOUS
<1>3. CASE f.m = "response"
  <2>1. IF \E r \in pending : r.seq = f.seq
        THEN \E r \in pending : r.seq = f.seq /\ Answered(r, f)
        ELSE Ignored
    BY <1>2, <1>3 DEF Receive
  <2> QED BY <1>0, <1>2, <1>3, <2>1, ResponseTalk
<1>4. CASE f.m = "streamReady"
  <2>1. StreamReady(f.id)
    BY <1>2, <1>4 DEF Receive
  <2> QED BY <1>0, <1>2, <1>4, <2>1, ReadyTalk
<1>5. CASE f.m = "streamClosed"
  <2>1. RemoteClosed(f.id)
    BY <1>2, <1>5 DEF Receive
  <2>2. ASSUME f.id \in known PROVE FALSE
    <3>1. CloseServer({})
      BY <2>1, <2>2 DEF RemoteClosed
    <3>2. server = "none"
      BY <3>1, CloseNothing DEF Talk
    <3>3. known = {}
      BY <3>2, NoServerNobody DEF Talk
    <3> QED BY <2>2, <3>3
  <2>3. UNCHANGED <<toServer, csock, pending, localVars, asked>>
    BY <2>1, <2>2 DEF RemoteClosed, linkVars, localVars
  <2> QED BY <1>0, <1>2, <1>5, <2>3, OtherFrameTalk
<1>6. CASE f.m = "data"
  <2>1. FromProxy(f.id, f.chunk)
    BY <1>2, <1>6 DEF Receive
  <2> QED BY <1>0, <1>2, <1>6, <2>1, DataTalk
<1>7. CASE f.m = "gdbServerExited"
  <2>1. UNCHANGED <<toServer, csock, pending, localVars, asked>>
    BY <1>2, <1>7 DEF Receive, ServerExitHeard, linkVars
  <2> QED BY <1>0, <1>2, <1>7, <2>1, OtherFrameTalk
<1>8. CASE f.m = "eof"
  <2>1. SocketCloses /\ UNCHANGED <<toServer, asked>>
    BY <1>2, <1>8 DEF Receive, EofHeard
  <2>2. Head(toClient).m # "data"
    BY <1>2, <1>8
  <2> QED BY <1>1, <2>1, <2>2, SocketTalk
<1>9. CASE f.m \notin {"response", "streamReady", "streamClosed", "data", "gdbServerExited", "eof"}
  <2>1. Ignored
    BY <1>2, <1>9 DEF Receive
  <2>2. UNCHANGED <<toServer, csock, pending, localVars, asked>>
    BY <2>1 DEF Ignored, clientVars, linkVars
  <2> QED BY <1>0, <1>2, <1>9, <2>2, OtherFrameTalk
<1> QED BY <1>3, <1>4, <1>5, <1>6, <1>7, <1>8, <1>9

-----------------------------------------------------------------------------
(* The local clients *)

\* Nothing is written, and what the local clients have stays: they are served as before.
LEMMA ServedStays ==
  ASSUME IInv, Basics, Served, RemoteStays, UNCHANGED <<toServer, toClient, csock, sid, got>>,
         \A l \in Locals : sid[l] # NoId => asked'[l] = asked[l]
  PROVE  Served'
<1>1. Grows(toServer, toServer') /\ Behind(toServer, toServer') = {}
  BY IdleSilence
<1>2. ASSUME NEW l \in Locals, sid[l] # NoId PROVE Serves(l)'
  <2>1. Serves(l)
    BY <1>2 DEF Served
  <2>2. sid[l] = FirstId => ~OnPipe("startStream")'
    BY <2>1 DEF Serves, Settled, OnPipe
  <2>3. sid'[l] = sid[l] /\ got'[l] = got[l] /\ asked'[l] = asked[l]
    BY <1>2
  <2> QED BY <1>1, <1>2, <2>1, <2>2, <2>3, ServesKeeps
<1>3. \A i : Given(i) => Given(i)'
  BY DEF Given
<1>4. \A l \in Locals : sid'[l] # NoId => Serves(l)'
  BY <1>2
<1>5. Held(toClient') \subseteq Held(toClient)
  OBVIOUS
<1> QED BY <1>3, <1>4, <1>5, ServedKeeps

\* A chunk sent before the stream has its id.
LEMMA BuffersTalk ==
  ASSUME IInv, Basics, Talk, NEW l \in Locals, LocalSends(l), sid[l] = NoId
  PROVE  Talk'
<1>0. LocalSide /\ LocalRequests /\ Tokens /\ Served
  BY DEF Talk
<1>1. /\ lsock[l] = "open"
      /\ UNCHANGED <<toClient, toServer, csock, pending, status, known, server, lsock, sockets, byId, sid, fromBuf, got>>
      /\ RemoteStays
  BY RemoteIs DEF LocalSends, linkVars
<1>2. asked' = [asked EXCEPT ![l] = @ + 1] /\ asked \in [Locals -> Nat]
  BY DEF LocalSends, Basics, FlowTypes
<1>3. toBuf' = [toBuf EXCEPT ![l] = Append(@, <<l, asked[l] + 1>>)]
  BY DEF LocalSends
<1>4. toBuf[l] = Upto(l, asked[l])
  BY <1>0, <1>1 DEF LocalSide
<1>5. asked'[l] = asked[l] + 1 /\ asked[l] \in Nat /\ \A m \in Locals : m # l => asked'[m] = asked[m]
  BY <1>2
<1>6. \A m \in Locals : m # l => toBuf'[m] = toBuf[m]
  BY <1>3 DEF IInv, ChannelTypes
<1>7. toBuf'[l] = Upto(l, asked'[l])
  BY <1>3, <1>4, <1>5, UptoGrows DEF IInv, ChannelTypes
<1>8. LocalSide'
  <2>1. \A m \in Locals : lsock[m] = "none" => asked'[m] = 0
    BY <1>0, <1>1, <1>5 DEF LocalSide
  <2>2. \A m \in Locals : lsock[m] \in {"none", "open"} /\ sid[m] = NoId => toBuf'[m] = Upto(m, asked'[m])
    <3> SUFFICES ASSUME NEW m \in Locals, lsock[m] \in {"none", "open"}, sid[m] = NoId
                 PROVE  toBuf'[m] = Upto(m, asked'[m])
      OBVIOUS
    <3>1. CASE m = l
      BY <1>7, <3>1
    <3>2. CASE m # l
      BY <1>0, <1>5, <1>6, <3>2 DEF LocalSide
    <3> QED BY <3>1, <3>2
  <2> QED BY <1>0, <1>1, <2>1, <2>2 DEF LocalSide
<1>9. LocalRequests'
  BY <1>0, <1>1, AskedKeeps
<1>10. Tokens'
  BY <1>0, <1>1, TokensKeep DEF Hears
<1>11. Served'
  <2>1. \A m \in Locals : sid[m] # NoId => asked'[m] = asked[m]
    BY <1>5
  <2> QED BY <1>0, <1>1, <2>1, ServedStays
<1> QED BY <1>8, <1>9, <1>10, <1>11 DEF Talk

\* A chunk that goes out.
LEMMA SendsTalk ==
  ASSUME IInv, Basics, Talk, NEW l \in Locals, LocalSends(l), sid[l] # NoId
  PROVE  Talk'
<1>0. LocalSide /\ LocalRequests /\ Tokens /\ Served
  BY DEF Talk
<1>1. /\ lsock[l] = "open"
      /\ UNCHANGED <<toClient, csock, pending, status, known, server, lsock, sockets, byId, sid, toBuf, fromBuf, got>>
      /\ RemoteStays
  BY RemoteIs DEF LocalSends, linkVars
<1>2. asked' = [asked EXCEPT ![l] = @ + 1] /\ asked \in [Locals -> Nat]
  BY DEF LocalSends, Basics, FlowTypes
<1>3. asked'[l] = asked[l] + 1 /\ asked[l] \in Nat /\ \A m \in Locals : m # l => asked'[m] = asked[m]
  BY <1>2
<1>4. PICK i : i = sid[l]
  OBVIOUS
<1>5. PICK f : f = [m |-> "data", id |-> i, chunk |-> <<l, asked[l] + 1>>]
  OBVIOUS
<1>6. f.m = "data" /\ f.id = i /\ f.chunk = <<l, asked[l] + 1>> /\ IsChunk(f, i)
  BY <1>5 DEF IsChunk
<1>7. Post(<<f>>)
  BY <1>4, <1>5 DEF LocalSends
<1>8. /\ Len(toServer) \in Nat /\ Grows(toServer, toServer')
      /\ \A p \in Behind(toServer, toServer') : csock = "open" /\ toServer'[p] = f
  BY <1>7, PostsOne
<1>9. \A g \in Held(toServer') : g \in Held(toServer) \/ g = f
  BY <1>8, PipesAreSeqs, GrowsHeld
<1>10. Given(i) /\ i # NoId
  BY <1>4 DEF Given
<1>11. LocalSide'
  <2>1. \A m \in Locals : lsock[m] = "none" => asked'[m] = 0
    BY <1>0, <1>1, <1>3 DEF LocalSide
  <2>2. \A m \in Locals : lsock[m] \in {"none", "open"} /\ sid[m] = NoId => toBuf[m] = Upto(m, asked'[m])
    BY <1>0, <1>3 DEF LocalSide
  <2> QED BY <1>0, <1>1, <2>1, <2>2 DEF LocalSide
<1>12. LocalRequests'
  <2>1. \A g \in Held(toServer') : Marked(g) => g \in Held(toServer) \/ g.seq = nextSeq
    BY <1>6, <1>9 DEF Marked, Marks
  <2> QED BY <1>0, <1>1, <2>1, AskedKeeps
<1>13. Tokens'
  <2>1. \A g \in Held(toServer') : g.m \in {"startStream", "duplicateStream"} => g \in Held(toServer)
    BY <1>6, <1>9
  <2> QED BY <1>0, <1>1, <2>1, TokensKeep DEF Hears
<1>14. ~OnPipe("startStream") => ~OnPipe("startStream")'
  BY <1>6, <1>9 DEF OnPipe
<1>15. ASSUME NEW m \in Locals, sid[m] # NoId, m # l PROVE Serves(m)'
  <2>1. Serves(m)
    BY <1>0, <1>15 DEF Served
  <2>2. sid[m] # i
    BY <1>0, <1>4, <1>15 DEF LocalSide
  <2>3. sid[m] = FirstId => ~OnPipe("startStream")'
    BY <1>14, <2>1 DEF Serves, Settled
  <2>4. \A p \in Behind(toServer, toServer') : ~IsChunk(toServer'[p], sid[m])
    BY <1>6, <1>8, <2>2 DEF IsChunk
  <2> QED BY <1>1, <1>3, <1>8, <1>15, <2>1, <2>3, <2>4, ServesKeeps
<1>16. Serves(l)'
  <2>1. Serves(l)
    BY <1>0 DEF Served
  <2>2. UNCHANGED <<loop, nextId, streams, conn, child>>
    BY <1>1 DEF RemoteStays
  <2>3. Settled(i)'
    <3>1. Settled(i)
      BY <1>4, <2>1 DEF Serves
    <3>2. i = FirstId => ~OnPipe("startStream")'
      BY <1>14, <3>1 DEF Settled
    <3> QED BY <1>1, <3>1, <3>2, SettledKeeps
  <2>4. ASSUME NEW k \in Conns, streams[i] = k
        PROVE  Conveys(got[l], toClient, i, k, conn[k].fwd)
    BY <1>4, <2>1, <2>4 DEF Serves
  <2>5. ASSUME NEW k \in Conns, streams[i] = k, loop = "running", csock = "open", HasPeer(k)
        PROVE  Conveys(conn[k].got, toServer', i, l, asked[l] + 1)
    <3>1. Conveys(conn[k].got, toServer, i, l, asked[l]) /\ IsSeq(conn[k].got)
      BY <1>4, <2>1, <2>5 DEF Serves, Basics, FlowTypes
    <3>2. toServer' = Append(toServer, f)
      <4>1. toServer' = toServer \o <<f>> /\ IsSeq(toServer)
        BY <1>7, <2>5, PipesAreSeqs DEF Post
      <4> QED BY <4>1 DEF IsSeq
    <3>3. PICK n \in Nat, a \in Nat : n = Len(conn[k].got) /\ a = asked[l]
      BY <1>3, <3>1, LenIsNat
    <3>4. OnTheWay(toServer, i, l, n, a) /\ f.chunk = <<l, a + 1>>
      BY <1>6, <3>1, <3>3 DEF Conveys
    <3>5. OnTheWay(Append(toServer, f), i, l, n, a + 1)
      BY <1>6, <3>4, PipesAreSeqs, ChunkOnTheWay
    <3> QED BY <3>1, <3>2, <3>3, <3>5 DEF Conveys
  <2>6. sid'[l] = i /\ got'[l] = got[l] /\ asked'[l] = asked[l] + 1
    BY <1>1, <1>3, <1>4
  <2> QED BY <1>1, <2>2, <2>3, <2>4, <2>5, <2>6 DEF Serves, HasPeer, Settled
<1>17. Served'
  <2>1. \A j : Given(j) => Given(j)'
    BY <1>1 DEF Given
  <2>2. \A g \in Held(toServer') : \A j : g.m = "data" /\ j = g.id => g \in Held(toServer) \/ (j # NoId /\ Given(j)')
    BY <1>6, <1>9, <1>10, <2>1
  <2>3. \A m \in Locals : sid'[m] # NoId => Serves(m)'
    BY <1>1, <1>15, <1>16
  <2>4. Held(toClient') \subseteq Held(toClient)
    BY <1>1
  <2> QED BY <1>0, <1>1, <2>1, <2>2, <2>3, <2>4, ServedKeeps
<1> QED BY <1>11, <1>12, <1>13, <1>17 DEF Talk

\* A socket that is not served goes away.
LEMMA LocalClosesTalk ==
  ASSUME IInv, Basics, Talk, NEW l \in Locals, LocalCloses(l), restless' = {}
  PROVE  Talk'
<1>0. LocalSide /\ LocalRequests /\ Tokens /\ Served /\ l # Nobody
  BY ClientAssumption DEF Talk, Nobody
<1>1. lsock[l] = "ended"
  BY DEF LocalCloses
<1>2. /\ UNCHANGED <<toClient, toServer, csock, pending, status, known, server, sid, toBuf, fromBuf, got, asked>>
      /\ RemoteStays /\ sockets' = sockets \ {l}
  <2>1. UNCHANGED remoteVars
    BY DEF LocalCloses, sessionVars, remoteVars
  <2> QED BY <2>1, RemoteIs DEF LocalCloses, linkVars, sessionVars
<1>3. lsock'[l] = "gone" /\ \A m \in Locals : m # l => lsock'[m] = lsock[m]
  BY DEF LocalCloses, Basics, FlowTypes
<1>4. sid[l] = NoId
  BY <1>0, <1>1 DEF LocalSide
<1>5. ASSUME NEW i \in Ids PROVE byId'[i] = byId[i]
  <2>1. byId'[i] = IF byId[i] = l THEN Nobody ELSE byId[i]
    BY DEF LocalCloses
  <2>2. byId[i] # l
    BY <1>0, <1>4, IdsAreNot DEF LocalSide
  <2> QED BY <2>1, <2>2
<1>6. byId'[NoId] = IF byId[NoId] = l THEN Nobody ELSE byId[NoId]
  BY DEF LocalCloses
<1>7. LocalSide'
  <2>1. server # "none"
    BY <1>0, <1>1 DEF LocalSide
  <2>2. \A m \in sockets' : byId'[NoId] = m \/ (lsock'[m] = "open" /\ sid[m] # NoId)
    BY <1>0, <1>2, <1>3, <1>6 DEF LocalSide, Basics, FlowTypes
  <2>3. \A m \in Locals : sid[m] # NoId =>
          lsock'[m] = "open" /\ sid[m] \in Ids /\ byId'[sid[m]] = m /\ sid[m] \in known /\ status = "connected"
    BY <1>0, <1>3, <1>4, <1>5 DEF LocalSide
  <2>4. \A i \in Ids : byId'[i] # Nobody => byId'[i] \in Locals /\ sid[byId'[i]] = i
    BY <1>0, <1>5 DEF LocalSide
  <2>5. byId'[NoId] # Nobody => byId'[NoId] \in Locals /\ sid[byId'[NoId]] = NoId
    BY <1>0, <1>6 DEF LocalSide
  <2>6. /\ \A m \in Locals : lsock'[m] = "none" => asked[m] = 0
        /\ \A m \in Locals : lsock'[m] \in {"none", "open"} /\ sid[m] = NoId => toBuf[m] = Upto(m, asked[m])
    BY <1>0, <1>3 DEF LocalSide
  <2> QED BY <1>0, <1>2, <2>1, <2>2, <2>3, <2>4, <2>5, <2>6 DEF LocalSide
<1>8. LocalRequests'
  <2>1. ASSUME NEW r \in pending, r.of \in Locals
        PROVE  lsock'[r.of] = lsock[r.of] /\ byId'[NoId] = byId[NoId]
    <3>1. r.of # l /\ byId[NoId] = r.of
      BY <1>0, <1>1, <2>1 DEF LocalRequests
    <3> QED BY <1>3, <1>6, <2>1, <3>1
  <2> QED BY <1>0, <1>2, <2>1, AskedKeeps
<1>9. Tokens'
  BY <1>0, <1>2, TokensKeep DEF Hears
<1>10. Served'
  BY <1>0, <1>2, ServedStays
<1> QED BY <1>7, <1>8, <1>9, <1>10 DEF Talk

\* What holds of a local client that connects.
LEMMA Connecting ==
  ASSUME IInv, Basics, OpenInv, Talk, NEW l \in Locals, Connect(l)
  PROVE  /\ lsock[l] = "none" /\ sid[l] = NoId /\ asked[l] = 0 /\ l # Nobody /\ server # "none" /\ FirstId \in known
         /\ ~(sockets = {} /\ status = "connected")
         /\ \A m \in Locals : sid[m] # NoId => m \in sockets
         /\ RemoteStays
         /\ UNCHANGED <<toClient, csock, status, known, server, toBuf, fromBuf, got, asked>>
<1>0. LocalSide /\ l # Nobody
  BY ClientAssumption DEF Talk, Nobody
<1>1. lsock[l] = "none" /\ server # "none"
  BY DEF Connect
<1>2. sid[l] = NoId /\ asked[l] = 0 /\ FirstId \in known
  BY <1>0, <1>1 DEF LocalSide
<1>3. \A m \in Locals : sid[m] # NoId => m \in sockets
  BY <1>0 DEF LocalSide, OpenInv
<1>4. ~(sockets = {} /\ status = "connected")
  BY <1>0, <1>3, IdsAreNot DEF LocalSide
<1>5. RemoteStays /\ UNCHANGED <<toClient, csock, status, known, server, toBuf, fromBuf, got, asked>>
  BY RemoteIs DEF Connect
<1> QED BY <1>0, <1>1, <1>2, <1>3, <1>4, <1>5

\* It is turned away: another waits for its stream.
LEMMA TurnedAwayTalk ==
  ASSUME IInv, Basics, OpenInv, Talk, NEW l \in Locals, Connect(l), byId[NoId] # Nobody
  PROVE  Talk'
<1>0. LocalSide /\ LocalRequests /\ Tokens /\ Served
  BY DEF Talk
<1>1. /\ lsock[l] = "none" /\ sid[l] = NoId /\ server # "none" /\ RemoteStays
      /\ UNCHANGED <<toClient, csock, status, known, server, toBuf, fromBuf, got, asked>>
  BY Connecting
<1>2. UNCHANGED <<pending, toServer, sockets, byId, sid>> /\ lsock' = [lsock EXCEPT ![l] = "ended"]
  BY DEF Connect
<1>3. lsock'[l] = "ended" /\ \A m \in Locals : m # l => lsock'[m] = lsock[m]
  BY <1>2 DEF Basics, FlowTypes
<1>4. LocalSide'
  <2>1. \A m \in sockets : byId[NoId] = m \/ (lsock'[m] = "open" /\ sid[m] # NoId)
    BY <1>0, <1>1, <1>3 DEF LocalSide, Basics, FlowTypes
  <2>2. \A m \in Locals : sid[m] # NoId =>
          lsock'[m] = "open" /\ sid[m] \in Ids /\ byId[sid[m]] = m /\ sid[m] \in known /\ status = "connected"
    BY <1>0, <1>1, <1>3 DEF LocalSide
  <2>3. /\ \A m \in Locals : lsock'[m] = "none" => asked[m] = 0
        /\ \A m \in Locals : lsock'[m] \in {"none", "open"} /\ sid[m] = NoId => toBuf[m] = Upto(m, asked[m])
    BY <1>0, <1>3 DEF LocalSide
  <2> QED BY <1>0, <1>1, <1>2, <2>1, <2>2, <2>3 DEF LocalSide
<1>5. LocalRequests'
  <2>1. ASSUME NEW r \in pending, r.of \in Locals PROVE lsock'[r.of] = lsock[r.of]
    BY <1>0, <1>1, <1>3, <2>1 DEF LocalRequests
  <2> QED BY <1>0, <1>1, <1>2, <2>1, AskedKeeps
<1>6. Tokens'
  BY <1>0, <1>1, <1>2, TokensKeep DEF Hears
<1>7. Served'
  BY <1>0, <1>1, <1>2, ServedStays
<1> QED BY <1>4, <1>5, <1>6, <1>7 DEF Talk

\* It takes the place of the client without a stream.
LEMMA SeatedSide ==
  ASSUME IInv, Basics, OpenInv, Talk, NEW l \in Locals, Connect(l), byId[NoId] = Nobody,
         csock = "closed" => pending' = {}
  PROVE  /\ LocalSide' /\ UNCHANGED sid /\ byId'[NoId] = l
         /\ csock = "closed" \/ lsock' = [lsock EXCEPT ![l] = "open"]
<1>0. LocalSide
  BY DEF Talk
<1>1. /\ lsock[l] = "none" /\ sid[l] = NoId /\ asked[l] = 0 /\ l # Nobody /\ server # "none" /\ FirstId \in known
      /\ ~(sockets = {} /\ status = "connected") /\ RemoteStays
      /\ UNCHANGED <<toClient, csock, status, known, server, toBuf, fromBuf, got, asked>>
  BY Connecting
<1>2. /\ sockets' = sockets \cup {l} /\ byId' = [byId EXCEPT ![NoId] = l] /\ UNCHANGED sid
      /\ lsock' = [lsock EXCEPT ![l] = "open"] \/ (csock = "closed" /\ lsock' = [lsock EXCEPT ![l] = "ended"])
  BY <1>1 DEF Connect
<1>3. lsock'[l] \in {"open", "ended"} /\ \A m \in Locals : m # l => lsock'[m] = lsock[m]
  BY <1>2 DEF Basics, FlowTypes
<1>4. byId'[NoId] = l /\ \A i \in Ids : byId'[i] = byId[i]
  BY <1>2, IdsAreNot DEF Basics, FlowTypes
<1>5. \A m \in sockets' : byId'[NoId] = m \/ (lsock'[m] = "open" /\ sid[m] # NoId)
  <2> SUFFICES ASSUME NEW m \in sockets, m # l PROVE lsock[m] = "open" /\ sid[m] # NoId /\ m \in Locals
    BY <1>2, <1>3, <1>4
  <2>1. m \in Locals /\ m # Nobody
    BY ClientAssumption DEF Basics, FlowTypes, Nobody
  <2> QED BY <1>0, <2>1 DEF LocalSide
<1>6. \A m \in Locals : sid[m] # NoId =>
        lsock'[m] = "open" /\ sid[m] \in Ids /\ byId'[sid[m]] = m /\ sid[m] \in known /\ status = "connected"
  BY <1>0, <1>1, <1>3, <1>4 DEF LocalSide
<1>7. \A i \in Ids : byId'[i] # Nobody => byId'[i] \in Locals /\ sid[byId'[i]] = i
  BY <1>0, <1>4 DEF LocalSide
<1>8. /\ \A m \in Locals : lsock'[m] = "none" => asked[m] = 0
      /\ \A m \in Locals : lsock'[m] \in {"none", "open"} /\ sid[m] = NoId => toBuf[m] = Upto(m, asked[m])
  BY <1>0, <1>1, <1>3 DEF LocalSide
<1>9. LocalSide'
  BY <1>0, <1>1, <1>2, <1>4, <1>5, <1>6, <1>7, <1>8 DEF LocalSide
<1> QED BY <1>2, <1>4, <1>9

\* Nobody waits for a stream.
LEMMA NobodyWaits ==
  ASSUME Talk, byId[NoId] = Nobody
  PROVE  /\ \A r \in pending : r.of \notin Locals
         /\ csock # "closed" => /\ \A f \in Held(toServer) : f.m \notin {"startStream", "duplicateStream"}
                                /\ \A k \in Conns : conn[k].at \notin Owing
         /\ \A i, n : ~Promised(i, n)
<1>1. Nobody \notin Locals
  BY ClientAssumption DEF Nobody
<1>2. \A r \in pending : r.of \notin Locals
  BY <1>1 DEF Talk, LocalRequests
<1>3. csock # "closed" => Asking
  BY DEF Talk, Tokens
<1> QED BY <1>2, <1>3 DEF Asking, Promised

\* There is no connection to ask for a stream on.
LEMMA UnservedTalk ==
  ASSUME IInv, Basics, OpenInv, Talk, NEW l \in Locals, Connect(l), byId[NoId] = Nobody, csock = "closed"
  PROVE  Talk'
<1>0. LocalSide /\ LocalRequests /\ Tokens /\ Served
  BY DEF Talk
<1>1. /\ ~(sockets = {} /\ status = "connected") /\ RemoteStays
      /\ UNCHANGED <<toClient, csock, status, known, server, toBuf, fromBuf, got, asked>>
  BY Connecting
<1>2. UNCHANGED <<pending, toServer>> /\ pending = {}
  BY <1>0, <1>1 DEF Connect, LocalSide
<1>3. LocalSide' /\ UNCHANGED sid
  BY <1>2, SeatedSide
<1>4. LocalRequests' /\ Tokens'
  BY <1>1, <1>2 DEF LocalRequests, Tokens
<1>5. Served'
  BY <1>0, <1>1, <1>2, <1>3, ServedStays
<1> QED BY <1>3, <1>4, <1>5 DEF Talk

\* It asks: for the stream, or with others for one more.
LEMMA AskedIs ==
  ASSUME IInv, Basics, OpenInv, Talk, NEW l \in Locals, Connect(l), byId[NoId] = Nobody, csock # "closed"
  PROVE  \E method, dup :
           /\ Ask(l, method, FirstId, dup)
           /\ (dup = TRUE /\ method = "duplicateStream" /\ status = "connected") \/
              (dup = FALSE /\ method = "startStream" /\ status # "connected" /\ \A m \in Locals : sid[m] = NoId)
           /\ lsock' = [lsock EXCEPT ![l] = "open"]
<1>0. LocalSide
  BY DEF Talk
<1>1. /\ ~(sockets = {} /\ status = "connected") /\ FirstId \in known
      /\ \A m \in Locals : sid[m] # NoId => m \in sockets
  BY Connecting
<1>2. CASE sockets # {}
  <2>1. PICK m \in sockets : m \in Locals /\ m # Nobody
    BY <1>2, ClientAssumption DEF Basics, FlowTypes, Nobody
  <2>2. status = "connected"
    BY <1>0, <2>1 DEF LocalSide
  <2>3. Ask(l, "duplicateStream", FirstId, TRUE) /\ lsock' = [lsock EXCEPT ![l] = "open"]
    BY <1>1, <1>2 DEF Connect
  <2> QED BY <2>2, <2>3
<1>3. CASE sockets = {}
  <2>1. Ask(l, "startStream", FirstId, FALSE) /\ lsock' = [lsock EXCEPT ![l] = "open"]
    BY <1>1, <1>3 DEF Connect
  <2> QED BY <1>1, <1>3, <2>1
<1> QED BY <1>2, <1>3

LEMMA AskingTalk ==
  ASSUME IInv, Basics, OpenInv, Talk, NEW l \in Locals, Connect(l), byId[NoId] = Nobody, csock # "closed"
  PROVE  Talk'
<1>0. LocalSide /\ LocalRequests /\ Tokens /\ Served
  BY DEF Talk
<1>1. /\ lsock[l] = "none" /\ sid[l] = NoId /\ RemoteStays
      /\ UNCHANGED <<toClient, csock, status, known, server, toBuf, fromBuf, got, asked>>
  BY Connecting
<1>2. PICK method, dup :
           /\ Ask(l, method, FirstId, dup)
           /\ (dup = TRUE /\ method = "duplicateStream" /\ status = "connected") \/
              (dup = FALSE /\ method = "startStream" /\ status # "connected" /\ \A m \in Locals : sid[m] = NoId)
           /\ lsock' = [lsock EXCEPT ![l] = "open"]
  BY AskedIs
<1>3. PICK r, f, s : r = [seq |-> nextSeq, of |-> l, dup |-> dup] /\ s = nextSeq
                     /\ f = [m |-> method, seq |-> nextSeq, id |-> FirstId]
  OBVIOUS
<1>4. r.seq = s /\ r.of = l /\ r.dup = dup /\ f.m = method /\ f.seq = s /\ s = nextSeq
  BY <1>3
<1>5. pending' = pending \cup {r} /\ Post(<<f>>)
  BY <1>2, <1>3 DEF Ask
<1>6. /\ \A q \in pending : q.of \notin Locals
      /\ \A g \in Held(toServer) : g.m \notin {"startStream", "duplicateStream"}
      /\ \A k \in Conns : conn[k].at \notin Owing
      /\ \A i, n : ~Promised(i, n)
  BY NobodyWaits
<1>7. LocalSide' /\ UNCHANGED sid /\ byId'[NoId] = l
  BY SeatedSide
<1>8. \A q \in pending' : q.of \in Locals => q = r
  BY <1>5, <1>6
<1>9. /\ Grows(toServer, toServer')
      /\ \A p \in Behind(toServer, toServer') : toServer'[p] = f
  BY <1>5, PostsOne
<1>10. \A g \in Held(toServer') : g \in Held(toServer) \/ g = f
  BY <1>9, PipesAreSeqs, GrowsHeld
<1>11. /\ \A x \in Seqs(toServer) : x < s
       /\ \A x \in Seqs(toClient) : x < s
       /\ s \in Nat /\ s \notin Seqs(toServer) /\ s \notin Seqs(toClient)
  <2>1. /\ nextSeq \in Nat
        /\ \A x \in Seqs(toServer) : x \in Nat /\ x < nextSeq
        /\ \A x \in Seqs(toClient) : x \in Nat /\ x < nextSeq
    BY NumbersBelow DEF Basics
  <2>2. s \notin Seqs(toServer) /\ s \notin Seqs(toClient)
    BY <1>4, <2>1
  <2> QED BY <1>4, <2>1, <2>2
<1>12. \A g \in Held(toServer') : Marked(g) /\ g.seq = s => g = f
  <2> SUFFICES ASSUME NEW g \in Held(toServer), Marked(g), g.seq = s PROVE FALSE
    BY <1>10
  <2>1. s \in Seqs(toServer)
    BY HeldAt, SeqsOf
  <2> QED BY <1>11, <2>1
<1>13. \A g \in Held(toClient) : g.m = "response" => g.seq # s
  <2> SUFFICES ASSUME NEW g \in Held(toClient), g.m = "response", g.seq = s PROVE FALSE
    OBVIOUS
  <2>1. Marked(g)
    BY DEF Marked, Marks
  <2>2. s \in Seqs(toClient)
    BY <2>1, HeldAt, SeqsOf
  <2> QED BY <1>11, <2>2
<1>14. LocalRequests'
  <2>1. lsock'[l] = "open" /\ sid'[l] = NoId /\ byId'[NoId] = l
    BY <1>1, <1>2, <1>7 DEF Basics, FlowTypes
  <2>2. r.dup <=> status' = "connected"
    BY <1>1, <1>2, <1>4
  <2>3. \A g \in Held(toServer') :
          Marked(g) /\ g.seq = r.seq => g.m = IF r.dup THEN "duplicateStream" ELSE "startStream"
    BY <1>2, <1>4, <1>12
  <2> QED BY <1>4, <1>8, <2>1, <2>2, <2>3 DEF LocalRequests
<1>15. UNCHANGED <<loop, nextId, streams, conn, child>>
  BY <1>1 DEF RemoteStays
<1>16. Tokens'
  <2>1. Asking'
    <3>1. \A g \in Held(toServer') : g.m \in {"startStream", "duplicateStream"} => g = f
      BY <1>6, <1>10
    <3>2. r \in pending' /\ r.of \in Locals /\ r.seq = f.seq
      BY <1>4, <1>5
    <3> QED BY <1>6, <1>15, <3>1, <3>2 DEF Asking
  <2>2. ASSUME NEW i, NEW n, Owned(i, n) PROVE Owned(i, n)'
    <3>1. Given(i)
      BY <1>6, <2>2 DEF Owned
    <3> QED BY <1>7, <3>1 DEF Owned, Given
  <2>3. Owners
    BY <1>0 DEF Tokens
  <2>4. ASSUME NEW k \in Conns, NEW i, NEW n, conn'[k].at \in {"forwarding", "mute"}, i = conn'[k].id,
               n = Len(toClient')
        PROVE  Owned(i, n)'
    <3>1. Owned(i, n)
      BY <1>1, <1>15, <2>3, <2>4 DEF Owners
    <3> QED BY <2>2, <3>1
  <2>5. ASSUME NEW p \in 1 .. Len(toClient'), NEW i, toClient'[p].m = "data", i = toClient'[p].id
        PROVE  Owned(i, p)'
    <3>1. Owned(i, p)
      BY <1>1, <2>3, <2>5 DEF Owners
    <3> QED BY <2>2, <3>1
  <2>6. Owners'
    BY <2>4, <2>5, OwnersNext
  <2>7. Fresh'
    BY <1>1, <1>4, <1>8, <1>13 DEF Fresh, Grants
  <2> QED BY <2>1, <2>6, <2>7 DEF Tokens
<1>17. Served'
  <2>1. f.m # "data"
    BY <1>2, <1>4
  <2>2. ASSUME NEW m \in Locals, sid[m] # NoId PROVE Serves(m)'
    <3>1. Serves(m) /\ method = "duplicateStream"
      BY <1>0, <1>2, <2>2 DEF Served
    <3>2. sid[m] = FirstId => ~OnPipe("startStream")'
      BY <1>4, <1>6, <1>10, <3>1 DEF OnPipe
    <3>3. csock' = "open" => csock = "open"
      BY <1>1
    <3>4. \A p \in Behind(toServer, toServer') : ~IsChunk(toServer'[p], sid[m])
      BY <1>9, <2>1 DEF IsChunk
    <3> QED BY <1>1, <1>7, <1>9, <2>2, <3>1, <3>2, <3>3, <3>4, ServesKeeps
  <2>3. \A i : Given(i) => Given(i)'
    BY <1>7 DEF Given
  <2>4. \A m \in Locals : sid'[m] # NoId => Serves(m)'
    BY <1>7, <2>2
  <2>5. \A g \in Held(toServer') : g.m = "data" => g \in Held(toServer)
    BY <1>10, <2>1
  <2>6. Held(toClient') \subseteq Held(toClient)
    BY <1>1
  <2> QED BY <1>0, <1>1, <2>3, <2>4, <2>5, <2>6, ServedKeeps
<1> QED BY <1>7, <1>14, <1>16, <1>17 DEF Talk

LEMMA ConnectTalk ==
  ASSUME IInv, Basics, OpenInv, Talk, NEW l \in Locals, Connect(l)
  PROVE  Talk'
BY TurnedAwayTalk, UnservedTalk, AskingTalk

-----------------------------------------------------------------------------
(* Every step of the client *)

LEMMA ClientTalk ==
  ASSUME IInv, Basics, OpenInv, Client \/ LinkFreezes \/ LinkBreaks, Calm => Talk, Calm'
  PROVE  Talk'
<1>0. Talk /\ restless' = {} /\ server' # "closed"
  BY CalmBefore DEF Calm
<1>1. RemoteStays
  BY ClientPlain, RemoteIs
<1>2. CASE SendSetup
  <2>1. Idle
    BY <1>0, <1>2, SetupIdle DEF Talk
  <2> QED BY <1>0, <1>1, <2>1, IdleTalk
<1>3. CASE Receive
  BY <1>0, <1>3, ReceiveTalk
<1>4. CASE Listening \/ ExitTimer \/ LaunchTimer \/ SpawnsLocally \/ LinkFreezes
  <2>1. Idle
    BY <1>4, TimersIdle
  <2> QED BY <1>0, <1>1, <2>1, IdleTalk
<1>5. CASE CloseTimer
  <2>1. SocketCloses /\ UNCHANGED <<toServer, toClient, asked>>
    BY <1>5 DEF CloseTimer, sessionVars
  <2> QED BY <1>0, <1>1, <2>1, SocketTalk DEF Hears
<1>6. ASSUME NEW r \in pending, Timeout(r) PROVE Talk'
  <2>1. Idle
    BY <1>0, <1>6, TimeoutIdle DEF Talk
  <2> QED BY <1>0, <1>1, <2>1, IdleTalk
<1>7. CASE Stop
  BY <1>0, <1>7, StopTalk
<1>8. ASSUME NEW l \in Locals, Connect(l) PROVE Talk'
  BY <1>0, <1>8, ConnectTalk
<1>9. ASSUME NEW l \in Locals, LocalCloses(l) PROVE Talk'
  BY <1>0, <1>9, LocalClosesTalk
<1>10. ASSUME NEW l \in Talkers, LocalSends(l) PROVE Talk'
  <2>1. l \in Locals
    BY ClientAssumption
  <2> QED BY <1>0, <1>10, <2>1, BuffersTalk, SendsTalk
<1>11. CASE LinkBreaks
  <2>1. SocketCloses /\ toServer' = <<Eof>> /\ UNCHANGED <<toClient, asked>>
    BY <1>11 DEF LinkBreaks
  <2> QED BY <1>0, <1>1, <2>1, SocketTalk DEF Hears
<1> QED BY <1>2, <1>3, <1>4, <1>5, <1>6, <1>7, <1>8, <1>9, <1>10, <1>11 DEF Client, Timers

-----------------------------------------------------------------------------
(* The conversation is kept *)

ConversationInv == Basics /\ OpenInv /\ (Calm => Talk)

LEMMA ConversationBegins == ProxyInit => ConversationInv
<1> SUFFICES ASSUME ProxyInit PROVE Talk
  BY BasicsInit DEF ConversationInv
<1>1. /\ toServer = << >> /\ toClient = << >> /\ conn = [k \in Conns |-> NoConn]
      /\ pending = {} /\ server = "none" /\ status = "starting" /\ known = {} /\ csock = "open"
      /\ lsock = [l \in Locals |-> "none"] /\ sockets = {}
      /\ byId = [i \in Ids \cup {NoId} |-> Nobody] /\ sid = [l \in Locals |-> NoId]
      /\ toBuf = [l \in Locals |-> << >>]
      /\ fromBuf = [l \in Locals |-> << >>] /\ got = [l \in Locals |-> << >>]
      /\ asked = [l \in Locals |-> 0]
  BY DEF ProxyInit, SessionInit, ClientInit
<1>2. \A k \in Conns : conn[k].at = "none" /\ conn[k].got = << >> /\ conn[k].id = 0
  BY <1>1 DEF NoConn
<1>3. Held(toServer) = {} /\ Held(toClient) = {} /\ 1 .. Len(toClient) = {}
  BY <1>1, NothingHeld
<1>4. \A l \in Locals : << >> = Upto(l, 0)
  BY DEF Upto
<1>5. LocalSide
  BY <1>1, <1>4 DEF LocalSide
<1>6. LocalRequests
  BY <1>1 DEF LocalRequests
<1>7. Tokens
  BY <1>1, <1>2, <1>3 DEF Tokens, Asking, Owners, Fresh, Owing
<1>8. Served
  BY <1>1, <1>2, <1>3 DEF Served, NoId
<1> QED BY <1>5, <1>6, <1>7, <1>8 DEF Talk

\* A step in which nothing happens is one of the session.
LEMMA NothingSteps ==
  ASSUME IInv, Basics, UNCHANGED proxyVars
  PROVE  SessionStep /\ UNCHANGED clientVars
<1>1. UNCHANGED <<toServer, toClient, loop, nextId, streams, conn, child, monitor, clientVars>>
  BY DEF proxyVars, sessionVars, streamVars, childVars, threadVars
<1>2. QuietBut
  BY <1>1, ConnsAreTame DEF QuietBut, PeersStay, IdsMove, MonitorMoves
<1> QED BY <1>1, <1>2, SilentIsQuiet DEF SessionStep

LEMMA ConversationKept == IInv /\ ConversationInv /\ [ProxyNext]_proxyVars => ConversationInv'
<1> SUFFICES ASSUME IInv, ConversationInv, [ProxyNext]_proxyVars PROVE ConversationInv'
  OBVIOUS
<1>0. Basics /\ OpenInv /\ (Calm => Talk)
  BY DEF ConversationInv
<1>1. CASE SessionStep /\ UNCHANGED clientVars
  <2>1. Basics'
    BY <1>0, <1>1, SessionBasics
  <2>2. OpenInv'
    BY <1>0, <1>1 DEF OpenInv, clientVars, linkVars, localVars
  <2>3. Calm' => Talk'
    BY <1>0, <1>1, SessionTalk
  <2> QED BY <2>1, <2>2, <2>3 DEF ConversationInv
<1>2. CASE Client \/ LinkFreezes \/ LinkBreaks
  <2>1. Basics' /\ OpenInv'
    BY <1>0, <1>2, ClientStepBasics
  <2>2. Calm' => Talk'
    BY <1>0, <1>2, ClientTalk
  <2> QED BY <2>1, <2>2 DEF ConversationInv
<1>3. CASE UNCHANGED proxyVars
  BY <1>0, <1>1, <1>3, NothingSteps
<1>4. CASE Session
  BY <1>0, <1>1, <1>4, SessionSteps
<1> QED BY <1>2, <1>3, <1>4 DEF ProxyNext

LEMMA ConversationsHold == ConversationInv => OneConversation
<1> SUFFICES ASSUME ConversationInv, restless = {}, NEW l \in Locals, NEW k \in Conns,
                    lsock[l] = "open", sid[l] # NoId, streams[sid[l]] = k
             PROVE  /\ Conveys(got[l], toClient, sid[l], k, conn[k].fwd)
                    /\ loop = "running" /\ csock = "open" /\ HasPeer(k) =>
                         Conveys(conn[k].got, toServer, sid[l], l, asked[l])
  BY DEF OneConversation
<1>1. Calm
  BY DEF ConversationInv, OpenInv, Calm
<1>2. Serves(l)
  BY <1>1 DEF ConversationInv, Talk, Served
<1> QED BY <1>2 DEF Serves

-----------------------------------------------------------------------------
\* While no local client has hung up or been timed out, each is joined to one connection
\* of the gdb-server of its own: all that connection sent is written to it, once and in
\* order, and all it sent reaches that connection, once and in order, whatever was kept in
\* toServerBuffer before the stream had its id.
THEOREM ConversationsStayApart == ProxySpec => []OneConversation
<1> QED BY ProxyInitHolds, ProxyStepKeeps, ConversationBegins, ConversationKept, ConversationsHold, PTL
        DEF ProxySpec

=============================================================================
