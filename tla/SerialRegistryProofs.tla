---------------------------- MODULE SerialRegistryProofs ----------------------------
(***************************************************************************)
(* The registry's books and the sessions' agree, for any number of         *)
(* sessions and of times the device is opened and dies.                    *)
(*                                                                         *)
(* Bookkeeping alone is not inductive.  A session that allocates a channel *)
(* works on the handle it captured a while ago, so what it finds there     *)
(* must be known of every handle: ids are given out in order (IdsInv), one *)
(* handle at most is alive and not dead (MadeInv), and, as long as nothing *)
(* went wrong, another one has no client left (ClientsMatch).  And what a  *)
(* death leaves behind in the sessions is bounded by the events they have  *)
(* yet to read (ToldInv).                                                  *)
(***************************************************************************)
EXTENDS SerialRegistry, FiniteSetTheorems, TLAPS

DirectSessions == {s \in Sessions : direct[s]}

\* A session about to allocate a channel holds the handle it will allocate it on, and
\* what is registered has a handle.
HeldInv ==
  /\ \A s \in Sessions : pc[s] = "channel" => held[s] \in Handles
  /\ entry = NoPort \/ entry.handle \in Handles

\* The clients of a handle were given their ids by it.
IdsInv == \A h \in Handles : \A i \in clients[h] : i <= lastId[h]

\* A handle is opened when no other works: one at most is alive and not dead.
MadeInv ==
  /\ \A h \in dead \cup Alive : h <= made
  /\ \A g, h \in Alive \ dead : g = h

\* A session that is over holds nothing.
EndedInv == \A s \in Sessions : pc[s] = "ended" => ~HoldsPort(s)

\* Nothing is registered for nobody: an idle entry is retired, a reference is counted for a
\* direct session, and a channel is some session's route.
OwnedInv ==
  /\ entry # NoPort => ~IsIdle(entry)
  /\ IsFiniteSet(DirectSessions)
  /\ entry.refs <= Cardinality(DirectSessions)
  /\ "crossed" \notin upsets =>
       \A c \in entry.funnel : [handle |-> entry.handle, id |-> c.id] \in routes[c.owner]

\* A channel for each route and a route for each channel.
RoutesMatch ==
  /\ \A s \in Sessions : \A r \in routes[s] :
       r.handle = entry.handle /\ [id |-> r.id, owner |-> s] \in entry.funnel
  /\ \A c \in entry.funnel : [handle |-> entry.handle, id |-> c.id] \in routes[c.owner]
  /\ \A c, d \in entry.funnel : c.id = d.id => c = d

\* A reference for each session that holds direct, and a bridge while there is one.
RefsMatch ==
  /\ entry.refs = Cardinality(DirectSessions)
  /\ entry.bridge = (entry.refs > 0)

\* A client for each channel, and none on another handle that still works.
ClientsMatch ==
  /\ entry # NoPort => clients[entry.handle] = {c.id : c \in entry.funnel}
  /\ \A h \in Handles \ (dead \cup {entry.handle}) : clients[h] = {}

\* What is left of a port that died: a session that captured its handle, and every holder
\* while it is registered or once it is gone, has yet to read of the death; and while
\* somebody has, no other handle is registered.
ToldInv ==
  /\ \A s \in Sessions : pc[s] = "channel" /\ held[s] \in dead => events[s] > 0
  /\ entry # NoPort => \A s \in Sessions : events[s] > 0 => entry.handle \in dead
  /\ entry = NoPort \/ entry.handle \in dead =>
       \A s \in Sessions : HoldsPort(s) => events[s] > 0

CalmInv ==
  upsets = {} => ToldInv /\ ClientsMatch /\ (entry # NoPort => RoutesMatch /\ RefsMatch)

IInv ==
  /\ TypeOK /\ HeldInv /\ IdsInv /\ MadeInv /\ EndedInv
  /\ OneChannelPerSession /\ OwnedInv /\ CalmInv

-----------------------------------------------------------------------------
(* Types *)

LEMMA HandleFacts ==
  /\ NoHandle \notin Handles
  /\ Handles \subseteq Nat
  /\ ClientIds \subseteq Nat
  /\ Admin \in Actors /\ Admin \notin Sessions /\ Sessions \subseteq Actors
BY RegistryAssumption DEF Handles, NoHandle, ClientIds, Actors

Port == [handle: Handles \cup {NoHandle}, bridge: BOOLEAN, refs: Nat, funnel: SUBSET Channel]

\* NoPort and a port just opened are ports, and have no channel and no reference.
LEMMA NewPortType ==
  ASSUME NEW h \in Handles \cup {NoHandle}
  PROVE  /\ NoPort \in Port
         /\ NewPort(h) \in Port
         /\ NewPort(h).handle = h /\ NewPort(h).refs = 0
         /\ NewPort(h).funnel = {} /\ ~NewPort(h).bridge
<1>1. NoPort \in Port
  BY DEF Port, NoPort
<1>2. NewPort(h) = [NoPort EXCEPT !.handle = h]
  BY DEF NewPort
<1>3. NoPort.refs = 0 /\ NoPort.funnel = {} /\ NoPort.bridge = FALSE
  BY DEF NoPort
<1> QED
  BY <1>1, <1>2, <1>3 DEF Port

\* A flag that says whether a count is zero, in the form RefsMatch has it.
LEMMA FlagOfCount ==
  ASSUME NEW b \in BOOLEAN, NEW n \in Nat, b <=> n # 0
  PROVE  b = (n > 0)
<1>1. (n > 0) \in BOOLEAN /\ ((n > 0) <=> n # 0)
  OBVIOUS
<1> QED
  BY <1>1, Zenon

\* What a handler changes of a port leaves a port.
LEMMA PortUpdate ==
  ASSUME NEW p \in Port, NEW b \in BOOLEAN, NEW n \in Nat, NEW f \in SUBSET Channel
  PROVE  /\ [p EXCEPT !.bridge = b, !.refs = n] \in Port
         /\ [p EXCEPT !.funnel = f] \in Port
         /\ [p EXCEPT !.funnel = f, !.refs = n, !.bridge = b] \in Port
BY DEF Port

\* A channel put in a funnel replaces the one of its id.
LEMMA PutChannelType ==
  ASSUME NEW f \in SUBSET Channel, NEW id \in ClientIds, NEW s \in Sessions
  PROVE  PutChannel(f, id, s) \in SUBSET Channel
BY DEF PutChannel, Channel

\* The entry a session leaves is a port, with its handle.
LEMMA EntryWithoutType ==
  ASSUME TypeOK, NEW s \in Sessions
  PROVE  /\ EntryWithout(s) \in Port
         /\ EntryWithout(s).handle = entry.handle
<1>1. entry \in Port
  BY DEF TypeOK, Port
<1>2. (IF direct[s] /\ entry.refs > 0 THEN entry.refs - 1 ELSE entry.refs) \in Nat
  BY <1>1 DEF Port
<1>3. {c \in entry.funnel : \A r \in routes[s] : r.id # c.id} \in SUBSET Channel
  BY <1>1 DEF Port
<1> QED
  BY <1>1, <1>2, <1>3 DEF EntryWithout, Port

-----------------------------------------------------------------------------
(* What a step that leaves something alone keeps *)

\* What is noted of an upset is never taken back.
LEMMA UpsetsGrow ==
  ASSUME TypeOK, NEW s \in Sessions,
         upsets' \in {upsets, WithNewEntry, WithShared(s)}
  PROVE  /\ upsets' \subseteq {"forced", "untold", "late", "crossed"}
         /\ upsets' = {} => upsets = {}
         /\ "crossed" \in upsets' <=> "crossed" \in upsets
BY DEF TypeOK, WithNewEntry, WithShared

\* The books agree as before when neither side of them changes, and whoever comes to hold
\* a dead handle is told.
LEMMA BooksUntouched ==
  ASSUME CalmInv, UNCHANGED <<entry, clients, direct, routes, dead, events>>,
         upsets' = {} => upsets = {},
         upsets' = {} => \A s \in Sessions :
           pc'[s] = "channel" /\ held'[s] \in dead =>
             (pc[s] = "channel" /\ held[s] = held'[s]) \/ events[s] > 0
  PROVE  CalmInv'
<1> SUFFICES ASSUME upsets' = {}
             PROVE  ToldInv' /\ ClientsMatch' /\ (entry' # NoPort => RoutesMatch' /\ RefsMatch')
  BY DEF CalmInv
<1>1. ToldInv /\ ClientsMatch /\ (entry # NoPort => RoutesMatch /\ RefsMatch)
  BY DEF CalmInv
<1>2. ToldInv'
  BY <1>1 DEF ToldInv, HoldsPort
<1>3. ClientsMatch'
  BY <1>1 DEF ClientsMatch
<1>4. entry' # NoPort => RoutesMatch' /\ RefsMatch'
  BY <1>1 DEF RoutesMatch, RefsMatch, DirectSessions
<1> QED
  BY <1>2, <1>3, <1>4

LEMMA OwnersUntouched ==
  ASSUME OwnedInv, UNCHANGED <<entry, direct, routes>>,
         "crossed" \notin upsets' => "crossed" \notin upsets
  PROVE  OwnedInv'
BY DEF OwnedInv, DirectSessions, IsIdle

\* No session ends but by Release.
LEMMA EndedKept ==
  ASSUME EndedInv, NEW s \in Sessions,
         \A t \in Sessions : pc'[t] = "ended" => pc[t] = "ended" /\ t # s,
         \A t \in Sessions \ {s} : direct'[t] = direct[t] /\ routes'[t] \subseteq routes[t]
  PROVE  EndedInv'
BY DEF EndedInv, HoldsPort

\* References are let go of, and a handle that dies was alive.
LEMMA AliveShrinks ==
  ASSUME MadeInv, Alive' \subseteq Alive, made' = made,
         dead \subseteq dead', dead' \subseteq dead \cup Alive
  PROVE  MadeInv'
<1>1. ASSUME NEW h \in dead' \cup Alive' PROVE h <= made'
  BY DEF MadeInv
<1>2. ASSUME NEW g \in Alive' \ dead', NEW h \in Alive' \ dead' PROVE g = h
  BY DEF MadeInv
<1> QED
  BY <1>1, <1>2 DEF MadeInv

\* A handle just opened is no older one, and the only one that works.
LEMMA NewHandle ==
  ASSUME IInv, CanOpen, made' = made + 1, dead' = dead, Alive' \subseteq Alive \cup {made + 1}
  PROVE  /\ made + 1 \in Handles /\ made' \in 0 .. MaxHandles
         /\ made + 1 \notin dead
         /\ MadeInv'
<1>1. made \in 0 .. MaxHandles /\ made < MaxHandles /\ Alive \subseteq dead /\ dead \subseteq Handles
  BY DEF IInv, TypeOK, CanOpen
<1>2. made + 1 \in Handles /\ made' \in 0 .. MaxHandles /\ made \in Nat
  BY <1>1, RegistryAssumption DEF Handles
<1>3. \A h \in dead : h \in Nat /\ h <= made
  BY <1>1, HandleFacts DEF IInv, MadeInv
<1>4. made + 1 \notin dead
  BY <1>2, <1>3
<1>5. \A h \in dead' \cup Alive' : h \in dead \/ h = made + 1
  BY <1>1
<1>6. ASSUME NEW h \in dead' \cup Alive' PROVE h <= made'
  BY <1>2, <1>3, <1>5, <1>6
<1>7. ASSUME NEW g \in Alive' \ dead' PROVE g = made + 1
  BY <1>5
<1> QED
  BY <1>2, <1>4, <1>6, <1>7 DEF MadeInv

\* The invariants about a single session or handle go on when routes and clients are
\* taken away and ids are only added.
LEMMA RoutesRemoved ==
  ASSUME OneChannelPerSession, \A s \in Sessions : routes'[s] \subseteq routes[s]
  PROVE  OneChannelPerSession'
BY DEF OneChannelPerSession

LEMMA ClientsRemoved ==
  ASSUME IdsInv, lastId' = lastId, \A h \in Handles : clients'[h] \subseteq clients[h]
  PROVE  IdsInv'
BY DEF IdsInv

-----------------------------------------------------------------------------
(* Opening *)

LEMMA OpenDirectStep ==
  ASSUME IInv, NEW s \in Sessions, OpenDirect(s)
  PROVE  IInv'
<1>1. /\ direct' = [direct EXCEPT ![s] = TRUE] /\ pc' = [pc EXCEPT ![s] = "subscribe"]
      /\ UNCHANGED <<dead, clients, lastId, subs, routes, errSub, events, held>>
      /\ pc[s] = "idle"
  BY DEF OpenDirect, SetPc, Idle
<1>2. /\ direct \in [Sessions -> BOOLEAN] /\ entry \in Port /\ made \in 0 .. MaxHandles
      /\ pc \in [Sessions -> {"idle", "channel", "subscribe", "drop", "ended"}]
  BY DEF IInv, TypeOK, Port
<1>3. DirectSessions' = DirectSessions \cup {s}
  BY <1>1, <1>2 DEF DirectSessions
<1>4. /\ IsFiniteSet(DirectSessions) /\ IsFiniteSet(DirectSessions')
      /\ Cardinality(DirectSessions') = IF direct[s] THEN Cardinality(DirectSessions)
                                        ELSE Cardinality(DirectSessions) + 1
  <2>1. IsFiniteSet(DirectSessions) /\ (s \in DirectSessions <=> direct[s])
    BY DEF IInv, OwnedInv, DirectSessions
  <2> QED
    BY <1>3, <2>1, FS_AddElement
<1>5. Cardinality(DirectSessions) \in Nat /\ Cardinality(DirectSessions') \in Nat
  BY <1>4, FS_CardinalityType
<1>6. Cardinality(DirectSessions') # 0
  BY <1>3, <1>4, FS_EmptySet
<1>7. upsets' \in {upsets, WithNewEntry, WithShared(s)}
  BY DEF OpenDirect
<1>8. /\ upsets' \subseteq {"forced", "untold", "late", "crossed"}
      /\ upsets' = {} => upsets = {}
      /\ "crossed" \in upsets' <=> "crossed" \in upsets
  BY <1>7, UpsetsGrow DEF IInv
<1>9. EndedInv'
  BY <1>1, <1>2, EndedKept DEF IInv
<1>10. ASSUME entry # NoPort, UNCHANGED made, upsets' = WithShared(s),
             entry' = [entry EXCEPT !.bridge = TRUE, !.refs = IF direct[s] THEN @ ELSE @ + 1]
       PROVE  IInv'
  <2>1. (IF direct[s] THEN entry.refs ELSE entry.refs + 1) \in Nat
    BY <1>2 DEF Port
  <2>2. /\ entry' \in Port /\ entry' # NoPort
        /\ entry'.handle = entry.handle /\ entry'.funnel = entry.funnel /\ entry'.bridge = TRUE
        /\ entry'.refs = IF direct[s] THEN entry.refs ELSE entry.refs + 1
    BY <1>2, <1>10, <2>1 DEF Port, NoPort
  <2>3. TypeOK'
    BY <1>1, <1>2, <1>8, <1>10, <2>2, HandleFacts DEF IInv, TypeOK, Port
  <2>4. HeldInv'
    BY <1>1, <1>2, <1>10, <2>2 DEF IInv, HeldInv
  <2>5. MadeInv'
    <3>1. Alive' = Alive
      BY <1>1, <2>2 DEF Alive
    <3> QED
      BY <1>1, <1>10, <3>1, AliveShrinks DEF IInv
  <2>6. OwnedInv'
    <3>1. ~IsIdle(entry')
      <4>1. ~IsIdle(entry)
        BY <1>10 DEF IInv, OwnedInv
      <4> QED
        BY <1>2, <2>2, <4>1 DEF IsIdle, Port
    <3>2. entry'.refs <= Cardinality(DirectSessions')
      <4>1. entry.refs \in Nat /\ entry.refs <= Cardinality(DirectSessions)
        BY <1>2 DEF IInv, OwnedInv, Port
      <4> QED
        BY <1>4, <1>5, <2>2, <4>1
    <3>3. "crossed" \notin upsets' =>
            \A c \in entry'.funnel : [handle |-> entry'.handle, id |-> c.id] \in routes'[c.owner]
      BY <1>1, <1>8, <2>2 DEF IInv, OwnedInv
    <3> QED
      BY <1>4, <3>1, <3>2, <3>3 DEF OwnedInv
  <2>7. CalmInv'
    <3> SUFFICES ASSUME upsets' = {}
                 PROVE  ToldInv' /\ ClientsMatch' /\ RoutesMatch' /\ RefsMatch'
      BY DEF CalmInv
    <3>1. ToldInv /\ ClientsMatch /\ RoutesMatch /\ RefsMatch
      BY <1>8, <1>10 DEF IInv, CalmInv
    <3>2. ToldInv'
      <4>1. ASSUME NEW t \in Sessions, pc'[t] = "channel", held'[t] \in dead'
            PROVE  events'[t] > 0
        BY <1>1, <1>2, <3>1, <4>1 DEF ToldInv
      <4>2. ASSUME NEW t \in Sessions, events'[t] > 0
            PROVE  entry'.handle \in dead'
        BY <1>1, <1>10, <2>2, <3>1, <4>2 DEF ToldInv
      <4>3. ASSUME entry'.handle \in dead', NEW t \in Sessions, HoldsPort(t)'
            PROVE  events'[t] > 0
        <5>1. entry.handle \in dead
          BY <1>1, <2>2, <4>3
        <5>2. CASE t = s
          <6>1. events \in [Sessions -> Nat] /\ events[s] # 0
            BY <1>10, <5>1 DEF WithShared, IInv, TypeOK
          <6>2. events[s] \in Nat /\ events'[t] = events[s]
            BY <1>1, <5>2, <6>1
          <6> QED
            BY <6>1, <6>2
        <5>3. CASE t # s
          <6>1. HoldsPort(t)
            BY <1>1, <1>2, <4>3, <5>3 DEF HoldsPort
          <6> QED
            BY <1>1, <3>1, <5>1, <6>1 DEF ToldInv
        <5> QED
          BY <5>2, <5>3
      <4> QED
        BY <2>2, <4>1, <4>2, <4>3 DEF ToldInv
    <3>3. ClientsMatch'
      BY <1>1, <1>10, <2>2, <3>1 DEF ClientsMatch
    <3>4. RoutesMatch'
      BY <1>1, <2>2, <3>1 DEF RoutesMatch
    <3>5. RefsMatch'
      <4>1. entry'.refs = Cardinality(DirectSessions')
        BY <1>4, <2>2, <3>1 DEF RefsMatch
      <4>2. entry'.bridge \in BOOLEAN /\ entry'.refs \in Nat /\ (entry'.bridge <=> entry'.refs # 0)
        BY <1>5, <1>6, <2>2, <4>1
      <4>3. entry'.bridge = (entry'.refs > 0)
        BY <4>2, FlagOfCount
      <4> QED
        BY <4>1, <4>3 DEF RefsMatch
    <3> QED
      BY <3>2, <3>3, <3>4, <3>5
  <2> QED
    BY <1>1, <1>9, <2>3, <2>4, <2>5, <2>6, <2>7, RoutesRemoved, ClientsRemoved DEF IInv
<1>11. ASSUME entry = NoPort, CanOpen, made' = made + 1, upsets' = WithNewEntry,
              entry' = [NewPort(made + 1) EXCEPT !.bridge = TRUE, !.refs = 1]
       PROVE  IInv'
  <2>1. made + 1 \in Handles
    BY <1>11, RegistryAssumption DEF IInv, TypeOK, CanOpen, Handles
  <2>2. /\ entry' \in Port /\ entry' # NoPort
        /\ entry'.handle = made + 1 /\ entry'.funnel = {} /\ entry'.bridge = TRUE
        /\ entry'.refs = 1
    <3>1. NewPort(made + 1) \in Port
      BY <2>1, NewPortType
    <3>2. /\ entry' \in Port
          /\ entry'.handle = made + 1 /\ entry'.funnel = {} /\ entry'.bridge = TRUE
          /\ entry'.refs = 1
      BY <1>11, <2>1, <3>1, NewPortType DEF Port
    <3> QED
      BY <3>2 DEF NoPort
  <2>3. /\ made' \in 0 .. MaxHandles
        /\ made + 1 \notin dead
        /\ MadeInv'
    <3>1. Alive' \subseteq Alive \cup {made + 1}
      BY <1>1, <2>2 DEF Alive
    <3> QED
      BY <1>1, <1>11, <3>1, NewHandle
  <2>4. TypeOK'
    BY <1>1, <1>2, <1>8, <2>2, <2>3, HandleFacts DEF IInv, TypeOK, Port
  <2>5. HeldInv'
    BY <1>1, <1>2, <2>1, <2>2 DEF IInv, HeldInv
  <2>6. OwnedInv'
    <3>1. ~IsIdle(entry')
      BY <2>2 DEF IsIdle
    <3>2. entry'.refs <= Cardinality(DirectSessions')
      BY <1>5, <1>6, <2>2
    <3> QED
      BY <1>4, <2>2, <3>1, <3>2 DEF OwnedInv
  <2>7. CalmInv'
    <3> SUFFICES ASSUME upsets' = {}
                 PROVE  ToldInv' /\ ClientsMatch' /\ RoutesMatch' /\ RefsMatch'
      BY DEF CalmInv
    <3>1. ToldInv /\ ClientsMatch
      BY <1>8 DEF IInv, CalmInv
    <3>2. \A t \in Sessions : ~(events[t] > 0) /\ ~HoldsPort(t)
      BY <1>11, <3>1 DEF WithNewEntry, ToldInv
    <3>3. ToldInv'
      BY <1>1, <1>2, <2>2, <2>3, <3>1, <3>2 DEF ToldInv
    <3>4. ClientsMatch'
      <4>1. \A h \in Handles : h # entry.handle
        BY <1>11, HandleFacts DEF NoPort
      <4>2. \A h \in Handles \ dead : clients[h] = {}
        BY <3>1, <4>1 DEF ClientsMatch
      <4> QED
        BY <1>1, <2>1, <2>2, <2>3, <4>2 DEF ClientsMatch
    <3>5. RoutesMatch'
      BY <1>1, <2>2, <3>2 DEF RoutesMatch, HoldsPort
    <3>6. RefsMatch'
      <4>1. DirectSessions' = {s}
        BY <1>3, <3>2 DEF DirectSessions, HoldsPort
      <4>2. Cardinality({s}) = 1
        BY FS_Singleton
      <4>3. entry'.refs = Cardinality(DirectSessions')
        BY <2>2, <4>1, <4>2
      <4>4. (entry'.refs > 0) \in BOOLEAN /\ entry'.refs > 0
        BY <2>2
      <4>5. entry'.bridge = (entry'.refs > 0)
        BY <2>2, <4>4, Zenon
      <4> QED
        BY <4>3, <4>5 DEF RefsMatch
    <3> QED
      BY <3>3, <3>4, <3>5, <3>6
  <2> QED
    BY <1>1, <1>9, <2>3, <2>4, <2>5, <2>6, <2>7, RoutesRemoved, ClientsRemoved DEF IInv
<1> QED
  BY <1>10, <1>11 DEF OpenDirect

LEMMA OpenFunnelStep ==
  ASSUME IInv, NEW s \in Sessions, OpenFunnel(s)
  PROVE  IInv'
<1>1. /\ pc' = [pc EXCEPT ![s] = "channel"] /\ pc[s] = "idle"
      /\ UNCHANGED <<entry, dead, clients, lastId, subs, direct, routes, errSub, events>>
  BY DEF OpenFunnel, SetPc, Idle
<1>2. /\ held \in [Actors -> Handles \cup {NoHandle}] /\ made \in 0 .. MaxHandles
      /\ pc \in [Sessions -> {"idle", "channel", "subscribe", "drop", "ended"}]
  BY DEF IInv, TypeOK
<1>3. upsets' \in {upsets, WithNewEntry, WithShared(s)}
  BY DEF OpenFunnel
<1>4. /\ upsets' \subseteq {"forced", "untold", "late", "crossed"}
      /\ upsets' = {} => upsets = {}
      /\ "crossed" \in upsets' <=> "crossed" \in upsets
  BY <1>3, UpsetsGrow DEF IInv
<1>5. /\ held' = [held EXCEPT ![s] = held'[s]] /\ held'[s] \in Handles
      /\ made' \in 0 .. MaxHandles /\ MadeInv'
      /\ upsets' = {} => (held'[s] \in dead => events[s] > 0)
  <2>1. CASE entry # NoPort /\ Hold(s, entry.handle) /\ UNCHANGED made /\ upsets' = WithShared(s)
    <3>1. held' = [held EXCEPT ![s] = entry.handle] /\ held'[s] = entry.handle
          /\ entry.handle \in Handles
      BY <1>2, <2>1, HandleFacts DEF IInv, HeldInv, Hold
    <3>2. Alive' \subseteq Alive
      <4>1. ASSUME NEW h \in Alive' PROVE h \in Alive
        <5>1. h # NoHandle /\ (h = entry.handle \/ \E a \in Actors : held'[a] = h)
          BY <1>1 DEF Alive
        <5>2. \A a \in Actors : held'[a] = held[a] \/ held'[a] = entry.handle
          BY <1>2, <3>1
        <5> QED
          BY <5>1, <5>2 DEF Alive
      <4> QED
        BY <4>1
    <3>3. MadeInv'
      BY <1>1, <2>1, <3>2, AliveShrinks DEF IInv
    <3>4. upsets' = {} => (held'[s] \in dead => events[s] > 0)
      BY <2>1, <3>1 DEF WithShared, IInv, TypeOK
    <3> QED
      BY <1>2, <2>1, <3>1, <3>3, <3>4
  <2>2. CASE entry = NoPort /\ CanOpen /\ made' = made + 1 /\ Hold(s, made + 1)
    <3>1. held' = [held EXCEPT ![s] = made + 1] /\ held'[s] = made + 1
      BY <1>2, <2>2, HandleFacts DEF Hold
    <3>2. Alive' \subseteq Alive \cup {made + 1}
      <4>1. ASSUME NEW h \in Alive' PROVE h \in Alive \cup {made + 1}
        <5>1. h # NoHandle /\ (h = entry.handle \/ \E a \in Actors : held'[a] = h)
          BY <1>1 DEF Alive
        <5>2. \A a \in Actors : held'[a] = held[a] \/ held'[a] = made + 1
          BY <1>2, <3>1
        <5> QED
          BY <5>1, <5>2 DEF Alive
      <4> QED
        BY <4>1
    <3>3. made + 1 \in Handles /\ made' \in 0 .. MaxHandles /\ made + 1 \notin dead /\ MadeInv'
      BY <1>1, <2>2, <3>2, NewHandle
    <3> QED
      BY <3>1, <3>3
  <2> QED
    BY <2>1, <2>2 DEF OpenFunnel
<1>6. TypeOK'
  BY <1>1, <1>2, <1>4, <1>5, HandleFacts DEF IInv, TypeOK
<1>7. HeldInv'
  BY <1>1, <1>2, <1>5, HandleFacts DEF IInv, HeldInv
<1>8. EndedInv'
  BY <1>1, <1>2, EndedKept DEF IInv
<1>9. CalmInv'
  <2>1. ASSUME upsets' = {}, NEW t \in Sessions, pc'[t] = "channel", held'[t] \in dead
        PROVE  (pc[t] = "channel" /\ held[t] = held'[t]) \/ events[t] > 0
    <3>1. CASE t = s
      BY <1>5, <2>1, <3>1
    <3>2. CASE t # s
      BY <1>1, <1>2, <1>5, <2>1, <3>2, HandleFacts
    <3> QED
      BY <3>1, <3>2
  <2> QED
    BY <1>1, <1>4, <2>1, BooksUntouched DEF IInv
<1>10. OwnedInv'
  BY <1>1, <1>4, OwnersUntouched DEF IInv
<1> QED
  BY <1>1, <1>5, <1>6, <1>7, <1>8, <1>9, <1>10, RoutesRemoved, ClientsRemoved DEF IInv

LEMMA AllocChannelStep ==
  ASSUME IInv, NEW s \in Sessions, AllocChannel(s)
  PROVE  IInv'
<1> DEFINE h  == held[s]
           id == lastId[h] + 1
<1>1. h \in Handles /\ pc[s] = "channel" /\ h \in Alive
  <2>1. h \in Handles /\ pc[s] = "channel"
    BY DEF AllocChannel, IInv, HeldInv
  <2> QED
    BY <2>1, HandleFacts DEF Alive
<1>2. /\ held' = [held EXCEPT ![s] = NoHandle] /\ pc' = [pc EXCEPT ![s] = "subscribe"]
      /\ UNCHANGED <<made, dead, subs, direct, errSub, events>>
  BY DEF AllocChannel, Hold, SetPc
<1>3. /\ held \in [Actors -> Handles \cup {NoHandle}]
      /\ pc \in [Sessions -> {"idle", "channel", "subscribe", "drop", "ended"}]
      /\ routes \in [Sessions -> SUBSET Route]
  BY DEF IInv, TypeOK
<1>4. \A a \in Actors : held'[a] \in {held[a], NoHandle}
  BY <1>2, <1>3
<1>5. ASSUME UNCHANGED <<entry, clients, lastId, routes, upsets>>
      PROVE  IInv'
  <2>1. TypeOK'
    BY <1>2, <1>5, HandleFacts DEF IInv, TypeOK
  <2>2. HeldInv'
    BY <1>2, <1>3, <1>5, HandleFacts DEF IInv, HeldInv
  <2>3. MadeInv'
    <3>1. Alive' \subseteq Alive
      BY <1>4, <1>5 DEF Alive
    <3> QED
      BY <1>2, <3>1, AliveShrinks DEF IInv
  <2>4. EndedInv'
    BY <1>1, <1>2, <1>3, <1>5, EndedKept DEF IInv
  <2>5. CalmInv'
    <3>1. \A t \in Sessions : pc'[t] = "channel" => pc[t] = "channel" /\ held[t] = held'[t]
      BY <1>2, <1>3, HandleFacts
    <3> QED
      BY <1>2, <1>5, <3>1, BooksUntouched DEF IInv
  <2>6. OwnedInv'
    BY <1>2, <1>5, OwnersUntouched DEF IInv
  <2> QED
    BY <1>2, <1>5, <2>1, <2>2, <2>3, <2>4, <2>5, <2>6, RoutesRemoved, ClientsRemoved DEF IInv
<1>6. ASSUME Reusable(s) = {}, id \in ClientIds,
             lastId' = [lastId EXCEPT ![h] = id],
             clients' = [clients EXCEPT ![h] = @ \cup {id}],
             routes' = [routes EXCEPT ![s] = @ \cup {[handle |-> h, id |-> id]}],
             entry' = [(IF entry = NoPort THEN NewPort(h) ELSE entry)
                         EXCEPT !.funnel = PutChannel(@, id, s)],
             upsets' = IF entry = NoPort THEN WithNewEntry
                       ELSE IF entry.handle = h THEN upsets ELSE upsets \cup {"crossed"}
      PROVE  IInv'
  <2> DEFINE port == IF entry = NoPort THEN NewPort(h) ELSE entry
             chan == [id |-> id, owner |-> s]
             new  == [handle |-> h, id |-> id]
  <2>1. /\ port \in Port
        /\ port.handle \in Handles
        /\ entry = NoPort => port.handle = h
        /\ port.refs = entry.refs /\ port.bridge = entry.bridge /\ port.funnel = entry.funnel
    <3>1. CASE entry = NoPort
      BY <1>1, <3>1, NewPortType DEF NewPort, NoPort
    <3>2. CASE entry # NoPort
      BY <1>1, <3>2, NewPortType DEF IInv, TypeOK, HeldInv, Port
    <3> QED
      BY <3>1, <3>2
  <2>2. /\ entry' \in Port
        /\ entry'.handle = port.handle /\ entry'.refs = entry.refs /\ entry'.bridge = entry.bridge
        /\ entry'.funnel = PutChannel(entry.funnel, id, s)
    <3>1. entry' = [port EXCEPT !.funnel = PutChannel(port.funnel, id, s)]
      BY <1>6
    <3>2. PutChannel(port.funnel, id, s) \in SUBSET Channel
      BY <1>6, <2>1, PutChannelType DEF Port
    <3> QED
      BY <2>1, <3>1, <3>2 DEF Port
  <2>3. new \in Route /\ new.handle = h /\ new.id = id /\ chan.id = id /\ chan.owner = s
    BY <1>1, <1>6 DEF Route
  <2>4. /\ chan \in entry'.funnel /\ entry' # NoPort
        /\ \A c \in entry'.funnel : c = chan \/ c \in entry.funnel
    <3>1. chan \in entry'.funnel /\ \A c \in entry'.funnel : c = chan \/ c \in entry.funnel
      BY <2>2 DEF PutChannel
    <3> QED
      BY <3>1 DEF NoPort
  <2>5. /\ \A t \in Sessions : routes[t] \subseteq routes'[t]
        /\ \A t \in Sessions : \A r \in routes'[t] : r \in routes[t] \/ (t = s /\ r = new)
        /\ new \in routes'[s]
    BY <1>3, <1>6
  <2>6. /\ upsets' \subseteq {"forced", "untold", "late", "crossed"}
        /\ upsets' = {} => upsets = {}
        /\ "crossed" \notin upsets' => "crossed" \notin upsets /\ port.handle = h
    BY <1>6, <2>1, UpsetsGrow DEF IInv, TypeOK, WithNewEntry
  <2> HIDE DEF port, chan, new
  <2>7. TypeOK'
    <3>1. /\ clients' \in [Handles -> SUBSET ClientIds]
          /\ lastId' \in [Handles -> 0 .. MaxIds]
      BY <1>1, <1>6, RegistryAssumption DEF IInv, TypeOK, ClientIds
    <3>2. routes' \in [Sessions -> SUBSET Route]
      BY <1>3, <1>6, <2>3 DEF new
    <3>3. /\ held' \in [Actors -> Handles \cup {NoHandle}]
          /\ pc' \in [Sessions -> {"idle", "channel", "subscribe", "drop", "ended"}]
      BY <1>2, <1>3, HandleFacts
    <3> QED
      BY <1>2, <2>2, <2>6, <3>1, <3>2, <3>3 DEF IInv, TypeOK, Port
  <2>8. HeldInv'
    BY <1>2, <1>3, <2>1, <2>2, HandleFacts DEF IInv, HeldInv
  <2>9. MadeInv'
    <3>1. ASSUME NEW g \in Alive' PROVE g \in Alive
      <4>1. port.handle \in Alive
        <5>1. port.handle = h \/ port.handle = entry.handle
          BY <2>1 DEF port
        <5> QED
          BY <1>1, <2>1, <5>1, HandleFacts DEF Alive
      <4> QED
        BY <1>4, <2>2, <3>1, <4>1 DEF Alive
    <3> QED
      BY <1>2, <3>1, AliveShrinks DEF IInv
  <2>10. EndedInv'
    BY <1>1, <1>2, <1>3, <1>6, EndedKept DEF IInv
  <2>11. IdsInv'
    <3> SUFFICES ASSUME NEW g \in Handles, NEW i \in clients'[g]
                 PROVE  i <= lastId'[g]
      BY DEF IdsInv
    <3>1. lastId[g] \in Nat
      BY RegistryAssumption DEF IInv, TypeOK
    <3>2. i \in clients[g] => i \in Nat /\ i <= lastId[g]
      BY HandleFacts DEF IInv, IdsInv, TypeOK
    <3> QED
      BY <1>1, <1>6, <3>1, <3>2 DEF IInv, TypeOK
  <2>12. OneChannelPerSession'
    <3> SUFFICES ASSUME NEW t \in Sessions, NEW r \in routes'[t], NEW q \in routes'[t],
                        r.handle = q.handle
                 PROVE  r = q
      BY DEF OneChannelPerSession
    <3>1. \A x \in routes[s] : x.handle # h
      BY <1>6 DEF Reusable
    <3>2. r \in routes[t] /\ q \in routes[t] => r = q
      BY DEF IInv, OneChannelPerSession
    <3> QED
      BY <2>3, <2>5, <3>1, <3>2
  <2>13. OwnedInv'
    <3>1. ~IsIdle(entry')
      BY <2>4 DEF IsIdle
    <3>2. DirectSessions' = DirectSessions
      BY <1>2 DEF DirectSessions
    <3>3. ASSUME "crossed" \notin upsets', NEW c \in entry'.funnel
          PROVE  [handle |-> entry'.handle, id |-> c.id] \in routes'[c.owner]
      <4>1. CASE c = chan
        BY <2>2, <2>3, <2>5, <2>6, <3>3, <4>1 DEF new
      <4>2. CASE c \in entry.funnel
        <5>1. [handle |-> entry.handle, id |-> c.id] \in routes[c.owner] /\ c.owner \in Sessions
          BY <2>6, <3>3, <4>2 DEF IInv, OwnedInv, TypeOK, Channel
        <5>2. entry'.handle = entry.handle
          BY <2>2, <4>2 DEF port, NoPort
        <5> QED
          BY <2>5, <5>1, <5>2
      <4> QED
        BY <2>4, <4>1, <4>2
    <3> QED
      BY <2>2, <3>1, <3>2, <3>3 DEF IInv, OwnedInv
  <2>14. CalmInv'
    <3> SUFFICES ASSUME upsets' = {}
                 PROVE  ToldInv' /\ ClientsMatch' /\ RoutesMatch' /\ RefsMatch'
      BY DEF CalmInv
    <3>1. /\ ToldInv /\ ClientsMatch /\ (entry # NoPort => RoutesMatch /\ RefsMatch)
          /\ port.handle = h /\ (entry # NoPort => entry.handle = h)
      BY <2>6 DEF IInv, CalmInv, port
    <3>2. ASSUME entry = NoPort
          PROVE  /\ \A t \in Sessions : ~(events[t] > 0) /\ ~HoldsPort(t)
                 /\ h \notin dead /\ clients[h] = {} /\ entry.funnel = {}
                 /\ entry.refs = 0 /\ entry.bridge = FALSE
      <4>1. \A t \in Sessions : ~(events[t] > 0) /\ ~HoldsPort(t)
        BY <1>6, <3>1, <3>2 DEF WithNewEntry, ToldInv
      <4>2. h \notin dead
        BY <1>1, <3>1, <4>1 DEF ToldInv
      <4>3. h # entry.handle /\ entry.funnel = {} /\ entry.refs = 0 /\ entry.bridge = FALSE
        BY <1>1, <3>2, HandleFacts DEF NoPort
      <4>4. clients[h] = {}
        BY <1>1, <3>1, <4>2, <4>3 DEF ClientsMatch
      <4> QED
        BY <4>1, <4>2, <4>3, <4>4
    <3>3. clients[h] = {c.id : c \in entry.funnel}
      BY <3>1, <3>2 DEF ClientsMatch
    <3>4. \A c \in entry.funnel : c.id # id
      <4>1. ASSUME NEW c \in entry.funnel PROVE c.id # id
        <5>1. c.id \in clients[h]
          BY <3>3
        <5>2. lastId[h] \in Nat /\ c.id \in Nat
          <6>1. /\ lastId \in [Handles -> 0 .. MaxIds] /\ MaxIds \in Nat
                /\ clients \in [Handles -> SUBSET ClientIds]
            BY RegistryAssumption DEF IInv, TypeOK
          <6>2. c.id \in ClientIds
            BY <1>1, <5>1, <6>1
          <6>3. lastId[h] \in 0 .. MaxIds
            BY <1>1, <6>1
          <6>4. lastId[h] \in Nat
            BY <6>1, <6>3
          <6>5. c.id \in Nat
            BY <6>2, HandleFacts
          <6> QED
            BY <6>4, <6>5
        <5>3. c.id <= lastId[h]
          BY <1>1, <5>1 DEF IInv, IdsInv
        <5> QED
          BY <5>2, <5>3
      <4> QED
        BY <4>1
    <3>5. entry'.funnel = entry.funnel \cup {chan} /\ entry'.handle = h
      BY <2>2, <3>1, <3>4 DEF PutChannel, chan
    <3>6. /\ \A t \in Sessions : \A r \in routes[t] :
               r.handle = h /\ [id |-> r.id, owner |-> t] \in entry.funnel
          /\ \A c \in entry.funnel : [handle |-> h, id |-> c.id] \in routes[c.owner]
          /\ \A c, d \in entry.funnel : c.id = d.id => c = d
      <4>1. CASE entry = NoPort
        BY <3>2, <4>1 DEF HoldsPort
      <4>2. CASE entry # NoPort
        BY <3>1, <4>2 DEF RoutesMatch
      <4> QED
        BY <4>1, <4>2
    <3>7. RoutesMatch'
      <4>1. ASSUME NEW t \in Sessions, NEW r \in routes'[t]
            PROVE  r.handle = h /\ [id |-> r.id, owner |-> t] \in entry'.funnel
        <5>1. CASE r \in routes[t]
          BY <3>5, <3>6, <5>1
        <5>2. CASE t = s /\ r = new
          BY <2>3, <3>5, <5>2 DEF chan
        <5> QED
          BY <2>5, <5>1, <5>2
      <4>2. ASSUME NEW c \in entry'.funnel
            PROVE  [handle |-> h, id |-> c.id] \in routes'[c.owner]
        <5>1. CASE c \in entry.funnel
          <6>1. c.owner \in Sessions
            BY <5>1 DEF IInv, TypeOK, Channel
          <6> QED
            BY <2>5, <3>6, <5>1, <6>1
        <5>2. CASE c = chan
          BY <2>3, <2>5, <5>2 DEF new
        <5> QED
          BY <3>5, <5>1, <5>2
      <4>3. \A c, d \in entry'.funnel : c.id = d.id => c = d
        BY <2>3, <3>4, <3>5, <3>6
      <4> QED
        BY <3>5, <4>1, <4>2, <4>3 DEF RoutesMatch
    <3>8. RefsMatch'
      <4>1. DirectSessions' = DirectSessions
        BY <1>2 DEF DirectSessions
      <4>2. CASE entry # NoPort
        BY <2>2, <3>1, <4>1, <4>2 DEF RefsMatch
      <4>3. CASE entry = NoPort
        <5>1. DirectSessions = {} /\ entry'.refs = 0 /\ entry'.bridge = FALSE
          BY <2>2, <3>2, <4>3 DEF DirectSessions, HoldsPort
        <5>2. Cardinality(DirectSessions') = 0
          BY <4>1, <5>1, FS_EmptySet
        <5>3. entry'.bridge = (entry'.refs > 0)
          BY <5>1, FlagOfCount
        <5> QED
          BY <5>1, <5>2, <5>3 DEF RefsMatch
      <4> QED
        BY <4>2, <4>3
    <3>9. ClientsMatch'
      <4>1. {c.id : c \in entry'.funnel} = {c.id : c \in entry.funnel} \cup {id}
        BY <2>3, <3>5
      <4>2. clients'[h] = {c.id : c \in entry'.funnel}
        BY <1>1, <1>6, <3>3, <4>1 DEF IInv, TypeOK
      <4>3. ASSUME NEW g \in Handles \ (dead \cup {h}) PROVE clients'[g] = {}
        <5>1. g # entry.handle
          BY <3>1, HandleFacts DEF NoPort
        <5> QED
          BY <1>1, <1>6, <3>1, <5>1 DEF IInv, TypeOK, ClientsMatch
      <4> QED
        BY <1>2, <3>5, <4>2, <4>3 DEF ClientsMatch
    <3>10. ToldInv'
      <4>1. ASSUME NEW t \in Sessions, pc'[t] = "channel", held'[t] \in dead
            PROVE  events[t] > 0
        <5>1. t # s /\ pc[t] = "channel" /\ held[t] = held'[t]
          BY <1>2, <1>3, <4>1, HandleFacts
        <5> QED
          BY <3>1, <4>1, <5>1 DEF ToldInv
      <4>2. ASSUME NEW t \in Sessions, events[t] > 0 PROVE h \in dead
        BY <3>1, <3>2, <4>2 DEF ToldInv
      <4>3. ASSUME h \in dead, NEW t \in Sessions, HoldsPort(t)' PROVE events[t] > 0
        <5>1. CASE t = s
          BY <1>1, <3>1, <4>3, <5>1 DEF ToldInv
        <5>2. CASE t # s
          <6>1. HoldsPort(t)
            BY <1>2, <2>5, <4>3, <5>2 DEF HoldsPort
          <6>2. entry # NoPort /\ entry.handle \in dead
            BY <3>1, <3>2, <4>3
          <6> QED
            BY <3>1, <6>1, <6>2 DEF ToldInv
        <5> QED
          BY <5>1, <5>2
      <4> QED
        BY <1>2, <2>4, <3>5, <4>1, <4>2, <4>3 DEF ToldInv
    <3> QED
      BY <3>7, <3>8, <3>9, <3>10
  <2> QED
    BY <2>7, <2>8, <2>9, <2>10, <2>11, <2>12, <2>13, <2>14 DEF IInv
<1> QED
  BY <1>5, <1>6 DEF AllocChannel

LEMMA SubscribeStep ==
  ASSUME IInv, NEW s \in Sessions, Subscribe(s)
  PROVE  IInv'
<1>1. /\ pc' = [pc EXCEPT ![s] = "idle"] /\ errSub' = [errSub EXCEPT ![s] = TRUE]
      /\ pc[s] = "subscribe"
      /\ UNCHANGED <<entry, made, dead, clients, lastId, direct, routes, events, held, upsets>>
  BY DEF Subscribe, SetPc
<1>2. subs' \in [Handles -> SUBSET Sessions]
  <2>1. CASE UNCHANGED subs
    BY <2>1 DEF IInv, TypeOK
  <2>2. CASE entry # NoPort /\ subs' = [subs EXCEPT ![entry.handle] = @ \cup {s}]
    BY <2>2 DEF IInv, TypeOK, HeldInv
  <2> QED
    BY <2>1, <2>2 DEF Subscribe
<1>3. TypeOK'
  BY <1>1, <1>2 DEF IInv, TypeOK
<1>4. HeldInv' /\ MadeInv' /\ OwnedInv'
  BY <1>1, OwnersUntouched DEF IInv, TypeOK, HeldInv, MadeInv, Alive
<1>5. EndedInv'
  BY <1>1, EndedKept DEF IInv, TypeOK
<1>6. CalmInv'
  <2>1. \A t \in Sessions : pc'[t] = "channel" => pc[t] = "channel"
    BY <1>1 DEF IInv, TypeOK
  <2> QED
    BY <1>1, <2>1, BooksUntouched DEF IInv
<1> QED
  BY <1>1, <1>3, <1>4, <1>5, <1>6, RoutesRemoved, ClientsRemoved DEF IInv

-----------------------------------------------------------------------------
(* Closing *)

\* Release takes a session's share out of the books and no other's: ids are unique in
\* the funnel, so its channels are no one else's, and a port that is left idle has
\* neither a direct session nor a funnel session any more.
LEMMA ReleaseKeepsBooks ==
  ASSUME IInv, NEW s \in Sessions, NEW next \in {"idle", "ended"}, Release(s, next),
         UNCHANGED <<dead, events, upsets>>
  PROVE  CalmInv'
<1> DEFINE port    == EntryWithout(s)
           retired == entry # NoPort /\ IsIdle(port)
<1> SUFFICES ASSUME upsets = {}
             PROVE  /\ ToldInv' /\ ClientsMatch'
                    /\ entry' # NoPort => RoutesMatch' /\ RefsMatch'
  BY DEF CalmInv
<1>1. ToldInv /\ ClientsMatch /\ (entry # NoPort => RoutesMatch /\ RefsMatch)
  BY DEF IInv, CalmInv
<1>2. /\ entry' = IF entry = NoPort \/ retired THEN NoPort ELSE port
      /\ clients' = IF entry = NoPort THEN clients
                    ELSE [h \in Handles |->
                            IF h \in Alive
                            THEN clients[h] \ {r.id : r \in {q \in routes[s] : q.handle = h}}
                            ELSE clients[h]]
      /\ routes' = [routes EXCEPT ![s] = {}]
      /\ direct' = [direct EXCEPT ![s] = FALSE]
      /\ held' = [held EXCEPT ![s] = IF retired THEN entry.handle ELSE NoHandle]
      /\ pc' = [pc EXCEPT ![s] = IF retired /\ next = "idle" THEN "drop" ELSE next]
  BY DEF Release, Hold, SetPc
<1>3. /\ routes \in [Sessions -> SUBSET Route] /\ direct \in [Sessions -> BOOLEAN]
      /\ clients \in [Handles -> SUBSET ClientIds] /\ entry \in Port
      /\ held \in [Actors -> Handles \cup {NoHandle}]
      /\ pc \in [Sessions -> {"idle", "channel", "subscribe", "drop", "ended"}]
  BY DEF IInv, TypeOK, Port
<1>4. /\ NoPort.handle = NoHandle /\ NoPort.funnel = {}
      /\ NoPort.refs = 0 /\ NoPort.bridge = FALSE
  BY DEF NoPort
<1>5. ASSUME NEW t \in Sessions, HoldsPort(t)' PROVE t # s /\ HoldsPort(t)
  BY <1>2, <1>3, <1>5 DEF HoldsPort
<1>6. ASSUME NEW t \in Sessions, pc'[t] = "channel", held'[t] \in dead
      PROVE  events[t] > 0
  <2>1. t # s
    BY <1>2, <1>3, <1>6
  <2>2. pc[t] = "channel" /\ held[t] = held'[t]
    BY <1>2, <1>3, <1>6, <2>1, HandleFacts
  <2> QED
    BY <1>1, <1>6, <2>2 DEF ToldInv
<1>7. CASE entry = NoPort
  <2>1. entry' = NoPort /\ clients' = clients
    BY <1>2, <1>7
  <2>2. ToldInv'
    BY <1>1, <1>5, <1>6, <1>7, <2>1 DEF ToldInv
  <2>3. ClientsMatch'
    BY <1>1, <1>7, <2>1 DEF ClientsMatch
  <2> QED
    BY <2>1, <2>2, <2>3
<1>8. CASE entry # NoPort
  <2>1. /\ port \in Port /\ port.handle = entry.handle
        /\ port.funnel = {c \in entry.funnel : \A r \in routes[s] : r.id # c.id}
        /\ port.refs = IF direct[s] /\ entry.refs > 0 THEN entry.refs - 1 ELSE entry.refs
        /\ port.bridge = (entry.bridge /\ (direct[s] => port.refs # 0))
    <3>1. (IF direct[s] /\ entry.refs > 0 THEN entry.refs - 1 ELSE entry.refs) \in Nat
      BY <1>3 DEF Port
    <3> QED
      BY <1>3, <3>1, EntryWithoutType DEF IInv, EntryWithout, Port
  <2>2. /\ RoutesMatch /\ RefsMatch
        /\ entry.handle \in Handles /\ entry.handle \in Alive
    BY <1>1, <1>8, HandleFacts DEF IInv, HeldInv, Alive
  <2> HIDE DEF port
  <2>3. \A c \in entry.funnel : c.owner # s => c \in port.funnel
    <3> SUFFICES ASSUME NEW c \in entry.funnel, c.owner # s, NEW r \in routes[s]
                 PROVE  r.id # c.id
      BY <2>1
    <3> DEFINE d == [id |-> r.id, owner |-> s]
    <3>1. d \in entry.funnel /\ d.id = r.id /\ d.owner = s
      BY <2>2 DEF RoutesMatch
    <3> QED
      BY <2>2, <3>1 DEF RoutesMatch
  <2>4. \A c \in port.funnel : c \in entry.funnel /\ c.owner # s
    <3> SUFFICES ASSUME NEW c \in port.funnel, c.owner = s
                 PROVE  FALSE
      BY <2>1
    <3> DEFINE r == [handle |-> entry.handle, id |-> c.id]
    <3>1. c \in entry.funnel /\ \A q \in routes[s] : q.id # c.id
      BY <2>1
    <3>2. r \in routes[s] /\ r.id = c.id
      BY <2>2, <3>1 DEF RoutesMatch
    <3> QED
      BY <3>1, <3>2
  <2>5. /\ DirectSessions' = DirectSessions \ {s} /\ IsFiniteSet(DirectSessions)
        /\ port.refs = Cardinality(DirectSessions')
        /\ port.bridge = (port.refs > 0)
    <3>1. DirectSessions' = DirectSessions \ {s} /\ (s \in DirectSessions <=> direct[s])
      BY <1>2, <1>3 DEF DirectSessions
    <3>2. /\ IsFiniteSet(DirectSessions) /\ IsFiniteSet(DirectSessions')
          /\ Cardinality(DirectSessions') = IF direct[s] THEN Cardinality(DirectSessions) - 1
                                            ELSE Cardinality(DirectSessions)
      BY <3>1, FS_RemoveElement DEF IInv, OwnedInv
    <3>3. Cardinality(DirectSessions) \in Nat /\ Cardinality(DirectSessions') \in Nat
      BY <3>2, FS_CardinalityType
    <3>4. entry.refs = Cardinality(DirectSessions) /\ entry.bridge = (entry.refs > 0)
      BY <2>2 DEF RefsMatch
    <3>5. direct[s] => entry.refs # 0
      <4>1. direct[s] => DirectSessions # {}
        BY <3>1
      <4> QED
        BY <3>2, <3>4, <4>1, FS_EmptySet
    <3>6. port.refs = Cardinality(DirectSessions')
      BY <2>1, <3>2, <3>3, <3>4, <3>5
    <3>7. port.bridge \in BOOLEAN /\ port.refs \in Nat /\ entry.refs \in Nat /\ entry.bridge \in BOOLEAN
      BY <1>3, <2>1 DEF Port
    <3>8. entry.bridge <=> entry.refs # 0
      <4>1. (entry.refs > 0) <=> entry.refs # 0
        BY <3>7
      <4> QED
        BY <3>4, <4>1
    <3>9. port.bridge <=> port.refs # 0
      <4>1. port.bridge <=> (entry.bridge /\ (direct[s] => port.refs # 0))
        BY <2>1
      <4>2. ~direct[s] => port.refs = entry.refs
        BY <2>1
      <4> QED
        BY <3>5, <3>8, <4>1, <4>2
    <3>10. port.bridge = (port.refs > 0)
      BY <3>7, <3>9, FlagOfCount
    <3> QED
      BY <3>1, <3>2, <3>6, <3>10
  <2>6. clients'[entry.handle] = {c.id : c \in port.funnel}
    <3>1. clients[entry.handle] = {c.id : c \in entry.funnel}
      BY <1>1, <1>8 DEF ClientsMatch
    <3>2. {q \in routes[s] : q.handle = entry.handle} = routes[s]
      BY <2>2 DEF RoutesMatch
    <3>3. clients'[entry.handle] = {c.id : c \in entry.funnel} \ {r.id : r \in routes[s]}
      BY <1>2, <1>8, <2>2, <3>1, <3>2
    <3>4. {c.id : c \in entry.funnel} \ {r.id : r \in routes[s]}
            = {c.id : c \in {d \in entry.funnel : \A r \in routes[s] : r.id # d.id}}
      OBVIOUS
    <3> QED
      BY <2>1, <3>3, <3>4
  <2>7. ASSUME NEW h \in Handles \ (dead \cup {entry.handle}) PROVE clients'[h] = {}
    <3>1. clients[h] = {}
      BY <1>1 DEF ClientsMatch
    <3> QED
      BY <1>2, <1>8, <3>1
  <2>8. /\ \A t \in Sessions : \A r \in routes'[t] :
             r.handle = entry.handle /\ [id |-> r.id, owner |-> t] \in port.funnel
        /\ \A c \in port.funnel : [handle |-> entry.handle, id |-> c.id] \in routes'[c.owner]
        /\ \A c, d \in port.funnel : c.id = d.id => c = d
    <3>1. ASSUME NEW t \in Sessions, NEW r \in routes'[t]
          PROVE  r.handle = entry.handle /\ [id |-> r.id, owner |-> t] \in port.funnel
      <4>1. t # s /\ r \in routes[t]
        BY <1>2, <1>3
      <4>2. r.handle = entry.handle /\ [id |-> r.id, owner |-> t] \in entry.funnel
        BY <2>2, <4>1 DEF RoutesMatch
      <4> QED
        BY <2>3, <4>1, <4>2
    <3>2. ASSUME NEW c \in port.funnel
          PROVE  [handle |-> entry.handle, id |-> c.id] \in routes'[c.owner]
      <4>1. c \in entry.funnel /\ c.owner # s
        BY <2>4
      <4>2. [handle |-> entry.handle, id |-> c.id] \in routes[c.owner]
        BY <2>2, <4>1 DEF RoutesMatch
      <4>3. c.owner \in Sessions
        BY <1>3, <4>1 DEF Port, Channel
      <4> QED
        BY <1>2, <1>3, <4>1, <4>2, <4>3
    <3>3. \A c, d \in port.funnel : c.id = d.id => c = d
      BY <2>2, <2>4 DEF RoutesMatch
    <3> QED
      BY <3>1, <3>2, <3>3
  <2>9. CASE ~retired
    <3>1. entry' = port
      BY <1>2, <1>8, <2>9
    <3>2. RoutesMatch'
      BY <2>1, <2>8, <3>1 DEF RoutesMatch
    <3>3. RefsMatch'
      BY <2>5, <3>1 DEF RefsMatch
    <3>4. ClientsMatch'
      BY <2>1, <2>6, <2>7, <3>1 DEF ClientsMatch
    <3>5. ToldInv'
      <4>1. entry'.handle = entry.handle /\ entry' # NoPort
        BY <1>4, <2>1, <2>2, <3>1, HandleFacts
      <4>2. ASSUME NEW t \in Sessions, events[t] > 0 PROVE entry.handle \in dead
        BY <1>1, <1>8, <4>2 DEF ToldInv
      <4>3. ASSUME entry.handle \in dead, NEW t \in Sessions, HoldsPort(t)'
            PROVE  events[t] > 0
        BY <1>1, <1>5, <4>3 DEF ToldInv
      <4> QED
        BY <1>6, <4>1, <4>2, <4>3 DEF ToldInv
    <3> QED
      BY <3>2, <3>3, <3>4, <3>5
  <2>10. CASE retired
    <3>1. entry' = NoPort /\ port.funnel = {} /\ port.refs = 0
      BY <1>2, <2>10 DEF IsIdle
    <3>2. \A t \in Sessions : routes'[t] = {}
      BY <2>8, <3>1
    <3>3. DirectSessions' = {}
      <4>1. Cardinality(DirectSessions') = 0 /\ IsFiniteSet(DirectSessions')
        BY <2>5, <3>1, FS_RemoveElement
      <4> QED
        BY <4>1, FS_EmptySet
    <3>4. \A t \in Sessions : ~HoldsPort(t)'
      BY <3>2, <3>3 DEF HoldsPort, DirectSessions
    <3>5. ToldInv'
      BY <1>6, <3>1, <3>4 DEF ToldInv
    <3>6. ClientsMatch'
      <4>1. clients'[entry.handle] = {}
        BY <2>6, <3>1
      <4> QED
        BY <2>7, <3>1, <4>1 DEF ClientsMatch
    <3> QED
      BY <3>1, <3>5, <3>6
  <2> QED
    BY <2>9, <2>10
<1> QED
  BY <1>7, <1>8

\* What Release leaves registered is still held.
LEMMA ReleaseKeepsOwners ==
  ASSUME IInv, NEW s \in Sessions, NEW next \in {"idle", "ended"}, Release(s, next),
         UNCHANGED upsets
  PROVE  OwnedInv'
<1> DEFINE port    == EntryWithout(s)
           retired == entry # NoPort /\ IsIdle(port)
<1>1. /\ entry' = IF entry = NoPort \/ retired THEN NoPort ELSE port
      /\ routes' = [routes EXCEPT ![s] = {}]
      /\ direct' = [direct EXCEPT ![s] = FALSE]
  BY DEF Release
<1>2. /\ routes \in [Sessions -> SUBSET Route] /\ direct \in [Sessions -> BOOLEAN]
      /\ entry \in Port
  BY DEF IInv, TypeOK, Port
<1>3. DirectSessions' = DirectSessions \ {s} /\ (s \in DirectSessions <=> direct[s])
  BY <1>1, <1>2 DEF DirectSessions
<1>4. /\ IsFiniteSet(DirectSessions) /\ IsFiniteSet(DirectSessions')
      /\ Cardinality(DirectSessions') = IF direct[s] THEN Cardinality(DirectSessions) - 1
                                        ELSE Cardinality(DirectSessions)
  BY <1>3, FS_RemoveElement DEF IInv, OwnedInv
<1>5. Cardinality(DirectSessions) \in Nat /\ Cardinality(DirectSessions') \in Nat
  BY <1>4, FS_CardinalityType
<1>6. CASE entry = NoPort \/ retired
  <2>1. entry' = NoPort /\ entry'.refs = 0 /\ entry'.funnel = {}
    BY <1>1, <1>6 DEF NoPort
  <2> QED
    BY <1>4, <1>5, <2>1 DEF OwnedInv
<1>7. CASE entry # NoPort /\ ~retired
  <2>1. entry' = port /\ ~IsIdle(port)
    BY <1>1, <1>7
  <2>2. /\ port.handle = entry.handle
        /\ port.funnel = {c \in entry.funnel : \A r \in routes[s] : r.id # c.id}
        /\ port.refs = IF direct[s] /\ entry.refs > 0 THEN entry.refs - 1 ELSE entry.refs
    <3>1. (IF direct[s] /\ entry.refs > 0 THEN entry.refs - 1 ELSE entry.refs) \in Nat
      BY <1>2 DEF Port
    <3> QED
      BY <1>2, <3>1, EntryWithoutType DEF IInv, EntryWithout, Port
  <2> HIDE DEF port
  <2>3. port.refs <= Cardinality(DirectSessions')
    <3>1. entry.refs \in Nat /\ entry.refs <= Cardinality(DirectSessions)
      BY <1>2 DEF IInv, OwnedInv, Port
    <3>2. direct[s] => Cardinality(DirectSessions) # 0
      BY <1>3, <1>4, FS_EmptySet
    <3> QED
      BY <1>4, <1>5, <2>2, <3>1, <3>2
  <2>4. ASSUME "crossed" \notin upsets, NEW c \in port.funnel
        PROVE  [handle |-> port.handle, id |-> c.id] \in routes'[c.owner]
    <3> DEFINE r == [handle |-> entry.handle, id |-> c.id]
    <3>1. c \in entry.funnel /\ \A q \in routes[s] : q.id # c.id
      BY <2>2
    <3>2. r \in routes[c.owner] /\ r.id = c.id
      BY <2>4, <3>1 DEF IInv, OwnedInv
    <3>3. c.owner # s /\ c.owner \in Sessions
      BY <1>2, <3>1, <3>2 DEF Port, Channel
    <3> QED
      BY <1>1, <1>2, <2>2, <3>2, <3>3
  <2> QED
    BY <1>4, <2>1, <2>3, <2>4 DEF OwnedInv
<1> QED
  BY <1>6, <1>7

LEMMA ReleaseStep ==
  ASSUME IInv, NEW s \in Sessions, NEW next \in {"idle", "ended"}, Release(s, next),
         UNCHANGED <<made, dead, lastId, subs, events, upsets>>, Idle(s)
  PROVE  IInv'
<1> DEFINE port    == EntryWithout(s)
           retired == entry # NoPort /\ IsIdle(port)
<1>1. /\ entry' = IF entry = NoPort \/ retired THEN NoPort ELSE port
      /\ routes' = [routes EXCEPT ![s] = {}]
      /\ direct' = [direct EXCEPT ![s] = FALSE]
      /\ errSub' = [errSub EXCEPT ![s] = @ /\ ~retired]
      /\ held' = [held EXCEPT ![s] = IF retired THEN entry.handle ELSE NoHandle]
      /\ pc' = [pc EXCEPT ![s] = IF retired /\ next = "idle" THEN "drop" ELSE next]
  BY DEF Release, Hold, SetPc
<1>2. /\ port \in Port /\ port.handle = entry.handle /\ entry \in Port
      /\ NoPort \in Port /\ NoPort.handle = NoHandle
      /\ held \in [Actors -> Handles \cup {NoHandle}]
      /\ routes \in [Sessions -> SUBSET Route] /\ direct \in [Sessions -> BOOLEAN]
      /\ pc \in [Sessions -> {"idle", "channel", "subscribe", "drop", "ended"}]
  BY EntryWithoutType, NewPortType DEF IInv, TypeOK, Port, NoPort
<1>3. /\ clients' \in [Handles -> SUBSET ClientIds]
      /\ \A h \in Handles : clients'[h] \subseteq clients[h]
  <2>1. clients \in [Handles -> SUBSET ClientIds]
    BY DEF IInv, TypeOK
  <2>2. CASE entry = NoPort
    BY <2>1, <2>2 DEF Release
  <2>3. CASE entry # NoPort
    BY <2>1, <2>3 DEF Release
  <2> QED
    BY <2>2, <2>3
<1>4. entry' \in Port
  BY <1>1, <1>2
<1>5. TypeOK'
  <2>1. held' \in [Actors -> Handles \cup {NoHandle}]
    BY <1>1, <1>2, HandleFacts DEF Port
  <2>2. errSub' \in [Sessions -> BOOLEAN] /\ direct' \in [Sessions -> BOOLEAN]
    BY <1>1 DEF IInv, TypeOK
  <2>3. routes' \in [Sessions -> SUBSET Route]
    BY <1>1, <1>2
  <2>4. pc' \in [Sessions -> {"idle", "channel", "subscribe", "drop", "ended"}]
    BY <1>1, <1>2
  <2> QED
    BY <1>3, <1>4, <2>1, <2>2, <2>3, <2>4 DEF IInv, TypeOK, Port
<1>6. HeldInv'
  <2>1. entry' = NoPort \/ entry'.handle \in Handles
    BY <1>1, <1>2 DEF IInv, HeldInv
  <2>2. ASSUME NEW t \in Sessions, pc'[t] = "channel"
        PROVE  held'[t] \in Handles
    <3>1. t # s /\ pc[t] = "channel"
      BY <1>1, <1>2, <2>2
    <3> QED
      BY <1>1, <1>2, <3>1, HandleFacts DEF IInv, HeldInv
  <2> QED
    BY <2>1, <2>2 DEF HeldInv
<1>7. MadeInv'
  <2>1. entry'.handle \in {entry.handle, NoHandle}
    BY <1>1, <1>2
  <2>2. \A a \in Actors : held'[a] \in {held[a], entry.handle, NoHandle}
    BY <1>1, <1>2
  <2>3. Alive' \subseteq Alive
    BY <2>1, <2>2 DEF Alive
  <2> QED
    BY <2>3, AliveShrinks DEF IInv
<1>8. EndedInv'
  <2>1. ASSUME NEW t \in Sessions, pc'[t] = "ended" PROVE ~HoldsPort(t)'
    <3>1. CASE t = s
      BY <1>1, <1>2, <3>1 DEF HoldsPort
    <3>2. CASE t # s
      BY <1>1, <1>2, <2>1, <3>2 DEF HoldsPort, IInv, EndedInv
    <3> QED
      BY <3>1, <3>2
  <2> QED
    BY <2>1 DEF EndedInv
<1>9. CalmInv' /\ OwnedInv'
  BY ReleaseKeepsBooks, ReleaseKeepsOwners
<1>10. OneChannelPerSession'
  <2>1. \A t \in Sessions : routes'[t] \subseteq routes[t]
    BY <1>1, <1>2
  <2> QED
    BY <2>1, RoutesRemoved DEF IInv
<1>11. IdsInv'
  BY <1>3, ClientsRemoved DEF IInv
<1> QED
  BY <1>5, <1>6, <1>7, <1>8, <1>9, <1>10, <1>11 DEF IInv

LEMMA FinishDropStep ==
  ASSUME IInv, NEW a \in Actors, FinishDrop(a)
  PROVE  IInv'
<1> DEFINE h == held[a]
<1>1. /\ h \in Handles
      /\ a \in Sessions => pc[a] \in {"drop", "ended"}
      /\ held' = [held EXCEPT ![a] = NoHandle]
      /\ pc' = [s \in Sessions |-> IF s = a /\ pc[s] = "drop" THEN "idle" ELSE pc[s]]
      /\ UNCHANGED <<entry, made, dead, lastId, direct, routes, errSub, events, upsets>>
  BY DEF FinishDrop, Hold, IInv, TypeOK
<1>2. \/ UNCHANGED <<clients, subs>>
      \/ /\ entry.handle # h
         /\ clients' = [clients EXCEPT ![h] = {}]
         /\ subs' = [subs EXCEPT ![h] = {}]
  BY DEF FinishDrop
<1>3. held \in [Actors -> Handles \cup {NoHandle}]
  BY DEF IInv, TypeOK
<1>4. TypeOK'
  <2>1. clients' \in [Handles -> SUBSET ClientIds] /\ subs' \in [Handles -> SUBSET Sessions]
    BY <1>2 DEF IInv, TypeOK
  <2>2. /\ held' \in [Actors -> Handles \cup {NoHandle}]
        /\ pc' \in [Sessions -> {"idle", "channel", "subscribe", "drop", "ended"}]
    BY <1>1 DEF IInv, TypeOK
  <2> QED
    BY <1>1, <2>1, <2>2 DEF IInv, TypeOK
<1>5. ASSUME NEW t \in Sessions, pc'[t] = "channel"
      PROVE  t # a /\ pc[t] = "channel" /\ held'[t] = held[t]
  <2>1. t # a /\ pc[t] = "channel"
    BY <1>1, <1>5
  <2> QED
    BY <1>1, <1>3, <2>1, HandleFacts
<1>6. HeldInv'
  BY <1>1, <1>5 DEF IInv, HeldInv
<1>7. MadeInv'
  <2>1. Alive' \subseteq Alive
    BY <1>1, <1>3 DEF Alive
  <2> QED
    BY <1>1, <2>1, AliveShrinks DEF IInv
<1>8. EndedInv'
  BY <1>1 DEF IInv, EndedInv, HoldsPort
<1>9. \A g \in Handles : clients'[g] \subseteq clients[g]
  BY <1>2 DEF IInv, TypeOK
<1>10. CalmInv'
  <2> SUFFICES ASSUME upsets = {}
               PROVE  /\ ToldInv' /\ ClientsMatch'
                      /\ entry' # NoPort => RoutesMatch' /\ RefsMatch'
    BY <1>1 DEF CalmInv
  <2>1. ToldInv /\ ClientsMatch /\ (entry # NoPort => RoutesMatch /\ RefsMatch)
    BY DEF IInv, CalmInv
  <2>2. ClientsMatch'
    <3>1. \A g \in Handles \ (dead \cup {entry.handle}) : clients'[g] = {}
      BY <1>9, <2>1 DEF ClientsMatch
    <3>2. entry # NoPort => clients'[entry.handle] = clients[entry.handle]
      BY <1>2 DEF IInv, TypeOK, HeldInv
    <3> QED
      BY <1>1, <2>1, <3>1, <3>2 DEF ClientsMatch
  <2>3. ToldInv'
    BY <1>1, <1>5, <2>1 DEF ToldInv, HoldsPort
  <2> QED
    BY <1>1, <2>1, <2>2, <2>3 DEF RoutesMatch, RefsMatch, DirectSessions
<1>11. OwnedInv'
  BY <1>1, OwnersUntouched DEF IInv
<1> QED
  BY <1>1, <1>4, <1>6, <1>7, <1>8, <1>9, <1>10, <1>11, RoutesRemoved, ClientsRemoved DEF IInv

-----------------------------------------------------------------------------
(* What happens to the port *)

\* Whoever goes on with the handle that died has subscribed to it, or it is noted: the
\* session gets an event.  A registered handle that did not die here is the older one.
LEMMA DieStep ==
  ASSUME IInv, NEW h \in Handles, Die(h)
  PROVE  IInv'
<1>1. /\ h \in Alive \ dead /\ dead' = dead \cup {h}
      /\ events' = [s \in Sessions |->
                      IF s \in subs[h] /\ pc[s] # "ended" THEN events[s] + 1 ELSE events[s]]
      /\ upsets' = IF \E s \in Sessions : Uses(s, h) /\ s \notin subs[h]
                   THEN upsets \cup {"untold"} ELSE upsets
      /\ UNCHANGED <<entry, made, clients, lastId, subs, direct, routes, errSub, pc, held>>
  BY DEF Die
<1>2. events \in [Sessions -> Nat]
  BY DEF IInv, TypeOK
<1>3. /\ upsets' \subseteq {"forced", "untold", "late", "crossed"}
      /\ upsets' = {} => upsets = {}
      /\ "crossed" \notin upsets' => "crossed" \notin upsets
  BY <1>1 DEF IInv, TypeOK
<1>4. TypeOK'
  BY <1>1, <1>2, <1>3 DEF IInv, TypeOK
<1>5. HeldInv' /\ EndedInv' /\ OwnedInv'
  BY <1>1, <1>3, OwnersUntouched DEF IInv, HeldInv, EndedInv, HoldsPort
<1>6. MadeInv'
  <2>1. Alive' = Alive
    BY <1>1 DEF Alive
  <2> QED
    BY <1>1, <2>1, AliveShrinks DEF IInv
<1>7. CalmInv'
  <2> SUFFICES ASSUME upsets' = {}
               PROVE  /\ ToldInv' /\ ClientsMatch'
                      /\ entry' # NoPort => RoutesMatch' /\ RefsMatch'
    BY DEF CalmInv
  <2>1. ToldInv /\ ClientsMatch /\ (entry # NoPort => RoutesMatch /\ RefsMatch)
    BY <1>3 DEF IInv, CalmInv
  <2>2. ASSUME NEW s \in Sessions, Uses(s, h), pc[s] # "ended"
        PROVE  events'[s] > 0
    BY <1>1, <1>2, <2>2
  <2>3. ASSUME NEW s \in Sessions, events[s] > 0 PROVE events'[s] > 0
    BY <1>1, <1>2, <2>3
  <2>4. ToldInv'
    <3>1. ASSUME NEW s \in Sessions, pc[s] = "channel", held[s] \in dead'
          PROVE  events'[s] > 0
      <4>1. CASE held[s] \in dead
        BY <2>1, <2>3, <3>1, <4>1 DEF ToldInv
      <4>2. CASE held[s] = h
        BY <2>2, <3>1, <4>2 DEF Uses
      <4> QED
        BY <1>1, <3>1, <4>1, <4>2
    <3>2. ASSUME entry # NoPort PROVE entry.handle \in dead'
      <4>1. entry.handle \in Alive
        BY <3>2, HandleFacts DEF IInv, HeldInv, Alive
      <4> QED
        BY <1>1, <4>1 DEF IInv, MadeInv
    <3>3. ASSUME NEW s \in Sessions, HoldsPort(s) PROVE events'[s] > 0
      <4>1. pc[s] # "ended"
        BY <3>3 DEF IInv, EndedInv
      <4>2. CASE entry = NoPort \/ entry.handle \in dead
        BY <2>1, <2>3, <3>3, <4>2 DEF ToldInv
      <4>3. CASE entry # NoPort /\ entry.handle \notin dead
        <5>1. entry.handle = h
          BY <1>1, <3>2, <4>3
        <5>2. Uses(s, h)
          BY <2>1, <3>3, <4>3, <5>1 DEF HoldsPort, Uses, RoutesMatch
        <5> QED
          BY <2>2, <4>1, <5>2
      <4> QED
        BY <4>2, <4>3
    <3> QED
      BY <1>1, <3>1, <3>2, <3>3 DEF ToldInv, HoldsPort
  <2>5. ClientsMatch'
    BY <1>1, <2>1 DEF ClientsMatch
  <2> QED
    BY <1>1, <2>1, <2>4, <2>5 DEF RoutesMatch, RefsMatch, DirectSessions
<1> QED
  BY <1>1, <1>4, <1>5, <1>6, <1>7, RoutesRemoved, ClientsRemoved DEF IInv

\* The entry a session removes when it reads of a death is the dead one, so whoever else
\* held it has an event to read too.
LEMMA PortErrorStep ==
  ASSUME IInv, NEW s \in Sessions, PortError(s)
  PROVE  IInv'
<1>1. /\ events[s] > 0 /\ pc[s] = "idle"
      /\ events' = [events EXCEPT ![s] = @ - 1]
      /\ entry' = NoPort
      /\ routes' = [routes EXCEPT ![s] = {}]
      /\ direct' = [direct EXCEPT ![s] = FALSE]
      /\ errSub' = [errSub EXCEPT ![s] = FALSE]
      /\ held' = [held EXCEPT ![s] = entry.handle]
      /\ pc' = [pc EXCEPT ![s] = IF entry = NoPort THEN "idle" ELSE "drop"]
      /\ UNCHANGED <<made, dead, clients, lastId, subs, upsets>>
  BY DEF PortError, Hold, SetPc, Idle
<1>2. /\ events \in [Sessions -> Nat] /\ direct \in [Sessions -> BOOLEAN]
      /\ routes \in [Sessions -> SUBSET Route]
      /\ held \in [Actors -> Handles \cup {NoHandle}]
      /\ pc \in [Sessions -> {"idle", "channel", "subscribe", "drop", "ended"}]
      /\ NoPort.handle = NoHandle /\ NoPort.funnel = {} /\ NoPort.refs = 0
      /\ entry.handle \in Handles \cup {NoHandle}
  BY DEF IInv, TypeOK, NoPort
<1>3. TypeOK'
  <2>1. events' \in [Sessions -> Nat]
    BY <1>1, <1>2
  <2>2. entry' \in Port
    BY <1>1, NewPortType
  <2>3. held' \in [Actors -> Handles \cup {NoHandle}]
    BY <1>1, <1>2, HandleFacts
  <2>4. /\ routes' \in [Sessions -> SUBSET Route] /\ direct' \in [Sessions -> BOOLEAN]
        /\ errSub' \in [Sessions -> BOOLEAN]
        /\ pc' \in [Sessions -> {"idle", "channel", "subscribe", "drop", "ended"}]
    BY <1>1 DEF IInv, TypeOK
  <2> QED
    BY <1>1, <2>1, <2>2, <2>3, <2>4 DEF IInv, TypeOK, Port
<1>4. ASSUME NEW t \in Sessions, pc'[t] = "channel"
      PROVE  t # s /\ pc[t] = "channel" /\ held'[t] = held[t]
  <2>1. t # s /\ pc[t] = "channel"
    BY <1>1, <1>2, <1>4
  <2> QED
    BY <1>1, <1>2, <2>1, HandleFacts
<1>5. HeldInv'
  BY <1>1, <1>4 DEF IInv, HeldInv
<1>6. MadeInv'
  <2>1. \A a \in Actors : held'[a] \in {held[a], entry.handle}
    BY <1>1, <1>2
  <2>2. Alive' \subseteq Alive
    BY <1>1, <1>2, <2>1 DEF Alive
  <2> QED
    BY <1>1, <2>2, AliveShrinks DEF IInv
<1>7. ASSUME NEW t \in Sessions, HoldsPort(t)'
      PROVE  t # s /\ HoldsPort(t) /\ events'[t] = events[t]
  BY <1>1, <1>2, <1>7 DEF HoldsPort
<1>8. EndedInv'
  <2>1. ASSUME NEW t \in Sessions, pc'[t] = "ended" PROVE pc[t] = "ended"
    BY <1>1, <1>2, <2>1
  <2> QED
    BY <1>7, <2>1 DEF IInv, EndedInv
<1>9. OwnedInv'
  <2>1. DirectSessions' = DirectSessions \ {s}
    BY <1>1, <1>2 DEF DirectSessions
  <2>2. IsFiniteSet(DirectSessions') /\ Cardinality(DirectSessions') \in Nat
    BY <2>1, FS_RemoveElement, FS_CardinalityType DEF IInv, OwnedInv
  <2> QED
    BY <1>1, <1>2, <2>2 DEF OwnedInv
<1>10. CalmInv'
  <2> SUFFICES ASSUME upsets = {}
               PROVE  ToldInv' /\ ClientsMatch'
    BY <1>1 DEF CalmInv
  <2>1. ToldInv /\ ClientsMatch
    BY DEF IInv, CalmInv
  <2>2. entry = NoPort \/ entry.handle \in dead
    BY <1>1, <2>1 DEF ToldInv
  <2>3. ToldInv'
    <3>1. ASSUME NEW t \in Sessions, pc'[t] = "channel", held'[t] \in dead
          PROVE  events'[t] > 0
      <4>1. t # s /\ events[t] > 0
        BY <1>4, <2>1, <3>1 DEF ToldInv
      <4> QED
        BY <1>1, <1>2, <4>1
    <3>2. ASSUME NEW t \in Sessions, HoldsPort(t)' PROVE events'[t] > 0
      BY <1>7, <2>1, <2>2, <3>2 DEF ToldInv
    <3> QED
      BY <1>1, <3>1, <3>2 DEF ToldInv
  <2>4. ClientsMatch'
    BY <1>1, <1>2, <2>1, <2>2 DEF ClientsMatch
  <2> QED
    BY <2>3, <2>4
<1>11. \A t \in Sessions : routes'[t] \subseteq routes[t]
  BY <1>1, <1>2
<1> QED
  BY <1>1, <1>3, <1>5, <1>6, <1>8, <1>9, <1>10, <1>11, RoutesRemoved, ClientsRemoved DEF IInv

LEMMA ForceCloseStep ==
  ASSUME IInv, ForceClose
  PROVE  IInv'
<1>1. /\ entry # NoPort /\ entry' = NoPort
      /\ clients' = [clients EXCEPT ![entry.handle] = @ \ {c.id : c \in entry.funnel}]
      /\ held' = [held EXCEPT ![Admin] = entry.handle]
      /\ upsets' = upsets \cup {"forced"}
      /\ UNCHANGED <<made, dead, lastId, subs, direct, routes, errSub, events, pc>>
  BY DEF ForceClose, Hold
<1>2. /\ clients' \in [Handles -> SUBSET ClientIds]
      /\ \A h \in Handles : clients'[h] \subseteq clients[h]
  BY <1>1 DEF IInv, TypeOK
<1>3. TypeOK'
  <2>1. entry' \in Port
    BY <1>1, NewPortType
  <2>2. held' \in [Actors -> Handles \cup {NoHandle}]
    BY <1>1, HandleFacts DEF IInv, TypeOK
  <2> QED
    BY <1>1, <1>2, <2>1, <2>2 DEF IInv, TypeOK, Port
<1>4. HeldInv'
  BY <1>1, HandleFacts DEF IInv, TypeOK, HeldInv
<1>5. MadeInv'
  <2>1. \A a \in Actors : held'[a] \in {held[a], entry.handle}
    BY <1>1 DEF IInv, TypeOK
  <2>2. Alive' \subseteq Alive
    BY <1>1, <2>1 DEF Alive, NoPort
  <2> QED
    BY <1>1, <2>2, AliveShrinks DEF IInv
<1>6. EndedInv' /\ CalmInv'
  BY <1>1 DEF IInv, EndedInv, HoldsPort, CalmInv
<1>7. OwnedInv'
  <2>1. DirectSessions' = DirectSessions /\ IsFiniteSet(DirectSessions)
    BY <1>1 DEF DirectSessions, IInv, OwnedInv
  <2>2. Cardinality(DirectSessions) \in Nat
    BY <2>1, FS_CardinalityType
  <2> QED
    BY <1>1, <2>1, <2>2 DEF OwnedInv, NoPort
<1> QED
  BY <1>1, <1>2, <1>3, <1>4, <1>5, <1>6, <1>7, RoutesRemoved, ClientsRemoved DEF IInv

\* A stale write takes no route of the registered handle away.
LEMMA StaleWriteStep ==
  ASSUME IInv, NEW s \in Sessions, StaleWrite(s)
  PROVE  IInv'
<1>1. PICK r \in routes[s] : r.handle \notin Alive /\ routes' = [routes EXCEPT ![s] = @ \ {r}]
  BY DEF StaleWrite
<1>2. UNCHANGED <<entry, made, dead, clients, lastId, subs, direct, errSub, events, pc, held,
                  upsets>>
  BY DEF StaleWrite
<1>3. routes \in [Sessions -> SUBSET Route]
  BY DEF IInv, TypeOK
<1>4. /\ routes' \in [Sessions -> SUBSET Route]
      /\ \A t \in Sessions : routes'[t] \subseteq routes[t]
  BY <1>1, <1>3
<1>5. TypeOK'
  BY <1>2, <1>4 DEF IInv, TypeOK
<1>6. EndedInv'
  BY <1>2, <1>4 DEF IInv, EndedInv, HoldsPort
<1>7. OwnedInv'
  <2>1. ASSUME "crossed" \notin upsets, NEW c \in entry.funnel
        PROVE  [handle |-> entry.handle, id |-> c.id] \in routes'[c.owner]
    <3>1. entry # NoPort
      BY DEF NoPort
    <3>2. entry.handle \in Alive
      BY <3>1, HandleFacts DEF IInv, HeldInv, Alive
    <3>3. [handle |-> entry.handle, id |-> c.id] # r
      BY <1>1, <3>2
    <3>4. [handle |-> entry.handle, id |-> c.id] \in routes[c.owner] /\ c.owner \in Sessions
      BY <2>1 DEF IInv, OwnedInv, TypeOK, Channel
    <3> QED
      BY <1>1, <1>3, <3>3, <3>4
  <2> QED
    BY <1>2, <2>1 DEF IInv, OwnedInv, DirectSessions, IsIdle
<1>8. CalmInv'
  <2> SUFFICES ASSUME upsets = {}
               PROVE  /\ ToldInv' /\ ClientsMatch'
                      /\ entry' # NoPort => RoutesMatch' /\ RefsMatch'
    BY <1>2 DEF CalmInv
  <2>1. ToldInv /\ ClientsMatch /\ (entry # NoPort => RoutesMatch /\ RefsMatch)
    BY DEF IInv, CalmInv
  <2>2. entry = NoPort
    <3> SUFFICES ASSUME entry # NoPort PROVE FALSE
      OBVIOUS
    <3>1. r.handle = entry.handle
      BY <2>1 DEF RoutesMatch
    <3> QED
      BY <1>1, <3>1, HandleFacts DEF IInv, HeldInv, Alive
  <2>3. ToldInv'
    BY <1>2, <1>4, <2>1 DEF ToldInv, HoldsPort
  <2> QED
    BY <1>2, <2>1, <2>2, <2>3 DEF ClientsMatch
<1>9. HeldInv' /\ MadeInv'
  BY <1>2 DEF IInv, HeldInv, MadeInv, Alive
<1> QED
  BY <1>2, <1>4, <1>5, <1>6, <1>7, <1>8, <1>9, RoutesRemoved, ClientsRemoved DEF IInv

-----------------------------------------------------------------------------

LEMMA RegInitIInv ==
  ASSUME RegInit
  PROVE  IInv
<1> USE DEF RegInit
<1>1. DirectSessions = {}
  BY DEF DirectSessions
<1>2. IsFiniteSet(DirectSessions) /\ Cardinality(DirectSessions) = 0
  BY <1>1, FS_EmptySet
<1>3. NoPort.handle = NoHandle /\ NoPort.funnel = {} /\ NoPort.refs = 0 /\ NoPort.bridge = FALSE
  BY DEF NoPort
<1>4. TypeOK
  <2>1. entry \in Port
    BY NewPortType
  <2>2. /\ made \in 0 .. MaxHandles /\ dead \subseteq Handles
        /\ clients \in [Handles -> SUBSET ClientIds] /\ lastId \in [Handles -> 0 .. MaxIds]
        /\ subs \in [Handles -> SUBSET Sessions]
    BY RegistryAssumption
  <2>3. /\ direct \in [Sessions -> BOOLEAN] /\ routes \in [Sessions -> SUBSET Route]
        /\ errSub \in [Sessions -> BOOLEAN] /\ events \in [Sessions -> Nat]
    OBVIOUS
  <2>4. /\ pc \in [Sessions -> {"idle", "channel", "subscribe", "drop", "ended"}]
        /\ held \in [Actors -> Handles \cup {NoHandle}]
        /\ upsets \subseteq {"forced", "untold", "late", "crossed"}
    OBVIOUS
  <2> QED
    BY <2>1, <2>2, <2>3, <2>4 DEF TypeOK, Port
<1>5. HeldInv /\ IdsInv /\ EndedInv /\ OneChannelPerSession
  BY DEF HeldInv, IdsInv, EndedInv, OneChannelPerSession
<1>6. MadeInv
  <2>1. Alive = {}
    BY <1>3 DEF Alive
  <2> QED
    BY <2>1 DEF MadeInv
<1>7. OwnedInv
  BY <1>2, <1>3 DEF OwnedInv
<1>8. CalmInv
  BY <1>3 DEF CalmInv, ToldInv, ClientsMatch, HoldsPort
<1> QED
  BY <1>4, <1>5, <1>6, <1>7, <1>8 DEF IInv

LEMMA RegNextIInv ==
  ASSUME IInv, [RegNext]_regVars
  PROVE  IInv'
<1>1. CASE UNCHANGED regVars
  <2>1. UNCHANGED <<entry, made, dead, clients, lastId, subs, direct, routes, errSub, events,
                    pc, held, upsets>>
    BY <1>1 DEF regVars
  <2>2. TypeOK' /\ HeldInv' /\ IdsInv' /\ EndedInv' /\ OneChannelPerSession' /\ MadeInv'
    BY <2>1 DEF IInv, TypeOK, HeldInv, IdsInv, EndedInv, OneChannelPerSession, HoldsPort,
                MadeInv, Alive
  <2>3. OwnedInv' /\ CalmInv'
    BY <2>1, OwnersUntouched, BooksUntouched DEF IInv
  <2> QED
    BY <2>2, <2>3 DEF IInv
<1>2. ASSUME NEW s \in Sessions, Close(s) PROVE IInv'
  BY <1>2, ReleaseStep DEF Close
<1>3. ASSUME NEW s \in Sessions, SessionOver(s) PROVE IInv'
  BY <1>3, ReleaseStep DEF SessionOver
<1> QED
  BY <1>1, <1>2, <1>3, OpenDirectStep, OpenFunnelStep, AllocChannelStep, SubscribeStep,
     FinishDropStep, DieStep, PortErrorStep, ForceCloseStep, StaleWriteStep DEF RegNext

\* Every variable keeps its Rust type: in particular the reference count of a registered
\* port (OpenPort.direct_refs, serial.rs) never goes below zero.
THEOREM RegistryTypes == RegSpec => []TypeOK
<1>1. IInv => TypeOK
  BY DEF IInv
<1> QED
  BY <1>1, RegInitIInv, RegNextIInv, PTL DEF RegSpec

\* A session has one channel on a handle at most, however often it opens; the last session
\* out takes the entry, whatever died or was force-closed before; and the registry and the
\* sessions agree about who holds what through any number of deaths of the device, what is
\* left of a dead port being held only until its death has been read of, as long as every
\* holder is told in time.
THEOREM BookkeepingHolds == RegSpec => []Bookkeeping
<1>1. IInv => Bookkeeping
  <2> SUFFICES ASSUME IInv PROVE Bookkeeping
    OBVIOUS
  <2>1. OneChannelPerSession
    BY DEF IInv
  <2>2. LastOutTakesEntry
    <3> SUFFICES ASSUME "crossed" \notin upsets, \A s \in Sessions : ~HoldsPort(s),
                        entry # NoPort
                 PROVE  FALSE
      BY DEF LastOutTakesEntry
    <3>1. DirectSessions = {}
      BY DEF HoldsPort, DirectSessions
    <3>2. Cardinality(DirectSessions) = 0
      BY <3>1, FS_EmptySet
    <3>3. entry.refs \in Nat /\ entry.refs <= 0
      BY <3>2 DEF IInv, OwnedInv, TypeOK
    <3>4. entry.funnel = {}
      <4>1. ASSUME NEW c \in entry.funnel PROVE FALSE
        <5>1. c.owner \in Sessions
          BY DEF IInv, TypeOK, Channel
        <5>2. routes[c.owner] # {}
          BY DEF IInv, OwnedInv
        <5> QED
          BY <5>1, <5>2 DEF HoldsPort
      <4> QED
        BY <4>1
    <3> QED
      BY <3>3, <3>4 DEF IInv, OwnedInv, IsIdle
  <2>3. ASSUME upsets = {}, entry # NoPort PROVE BooksAgree
    <3>1. RoutesMatch /\ RefsMatch /\ ClientsMatch
      BY <2>3 DEF IInv, CalmInv
    <3> QED
      BY <2>3, <3>1 DEF BooksAgree, RoutesMatch, RefsMatch, ClientsMatch, DirectSessions
  <2>4. ASSUME upsets = {}, entry = NoPort
        PROVE  \A s \in Sessions : HoldsPort(s) => events[s] > 0
    BY <2>4 DEF IInv, CalmInv, ToldInv
  <2> QED
    BY <2>1, <2>2, <2>3, <2>4 DEF Bookkeeping
<1> QED
  BY <1>1, RegInitIInv, RegNextIInv, PTL DEF RegSpec

=============================================================================
