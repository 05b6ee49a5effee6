----------------------------- MODULE SerialRegistry -----------------------------
(***************************************************************************)
(* The registry of open serial ports that all proxy sessions share         *)
(* (proxy_server/serial.rs), for one device path: sessions open, close and *)
(* re-open the port with either transport, an operator force-closes it,    *)
(* the device dies and is plugged in again.                                *)
(*                                                                         *)
(* A session is one thread, so its handlers never overlap; what two        *)
(* sessions do overlaps everywhere except under the registry lock.  Each   *)
(* action is one stretch of a handler up to the point where it lets go of  *)
(* that lock.  Opens that fail leave no trace and are not modelled.        *)
(*                                                                         *)
(* A PortHandle is a number: the n-th one opened is n.  A handle is alive  *)
(* as long as someone holds a strong reference to it.                      *)
(***************************************************************************)
EXTENDS Integers, FiniteSets

CONSTANTS
  Sessions,    \* proxy sessions
  Admin,       \* the admin thread that runs force_close_serial
  MaxHandles,  \* bound: times the device is opened
  MaxIds,      \* bound: client ids a handle gives out
  MaxDeaths    \* bound: handles whose device dies

ASSUME RegistryAssumption ==
  /\ Admin \notin Sessions
  /\ MaxHandles \in Nat
  /\ MaxIds \in Nat
  /\ MaxDeaths \in Nat

Handles   == 1 .. MaxHandles
ClientIds == 1 .. MaxIds
Actors    == Sessions \cup {Admin}

VARIABLES
  entry,      \* the registry's OpenPort for the path, or NoPort
  made,       \* PortHandles opened so far
  dead,       \* handles whose reader thread hit a fatal error
  clients,    \* handle -> client ids attached to it (funnel writers)
  lastId,     \* handle -> last client id given out
  subs,       \* handle -> error_subs: sessions that will be told of its death
  direct,     \* session -> is the path in its serial_direct_paths
  routes,     \* session -> its serial_funnel_write entries for the path
  errSub,     \* session -> is the path in its serial_error_subs
  events,     \* session -> SerialPortError events queued for it
  pc,         \* session -> "idle", "channel", "subscribe", "drop", "ended"
  held,       \* actor -> the strong reference on its stack, or NoHandle
  upsets      \* what went wrong so far: "forced", "untold", "late", "crossed" (history)

regVars == <<entry, made, dead, clients, lastId, subs, direct, routes, errSub,
             events, pc, held, upsets>>

NoHandle == 0
NoPort   == [handle |-> NoHandle, bridge |-> FALSE, refs |-> 0, funnel |-> {}]

\* OpenPort.funnel is a map keyed by client id; the owner stands for the
\* stream id it maps to.
Channel == [id: ClientIds, owner: Sessions]
Route   == [handle: Handles, id: ClientIds]
NewPort(h) == [NoPort EXCEPT !.handle = h]

RegInit ==
  /\ entry = NoPort
  /\ made = 0
  /\ dead = {}
  /\ clients = [h \in Handles |-> {}]
  /\ lastId = [h \in Handles |-> 0]
  /\ subs = [h \in Handles |-> {}]
  /\ direct = [s \in Sessions |-> FALSE]
  /\ routes = [s \in Sessions |-> {}]
  /\ errSub = [s \in Sessions |-> FALSE]
  /\ events = [s \in Sessions |-> 0]
  /\ pc = [s \in Sessions |-> "idle"]
  /\ held = [a \in Actors |-> NoHandle]
  /\ upsets = {}

-----------------------------------------------------------------------------

\* Strong references: the registry's, and those on the actors' stacks.
Alive == ({entry.handle} \cup {held[a] : a \in Actors}) \ {NoHandle}

\* Devices are opened exclusively; an unplugged one no longer holds the path.
CanOpen == made < MaxHandles /\ Alive \subseteq dead

Idle(s) == pc[s] = "idle"

SetPc(s, to) == pc' = [pc EXCEPT ![s] = to]
Hold(a, h)   == held' = [held EXCEPT ![a] = h]

\* A session that will go on as if handle h were the port it has.
Uses(s, h) ==
  \/ pc[s] = "channel" /\ held[s] = h
  \/ direct[s] /\ entry.handle = h
  \/ \E r \in routes[s] : r.handle = h

\* An entry is made while some session has yet to read of the death of an older handle.
WithNewEntry == IF \E s \in Sessions : events[s] > 0 THEN upsets \cup {"late"} ELSE upsets

\* A port is shared whose death this session will not be told of.
WithShared(s) ==
  IF entry.handle \in dead /\ events[s] = 0 THEN upsets \cup {"untold"} ELSE upsets

\* HashMap::insert: the key's earlier value is replaced.
PutChannel(funnel, id, s) ==
  {c \in funnel : c.id # id} \cup {[id |-> id, owner |-> s]}

IsIdle(port) == port.refs = 0 /\ port.funnel = {}

-----------------------------------------------------------------------------
(* serial.open *)

\* Phase 1, direct: share the bridge, or open the device and start one.  A
\* session takes one reference however often it opens.
OpenDirect(s) ==
  /\ Idle(s)
  /\ \/ /\ entry # NoPort
        /\ entry' = [entry EXCEPT !.bridge = TRUE,
                                  !.refs = IF direct[s] THEN @ ELSE @ + 1]
        /\ UNCHANGED made
        /\ upsets' = WithShared(s)
     \/ /\ entry = NoPort
        /\ CanOpen
        /\ made' = made + 1
        /\ entry' = [NewPort(made + 1) EXCEPT !.bridge = TRUE, !.refs = 1]
        /\ upsets' = WithNewEntry
  /\ direct' = [direct EXCEPT ![s] = TRUE]
  /\ SetPc(s, "subscribe")
  /\ UNCHANGED <<dead, clients, lastId, subs, routes, errSub, events, held>>

\* Phase 1, funnel: take a reference to the registered handle or to a new one,
\* which is not registered yet.
OpenFunnel(s) ==
  /\ Idle(s)
  /\ \/ /\ entry # NoPort
        /\ Hold(s, entry.handle)
        /\ upsets' = WithShared(s)
        /\ UNCHANGED made
     \/ /\ entry = NoPort
        /\ CanOpen
        /\ made' = made + 1
        /\ Hold(s, made + 1)
        /\ UNCHANGED upsets
  /\ SetPc(s, "channel")
  /\ UNCHANGED <<entry, dead, clients, lastId, subs, direct, routes, errSub, events>>

\* find_reusable_channel: this session's channel on this very handle.
Reusable(s) == {r \in routes[s] : r.handle = held[s]}

\* Phase 2: reuse the session's channel on the handle it captured, or attach a
\* new one and record it in whatever entry the path has by now.
AllocChannel(s) ==
  /\ pc[s] = "channel"
  /\ LET h  == held[s]
         id == lastId[h] + 1
     IN  \/ /\ Reusable(s) # {}
            /\ UNCHANGED <<entry, clients, lastId, routes, upsets>>
         \/ /\ Reusable(s) = {}
            /\ id \in ClientIds
            /\ lastId' = [lastId EXCEPT ![h] = id]
            /\ clients' = [clients EXCEPT ![h] = @ \cup {id}]
            /\ routes' = [routes EXCEPT ![s] = @ \cup {[handle |-> h, id |-> id]}]
            /\ entry' = [(IF entry = NoPort THEN NewPort(h) ELSE entry)
                           EXCEPT !.funnel = PutChannel(@, id, s)]
            /\ upsets' = IF entry = NoPort THEN WithNewEntry
                         ELSE IF entry.handle = h THEN upsets ELSE upsets \cup {"crossed"}
  /\ Hold(s, NoHandle)
  /\ SetPc(s, "subscribe")
  /\ UNCHANGED <<made, dead, subs, direct, errSub, events>>

\* Once per path and session: register with the handle the path has by now.
Subscribe(s) ==
  /\ pc[s] = "subscribe"
  /\ IF errSub[s] \/ entry = NoPort
     THEN UNCHANGED subs
     ELSE subs' = [subs EXCEPT ![entry.handle] = @ \cup {s}]
  /\ errSub' = [errSub EXCEPT ![s] = TRUE]
  /\ SetPc(s, "idle")
  /\ UNCHANGED <<entry, made, dead, clients, lastId, direct, routes, events, held,
                 upsets>>

-----------------------------------------------------------------------------
(* serial.close and the end of a session *)

HoldsPort(s) == direct[s] \/ routes[s] # {}

\* The entry after session s has taken its channels and its reference out.
EntryWithout(s) ==
  LET refs == IF direct[s] /\ entry.refs > 0 THEN entry.refs - 1 ELSE entry.refs
  IN  [entry EXCEPT !.funnel = {c \in @ : \A r \in routes[s] : r.id # c.id},
                    !.refs   = refs,
                    !.bridge = @ /\ (direct[s] => refs # 0)]

\* The part of release_serial_port that runs under the registry lock.  The port
\* it retires, if any, is dropped afterwards.
Release(s, next) ==
  LET port    == EntryWithout(s)
      retired == entry # NoPort /\ IsIdle(port)
  IN  /\ entry' = IF entry = NoPort \/ retired THEN NoPort ELSE port
      /\ clients' = IF entry = NoPort THEN clients
                    ELSE [h \in Handles |->
                            IF h \in Alive
                            THEN clients[h] \ {r.id : r \in {q \in routes[s] : q.handle = h}}
                            ELSE clients[h]]
      /\ routes' = [routes EXCEPT ![s] = {}]
      /\ direct' = [direct EXCEPT ![s] = FALSE]
      /\ errSub' = [errSub EXCEPT ![s] = @ /\ ~retired]
      /\ Hold(s, IF retired THEN entry.handle ELSE NoHandle)
      /\ SetPc(s, IF retired /\ next = "idle" THEN "drop" ELSE next)

Close(s) ==
  /\ Idle(s)
  /\ HoldsPort(s)
  /\ Release(s, "idle")
  /\ UNCHANGED <<made, dead, lastId, subs, events, upsets>>

\* Drop for ProxyServer: release_all_serial_ports.
SessionOver(s) ==
  /\ Idle(s)
  /\ Release(s, "ended")
  /\ UNCHANGED <<made, dead, lastId, subs, events, upsets>>

\* The retired port is dropped.  Unless some session still holds the handle, the
\* bridge stops, the reader is joined, and clients and subscribers go with it.
FinishDrop(a) ==
  LET h == held[a]
  IN  /\ h # NoHandle
      /\ a \in Sessions => pc[a] \in {"drop", "ended"}
      /\ Hold(a, NoHandle)
      /\ pc' = [s \in Sessions |-> IF s = a /\ pc[s] = "drop" THEN "idle" ELSE pc[s]]
      /\ IF entry.handle = h \/ \E o \in Actors \ {a} : held[o] = h
         THEN UNCHANGED <<clients, subs>>
         ELSE /\ clients' = [clients EXCEPT ![h] = {}]
              /\ subs' = [subs EXCEPT ![h] = {}]
      /\ UNCHANGED <<entry, made, dead, lastId, direct, routes, errSub, events, upsets>>

-----------------------------------------------------------------------------
(* What happens to the port *)

\* The reader thread's fatal error: notify_error, through each subscribed
\* session's forwarder thread.
Die(h) ==
  /\ h \in Alive \ dead
  /\ Cardinality(dead) < MaxDeaths
  /\ dead' = dead \cup {h}
  /\ events' = [s \in Sessions |->
                  IF s \in subs[h] /\ pc[s] # "ended" THEN events[s] + 1 ELSE events[s]]
  /\ upsets' = IF \E s \in Sessions : Uses(s, h) /\ s \notin subs[h]
               THEN upsets \cup {"untold"} ELSE upsets
  /\ UNCHANGED <<entry, made, clients, lastId, subs, direct, routes, errSub, pc, held>>

\* Faulty variant: the session goes on taking itself for a holder.
ForgetfulPortError(s) ==
  /\ Idle(s)
  /\ events[s] > 0
  /\ events' = [events EXCEPT ![s] = @ - 1]
  /\ entry' = NoPort
  /\ routes' = [routes EXCEPT ![s] = {}]
  /\ errSub' = [errSub EXCEPT ![s] = FALSE]
  /\ Hold(s, entry.handle)
  /\ SetPc(s, IF entry = NoPort THEN "idle" ELSE "drop")
  /\ UNCHANGED <<made, dead, clients, lastId, subs, direct, upsets>>

\* ProxyEvent::SerialPortError, which names the path: whatever is registered
\* there is removed, and this session forgets what it held.
PortError(s) ==
  /\ Idle(s)
  /\ events[s] > 0
  /\ events' = [events EXCEPT ![s] = @ - 1]
  /\ entry' = NoPort
  /\ routes' = [routes EXCEPT ![s] = {}]
  /\ direct' = [direct EXCEPT ![s] = FALSE]
  /\ errSub' = [errSub EXCEPT ![s] = FALSE]
  /\ Hold(s, entry.handle)
  /\ SetPc(s, IF entry = NoPort THEN "idle" ELSE "drop")
  /\ UNCHANGED <<made, dead, clients, lastId, subs, upsets>>

\* force_close_serial: the entry is taken out, its channels are detached, and
\* no session is told.
ForceClose ==
  /\ entry # NoPort
  /\ held[Admin] = NoHandle
  /\ entry' = NoPort
  /\ clients' = [clients EXCEPT ![entry.handle] = @ \ {c.id : c \in entry.funnel}]
  /\ Hold(Admin, entry.handle)
  /\ upsets' = upsets \cup {"forced"}
  /\ UNCHANGED <<made, dead, lastId, subs, direct, routes, errSub, events, pc>>

\* A frame from the client for a channel whose handle is gone.
StaleWrite(s) ==
  /\ Idle(s)
  /\ \E r \in routes[s] :
       /\ r.handle \notin Alive
       /\ routes' = [routes EXCEPT ![s] = @ \ {r}]
  /\ UNCHANGED <<entry, made, dead, clients, lastId, subs, direct, errSub, events, pc,
                 held, upsets>>

-----------------------------------------------------------------------------

RegNext ==
  \/ \E s \in Sessions :
       \/ OpenDirect(s) \/ OpenFunnel(s) \/ AllocChannel(s) \/ Subscribe(s)
       \/ Close(s) \/ SessionOver(s) \/ PortError(s) \/ StaleWrite(s)
  \/ \E a \in Actors : FinishDrop(a)
  \/ \E h \in Handles : Die(h)
  \/ ForceClose

RegSpec == RegInit /\ [][RegNext]_regVars

-----------------------------------------------------------------------------
(* Properties *)

\* Every variable has the type its Rust counterpart has; a reference count is a usize.
TypeOK ==
  /\ entry \in [handle: Handles \cup {NoHandle}, bridge: BOOLEAN, refs: Nat,
                funnel: SUBSET Channel]
  /\ made \in 0 .. MaxHandles
  /\ dead \subseteq Handles
  /\ clients \in [Handles -> SUBSET ClientIds]
  /\ lastId \in [Handles -> 0 .. MaxIds]
  /\ subs \in [Handles -> SUBSET Sessions]
  /\ direct \in [Sessions -> BOOLEAN]
  /\ routes \in [Sessions -> SUBSET Route]
  /\ errSub \in [Sessions -> BOOLEAN]
  /\ events \in [Sessions -> Nat]
  /\ pc \in [Sessions -> {"idle", "channel", "subscribe", "drop", "ended"}]
  /\ held \in [Actors -> Handles \cup {NoHandle}]
  /\ upsets \subseteq {"forced", "untold", "late", "crossed"}

OneChannelPerSession ==
  \A s \in Sessions : \A r, q \in routes[s] : r.handle = q.handle => r = q

\* What a session holds it has been counted for, and what is counted somebody holds: a
\* reference for every session that holds direct, a channel with its own client for
\* every funnel session.
BooksAgree ==
  /\ entry.refs = Cardinality({s \in Sessions : direct[s]})
  /\ entry.bridge = (entry.refs > 0)
  /\ \A s \in Sessions : \A r \in routes[s] :
       r.handle = entry.handle /\ [id |-> r.id, owner |-> s] \in entry.funnel
  /\ \A c \in entry.funnel : [handle |-> entry.handle, id |-> c.id] \in routes[c.owner]
  /\ clients[entry.handle] = {c.id : c \in entry.funnel}

\* The last session out takes the entry with it: once no session holds the port the
\* device is let go of, whatever died or was force-closed before, unless a channel was
\* recorded in the entry of another handle ("crossed").
LastOutTakesEntry ==
  "crossed" \notin upsets /\ (\A s \in Sessions : ~HoldsPort(s)) => entry = NoPort

\* A session has at most one channel on a handle, however often it opens; the last one
\* out takes the entry; and the books of the registry and of the sessions agree, also
\* when the device has died any number of times: what a session still holds of a port
\* that is gone (serial_direct_paths) it holds until it has read of the death, no longer.
\* Excepted is what follows where the code tells a session nothing or too late: the
\* port was force-closed; it died under a session that had not subscribed to it, or was
\* shared after it died ("untold"); it was opened anew before all had read of the death
\* ("late"), so that one's close takes another's reference; or "crossed".
Bookkeeping ==
  /\ OneChannelPerSession
  /\ LastOutTakesEntry
  /\ upsets = {} =>
       IF entry # NoPort THEN BooksAgree
       ELSE \A s \in Sessions : HoldsPort(s) => events[s] > 0

=============================================================================
