------------------------------ MODULE SerialAgent ------------------------------
(***************************************************************************)
(* The Probe Agent as the serial manager of the extension meets it: the    *)
(* hot-plug hub (serial_available.rs) and the serial half of one control   *)
(* session (proxy_server/serial.rs, mod.rs) over one TCP connection.       *)
(*                                                                         *)
(* SerialRegistry has several sessions share the ports; here one session   *)
(* holds each of them by at most one funnel channel, and what counts is    *)
(* the order in which answers, bytes, port errors and snapshots of the     *)
(* plugged devices leave it.                                               *)
(***************************************************************************)
EXTENDS Integers, Sequences, FiniteSets, SequencesExt

CONSTANTS
  Paths,        \* device paths the session may open
  MaxChan,      \* bound: the last channel id it gives out
  MaxPlugs,     \* bound: times a device is plugged in or pulled out
  MaxBytes,     \* bound: bytes a device sends on one channel
  MaxDeaths     \* bound: times the agent dies

FirstChan == 3

ASSUME AgentAssumption ==
  /\ IsFiniteSet(Paths)
  /\ MaxChan \in Nat \ (0..FirstChan)
  /\ {MaxPlugs, MaxBytes, MaxDeaths} \subseteq Nat

VARIABLES
  up,          \* the agent runs
  present,     \* devices that are plugged in
  listed,      \* the hub's snapshot of them
  subscribed,  \* the session subscribed to the hub
  opened,      \* the channel by which the session holds a port, or 0
  alive,       \* ports whose reader thread runs
  failing,     \* port errors not yet in the event queue, by path
  nextChan,    \* next_stream_id
  sent,        \* bytes sent on a port's channel
  events,      \* event_tx: what threads of the agent have for its event loop
  toAgent,     \* frames on their way to it
  toClient,    \* frames on their way to the client
  misfed,      \* bytes typed for one port went to another
  plugs, deaths

deviceVars  == <<present, plugs>>
holdVars    == <<opened, alive, nextChan, sent>>
sessionVars == <<subscribed, holdVars, failing>>
agentVars   == <<up, deviceVars, listed, sessionVars, events, toAgent, toClient, misfed, deaths>>

Chans == FirstChan..MaxChan

\* Frames to the client.
Answer(to, ok, chan)  == [k |-> "answer", to |-> to, ok |-> ok, chan |-> chan]
Available(ports)      == [k |-> "available", ports |-> ports]
PortError(p, kind)    == [k |-> "error", path |-> p, kind |-> kind]
Data(p, chan)         == [k |-> "data", chan |-> chan,
                          byte |-> [from |-> p, chan |-> chan, n |-> sent[p] + 1]]

AgentInit ==
  /\ up = TRUE
  /\ present \in SUBSET Paths
  /\ listed = present
  /\ subscribed = FALSE
  /\ opened = [p \in Paths |-> 0]
  /\ alive = {}
  /\ failing = [p \in Paths |-> 0]
  /\ nextChan = FirstChan
  /\ sent = [p \in Paths |-> 0]
  /\ events = << >> /\ toAgent = << >> /\ toClient = << >>
  /\ misfed = FALSE
  /\ plugs = 0 /\ deaths = 0

-----------------------------------------------------------------------------
(* The devices, the hub's watcher thread and the ports' reader threads. *)

PlugIn(p) ==
  /\ plugs < MaxPlugs /\ p \notin present
  /\ present' = present \union {p}
  /\ plugs' = plugs + 1
  /\ UNCHANGED <<up, listed, sessionVars, events, toAgent, toClient, misfed, deaths>>

\* The reader of an open port fails: its error is on its way to the event
\* loop, the registry still holds the port.
PullOut(p) ==
  /\ plugs < MaxPlugs /\ p \in present
  /\ present' = present \ {p}
  /\ plugs' = plugs + 1
  /\ alive' = alive \ {p}
  /\ failing' = [failing EXCEPT ![p] = @ + IF p \in alive THEN 1 ELSE 0]
  /\ UNCHANGED <<up, listed, subscribed, opened, nextChan, sent, events, toAgent, toClient, misfed, deaths>>

\* refresh_and_broadcast_if_changed, at a watcher's trigger or after 2 s.
Refresh ==
  /\ up /\ listed # present
  /\ listed' = present
  /\ events' = IF subscribed THEN Append(events, Available(present)) ELSE events
  /\ UNCHANGED <<up, deviceVars, sessionVars, toAgent, toClient, misfed, deaths>>

ForwardError(p) ==
  /\ up /\ failing[p] > 0
  /\ failing' = [failing EXCEPT ![p] = @ - 1]
  /\ \E kind \in {"disconnected", "io"} : events' = Append(events, PortError(p, kind))
  /\ UNCHANGED <<up, deviceVars, listed, subscribed, holdVars, toAgent, toClient, misfed, deaths>>

\* A byte of the device goes to the channel's FunnelWriter.
DeviceSends(p) ==
  /\ up /\ p \in alive /\ sent[p] < MaxBytes
  /\ sent' = [sent EXCEPT ![p] = @ + 1]
  /\ events' = Append(events, Data(p, opened[p]))
  /\ UNCHANGED <<up, deviceVars, listed, subscribed, opened, alive, failing, nextChan, toAgent, toClient, misfed, deaths>>

-----------------------------------------------------------------------------
(* The event loop: requests of the client, and the events queued for it. *)

Unheld(p) ==
  /\ opened' = [opened EXCEPT ![p] = 0]
  /\ alive' = alive \ {p}

\* The handle the registry has is reconfigured, which a dead device may
\* refuse, and its channel reused.
Reopen(p, ok) ==
  /\ opened[p] # 0
  /\ p \in alive => ok
  /\ UNCHANGED <<holdVars>>

OpenNew(p, ok) ==
  /\ opened[p] = 0
  /\ ok = (p \in present)
  /\ IF ok
       THEN /\ nextChan <= MaxChan
            /\ opened' = [opened EXCEPT ![p] = nextChan]
            /\ alive' = alive \union {p}
            /\ sent' = [sent EXCEPT ![p] = 0]
            /\ nextChan' = nextChan + 1
       ELSE UNCHANGED holdVars

\* handle_serial_open, a request [k, to, path].
HandleOpen(r) ==
  \E ok \in BOOLEAN :
    /\ Reopen(r.path, ok) \/ OpenNew(r.path, ok)
    /\ toClient' = Append(toClient, Answer(r.to, ok, IF ok THEN opened'[r.path] ELSE 0))
    /\ UNCHANGED <<subscribed, misfed>>

\* handle_serial_close: nobody waits for its answer.
HandleClose(r) ==
  /\ Unheld(r.path)
  /\ UNCHANGED <<subscribed, nextChan, sent, toClient, misfed>>

HandleSubscribe(r) ==
  /\ subscribed' = TRUE
  /\ toClient' = toClient \o <<Answer(r.to, TRUE, 0), Available(listed)>>
  /\ UNCHANGED <<holdVars, misfed>>

\* Bytes typed for a port go to the one that has the frame's channel.
HandleInput(r) ==
  /\ misfed' = (misfed \/ \E p \in Paths \ {r.path} : opened[p] = r.chan)
  /\ UNCHANGED <<subscribed, holdVars, toClient>>

HandleFrame(r) ==
  \/ r.k = "open" /\ HandleOpen(r)
  \/ r.k = "close" /\ HandleClose(r)
  \/ r.k = "subscribe" /\ HandleSubscribe(r)
  \/ r.k = "input" /\ HandleInput(r)

TakeFrame ==
  /\ up /\ toAgent # << >>
  /\ HandleFrame(Head(toAgent))
  /\ toAgent' = Tail(toAgent)
  /\ UNCHANGED <<up, deviceVars, listed, failing, events, deaths>>

\* A port error removes the port, whatever handle it has by now.
TakeEvent ==
  /\ up /\ events # << >>
  /\ LET e == Head(events) IN
       /\ toClient' = Append(toClient, e)
       /\ IF e.k = "error" THEN Unheld(e.path) ELSE UNCHANGED <<opened, alive>>
  /\ events' = Tail(events)
  /\ UNCHANGED <<up, deviceVars, listed, subscribed, failing, nextChan, sent, toAgent, misfed, deaths>>

AgentWorks == Refresh \/ (\E p \in Paths : ForwardError(p)) \/ TakeFrame \/ TakeEvent

\* The agent dies, its session and what was in flight with it; a new one
\* numbers its channels from the start and lists its devices anew.
Dies ==
  /\ up /\ deaths < MaxDeaths
  /\ up' = FALSE
  /\ deaths' = deaths + 1
  /\ subscribed' = FALSE
  /\ opened' = [p \in Paths |-> 0]
  /\ alive' = {}
  /\ failing' = [p \in Paths |-> 0]
  /\ nextChan' = FirstChan
  /\ sent' = [p \in Paths |-> 0]
  /\ events' = << >> /\ toAgent' = << >> /\ toClient' = << >>
  /\ UNCHANGED <<deviceVars, listed, misfed>>

Starts ==
  /\ ~up
  /\ up' = TRUE
  /\ listed' = present
  /\ UNCHANGED <<deviceVars, sessionVars, events, toAgent, toClient, misfed, deaths>>
=============================================================================
