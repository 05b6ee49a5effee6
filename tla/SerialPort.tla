------------------------------- MODULE SerialPort -------------------------------
(***************************************************************************)
(* One open serial port (serial/port.rs, PortHandle): the reader thread    *)
(* that owns the device, the ring, the map of attached clients, and one    *)
(* drain thread per client that performs the blocking writes.              *)
(*                                                                         *)
(* The map and the ring are only touched under the `clients' lock, so what *)
(* the code does under one acquisition is one step here.  Everything else  *)
(* interleaves: the device read, the drain threads, the callers of         *)
(* attach_client / detach_client, and close().                             *)
(*                                                                         *)
(* A byte is its position in the device's output: the first is 1.          *)
(***************************************************************************)
EXTENDS SerialRing

CONSTANTS
  Clients,    \* client ids; next_client_id hands each out once
  Depth,      \* CLIENT_QUEUE_DEPTH
  MaxRead,    \* the reader's buffer, 4 KiB in the program
  MaxBytes,   \* bound: bytes the device produces in one behaviour
  FlakyPeers  \* bound: clients whose peer may stall or go away

ASSUME PortAssumption ==
  /\ Depth \in Nat \ {0}
  /\ MaxRead \in Nat \ {0}
  /\ MaxBytes \in Nat
  /\ FlakyPeers \subseteq Clients

VARIABLES
  reader,     \* reader thread: "check" shutdown, "read", "fanout", "gone"
  buf,        \* the slice the reader holds between the read and the lock
  ring,       \* Shared.ring
  pushed,     \* stream position of the last byte pushed into the ring
  attached,   \* keys of Shared.clients
  queue,      \* client -> chunks in its bounded channel, oldest first
  drain,      \* client -> drain thread: "none", "recv", "write", "exited"
  chunk,      \* client -> the chunk its drain thread is writing
  writer,     \* client -> its `dyn Write': "ok", "stalled" or "broken"
  received,   \* client -> bytes written to it (history)
  joined,     \* client -> stream position its seed starts after (history)
  owed,       \* client -> stream position of the last byte queued for it (history)
  caller,     \* client -> "new", "attached", "joining", "detached", "absent"
  closing     \* close(): "open", "joining" the reader, "closed"

portVars == <<reader, buf, ring, pushed, attached, queue, drain, chunk, writer,
              received, joined, owed, caller, closing>>

readerVars == <<reader, buf, ring, pushed>>
drainVars  == <<queue, drain, chunk, writer, received>>

NotJoined == -1

\* The n bytes that follow stream position a.
Run(a, n) == [k \in 1 .. n |-> a + k]

PortInit ==
  /\ reader = "check"
  /\ buf = << >>
  /\ ring = NewRing
  /\ pushed = 0
  /\ attached = {}
  /\ queue = [c \in Clients |-> << >>]
  /\ drain = [c \in Clients |-> "none"]
  /\ chunk = [c \in Clients |-> << >>]
  /\ writer = [c \in Clients |-> "ok"]
  /\ received = [c \in Clients |-> << >>]
  /\ joined = [c \in Clients |-> NotJoined]
  /\ owed = [c \in Clients |-> 0]
  /\ caller = [c \in Clients |-> "new"]
  /\ closing = "open"

-----------------------------------------------------------------------------
(* The reader thread *)

\* The flag is tested once per turn of the loop.
ReaderCheck ==
  /\ reader = "check"
  /\ reader' = IF closing = "open" THEN "read" ELSE "gone"
  /\ UNCHANGED <<buf, ring, pushed, attached, drainVars, joined, owed, caller, closing>>

\* Ok(n): a slice of 1 .. MaxRead bytes is in the reader's buffer.
ReaderRead ==
  /\ reader = "read"
  /\ \E n \in 1 .. MaxRead :
       /\ pushed + n <= MaxBytes
       /\ buf' = Run(pushed, n)
  /\ reader' = "fanout"
  /\ UNCHANGED <<ring, pushed, attached, drainVars, joined, owed, caller, closing>>

\* TimedOut / WouldBlock: the 100 ms poll tick.
ReaderTick ==
  /\ reader = "read"
  /\ reader' = "check"
  /\ UNCHANGED <<buf, ring, pushed, attached, drainVars, joined, owed, caller, closing>>

\* EOF or a hard error: subscribers are notified and the thread ends.  The
\* clients stay in the map.
ReaderFatal ==
  /\ reader = "read"
  /\ reader' = "gone"
  /\ UNCHANGED <<buf, ring, pushed, attached, drainVars, joined, owed, caller, closing>>

\* try_send refuses a chunk: the queue is full or the drain thread has gone.
Refuses(c) == Len(queue[c]) >= Depth \/ drain[c] = "exited"

\* Faulty variant: a full queue misses the slice but its client stays attached.
LossyFanOut ==
  /\ ring' = Push(ring, buf)
  /\ pushed' = pushed + Len(buf)
  /\ attached' = {c \in attached : drain[c] # "exited"}
  /\ queue' = [c \in Clients |-> IF c \in attached /\ ~Refuses(c)
                                THEN Append(queue[c], buf) ELSE queue[c]]
  /\ owed' = [c \in Clients |-> IF c \in attached THEN pushed + Len(buf) ELSE owed[c]]

\* Under the clients lock: push into the ring, offer the slice to every
\* client, drop the sinks that refuse it.
FanOut ==
  /\ ring' = Push(ring, buf)
  /\ pushed' = pushed + Len(buf)
  /\ LET kept == {c \in attached : ~Refuses(c)}
     IN  /\ attached' = kept
         /\ queue' = [c \in Clients |-> IF c \in kept THEN Append(queue[c], buf)
                                                      ELSE queue[c]]
         /\ owed' = [c \in Clients |-> IF c \in kept THEN pushed + Len(buf) ELSE owed[c]]

ReaderFanOut ==
  /\ reader = "fanout"
  /\ FanOut
  /\ buf' = << >>
  /\ reader' = "check"
  /\ UNCHANGED <<drain, chunk, writer, received, joined, caller, closing>>

Reader == ReaderCheck \/ ReaderRead \/ ReaderTick \/ ReaderFatal \/ ReaderFanOut

-----------------------------------------------------------------------------
(* Attaching and detaching a client *)

\* The first item of a new client's queue: the ring, unless it is empty.
Seed == IF Snapshot(ring) = << >> THEN << >> ELSE <<Snapshot(ring)>>

\* attach_client: the drain thread is started, then under the clients lock
\* the history is queued and the sink inserted.
Attach(c) ==
  /\ closing = "open"
  /\ caller[c] = "new"
  /\ caller' = [caller EXCEPT ![c] = "attached"]
  /\ drain' = [drain EXCEPT ![c] = "recv"]
  /\ queue' = [queue EXCEPT ![c] = Seed]
  /\ attached' = attached \cup {c}
  /\ joined' = [joined EXCEPT ![c] = pushed - Len(Snapshot(ring))]
  /\ owed' = [owed EXCEPT ![c] = pushed]
  /\ UNCHANGED <<readerVars, chunk, writer, received, closing>>

\* detach_client, under the lock: take the sink out, which closes its channel.
\* With no sink to take (the reader dropped it first) there is nothing to join.
Detach(c) ==
  /\ closing = "open"
  /\ caller[c] = "attached"
  /\ attached' = attached \ {c}
  /\ caller' = [caller EXCEPT ![c] = IF c \in attached THEN "joining" ELSE "absent"]
  /\ UNCHANGED <<readerVars, drainVars, joined, owed, closing>>

\* detach_client, outside the lock: the drain thread has been joined.
DetachJoin(c) ==
  /\ caller[c] = "joining"
  /\ drain[c] = "exited"
  /\ caller' = [caller EXCEPT ![c] = "detached"]
  /\ UNCHANGED <<readerVars, attached, drainVars, joined, owed, closing>>

-----------------------------------------------------------------------------
(* The drain thread of a client, and the writer it owns *)

Started(c) == drain[c] # "none"
Alive(c)   == drain[c] \in {"recv", "write"}

DrainRecv(c) ==
  /\ drain[c] = "recv"
  /\ queue[c] # << >>
  /\ chunk' = [chunk EXCEPT ![c] = Head(queue[c])]
  /\ queue' = [queue EXCEPT ![c] = Tail(@)]
  /\ drain' = [drain EXCEPT ![c] = "write"]
  /\ UNCHANGED <<readerVars, attached, writer, received, joined, owed, caller, closing>>

\* Faulty variant: the thread ends as soon as its channel is closed.
HastyDrainEnd(c) ==
  /\ drain[c] = "recv"
  /\ c \notin attached
  /\ drain' = [drain EXCEPT ![c] = "exited"]
  /\ queue' = [queue EXCEPT ![c] = << >>]
  /\ UNCHANGED <<readerVars, attached, chunk, writer, received, joined, owed, caller,
                 closing>>

\* recv() reports the closed channel only once it is empty.
DrainEnd(c) ==
  /\ drain[c] = "recv"
  /\ queue[c] = << >>
  /\ c \notin attached
  /\ drain' = [drain EXCEPT ![c] = "exited"]
  /\ UNCHANGED <<readerVars, attached, queue, chunk, writer, received, joined, owed,
                 caller, closing>>

DrainWrite(c) ==
  /\ drain[c] = "write"
  /\ writer[c] = "ok"
  /\ received' = [received EXCEPT ![c] = @ \o chunk[c]]
  /\ chunk' = [chunk EXCEPT ![c] = << >>]
  /\ drain' = [drain EXCEPT ![c] = "recv"]
  /\ UNCHANGED <<readerVars, attached, queue, writer, joined, owed, caller, closing>>

\* write_all fails, with some prefix of the chunk already written; the thread
\* ends and its channel, with all it still holds, is dropped.
DrainFail(c) ==
  /\ drain[c] = "write"
  /\ writer[c] = "broken"
  /\ \E n \in 0 .. Len(chunk[c]) - 1 :
       received' = [received EXCEPT ![c] = @ \o SubSeq(chunk[c], 1, n)]
  /\ chunk' = [chunk EXCEPT ![c] = << >>]
  /\ queue' = [queue EXCEPT ![c] = << >>]
  /\ drain' = [drain EXCEPT ![c] = "exited"]
  /\ UNCHANGED <<readerVars, attached, writer, joined, owed, caller, closing>>

Drain(c) == DrainRecv(c) \/ DrainEnd(c) \/ DrainWrite(c) \/ DrainFail(c)

SetWriter(c, w) ==
  /\ writer' = [writer EXCEPT ![c] = w]
  /\ UNCHANGED <<readerVars, attached, queue, drain, chunk, received, joined, owed,
                 caller, closing>>

\* The peer stops reading for good.  One that is merely slow is a DrainWrite that
\* has not happened yet.
PeerStalls(c) == c \in FlakyPeers /\ Alive(c) /\ writer[c] = "ok" /\ SetWriter(c, "stalled")

\* The peer goes away.
PeerLeaves(c) == c \in FlakyPeers /\ Alive(c) /\ writer[c] # "broken" /\ SetWriter(c, "broken")

-----------------------------------------------------------------------------
(* close(), which Drop calls: no caller is inside the handle any more *)

CloseBegin ==
  /\ closing = "open"
  /\ \A c \in Clients : caller[c] # "joining"
  /\ closing' = "joining"
  /\ UNCHANGED <<readerVars, attached, drainVars, joined, owed, caller>>

\* Faulty variant: the sinks outlive the port.
LeakyCloseEnd ==
  /\ closing = "joining"
  /\ reader = "gone"
  /\ closing' = "closed"
  /\ UNCHANGED <<readerVars, attached, drainVars, joined, owed, caller>>

\* The reader is joined and Shared is freed with every sink in it.
CloseEnd ==
  /\ closing = "joining"
  /\ reader = "gone"
  /\ closing' = "closed"
  /\ attached' = {}
  /\ UNCHANGED <<readerVars, drainVars, joined, owed, caller>>

-----------------------------------------------------------------------------

PortNext ==
  \/ Reader
  \/ CloseBegin
  \/ CloseEnd
  \/ \E c \in Clients :
       \/ Attach(c) \/ Detach(c) \/ DetachJoin(c) \/ Drain(c)
         \/ PeerStalls(c) \/ PeerLeaves(c)

\* Threads run: the reader and the drains take their enabled steps, a join
\* returns when its thread has ended.  Nothing is assumed of the device, of the
\* peers or of when callers attach, detach or close.
PortFairness ==
  /\ WF_portVars(Reader)
  /\ WF_portVars(CloseEnd)
  /\ \A c \in Clients : WF_portVars(Drain(c)) /\ WF_portVars(DetachJoin(c))

PortSpec == PortInit /\ [][PortNext]_portVars

FairPortSpec == PortSpec /\ PortFairness

-----------------------------------------------------------------------------
(* Properties *)

\* Every variable has the type its Rust counterpart has.
TypeOK ==
  /\ reader \in {"check", "read", "fanout", "gone"}
  /\ buf \in Seq(Nat)
  /\ ring \in RingOf(Nat)
  /\ pushed \in Nat
  /\ attached \subseteq Clients
  /\ queue \in [Clients -> Seq(Seq(Nat))]
  /\ drain \in [Clients -> {"none", "recv", "write", "exited"}]
  /\ chunk \in [Clients -> Seq(Nat)]
  /\ writer \in [Clients -> {"ok", "stalled", "broken"}]
  /\ received \in [Clients -> Seq(Nat)]
  /\ joined \in [Clients -> Nat \cup {NotJoined}]
  /\ owed \in [Clients -> Nat]
  /\ caller \in [Clients -> {"new", "attached", "joining", "detached", "absent"}]
  /\ closing \in {"open", "joining", "closed"}

\* A sequence holds exactly the bytes after stream position a, in order.
IsRunAfter(s, a) == \A k \in 1 .. Len(s) : s[k] = a + k

Written(c) == joined[c] + Len(received[c])

\* What a client has been written is an unbroken run of the device's output.
DeliveredInOrder(c) == Started(c) => IsRunAfter(received[c], joined[c])

\* The chunk being written carries on where the written bytes end ...
ChunkInOrder(c) ==
  drain[c] = "write" => chunk[c] # << >> /\ IsRunAfter(chunk[c], Written(c))

\* ... the queue carries on where that chunk ends, chunk after chunk ...
QueueInOrder(c) ==
  /\ \A i \in 1 .. Len(queue[c]) :
       queue[c][i] # << >> /\ IsRunAfter(queue[c][i], queue[c][i][1] - 1)
  /\ \A i \in 1 .. Len(queue[c]) - 1 :
       queue[c][i + 1][1] = queue[c][i][1] + Len(queue[c][i])
  /\ queue[c] # << >> => queue[c][1][1] = Written(c) + Len(chunk[c]) + 1

\* ... and the last thing pending ends at the last byte fanned out to the client.
EndsAtOwed(c) ==
  LET q == queue[c]
  IN  Alive(c) => owed[c] = IF q = << >> THEN Written(c) + Len(chunk[c])
                                         ELSE q[Len(q)][1] + Len(q[Len(q)]) - 1

\* A client still in the map has been offered every byte pushed so far.
UpToDate(c) == c \in attached /\ Alive(c) => owed[c] = pushed

\* Late-attach catch-up is exactly-once: seed, queue, chunk in flight and bytes
\* written always concatenate to one run of the device's output, with no byte
\* lost between the snapshot and the first live chunk and none repeated
\* (attach_client and the reader's push+fan-out share the clients lock).
ExactlyOnce ==
  \A c \in Clients :
    /\ DeliveredInOrder(c)
    /\ ChunkInOrder(c)
    /\ QueueInOrder(c)
    /\ EndsAtOwed(c)
    /\ UpToDate(c)

\* When detach_client has taken the sink and joined the drain thread, the client
\* has been written every byte fanned out to it, or its writer failed: an
\* orderly detach loses no tail.
DetachFlushes ==
  \A c \in Clients :
    caller[c] = "detached" => Written(c) = owed[c] \/ writer[c] = "broken"

\* The port implements the feed it promises its clients.
Feed == INSTANCE SerialFeed WITH
  Clients <- Clients, Cap <- Cap,
  pushed <- pushed, joined <- joined, received <- received
ImplementsFeed == Feed!FeedSpec

\* close() returns, and the threads of the clients it cut off end too, but for
\* those parked in a write to a stalled peer.
CloseReleases ==
  (closing = "joining") ~>
    /\ closing = "closed"
    /\ \A c \in Clients : ~Alive(c) \/ writer[c] = "stalled"

=============================================================================
