------------------------------- MODULE RttBuffer -------------------------------
(***************************************************************************)
(* The built-in RTT (rtt-builtin.ts, memory.ts): the adapter reads what    *)
(* the firmware prints, and writes what the user types, by reading and     *)
(* writing two rings in the memory of the target through a gdb of its own. *)
(*                                                                         *)
(* Every access is a command to that gdb and takes a turn of the event     *)
(* loop, during which the firmware goes on.  gdb answers in order, so that *)
(* an access and what follows its answer are one step here.  The actors    *)
(* are the poll loops, of which a new one starts whenever the target is    *)
(* reported running, and the handler of what the user types.               *)
(***************************************************************************)
EXTENDS Integers, Sequences

CONSTANTS
  Size,        \* bytes of each ring
  Start,       \* where the rings stand when the session attaches
  Chunk,       \* the most bytes gdb is asked for at once (512)
  MaxBytes,    \* bound: bytes the firmware prints and the user types
  MaxBurst,    \* bound: bytes typed at once
  MaxTurns     \* bound: times the target is set running and gdb commands that fail

ASSUME RttAssumption ==
  /\ {Size, Chunk} \subseteq Nat \ {0}
  /\ Start \in 0 .. Size - 1
  /\ {MaxBytes, MaxBurst, MaxTurns} \subseteq Nat

VARIABLES
  running,    \* the target runs
  ready,      \* the firmware has set up its control block
  up,         \* [rd, wr]: RdOff, WrOff of the ring the firmware prints to
  upMem,      \* what is in it
  down,       \* the same of the ring the firmware reads from
  downMem,
  printed,    \* bytes printed so far: they are 1, 2, 3, ...
  heard,      \* bytes the firmware has read
  status,     \* sessionStatus
  stopTimer,  \* onStoppedTimer is set
  started,    \* initialized
  found,      \* rttBlockFound
  counted,    \* numRdChannels and numWrChannels have been read; they are 0 before
  over,       \* disableRtt
  closed,     \* the transport is disposed of
  pc,         \* actor -> where it is
  desc,       \* actor -> its copy of RdOff and WrOff
  chunk,      \* actor -> the bytes it is about to write
  last,       \* loop -> its poll is its last one
  shown,      \* bytes given to the transport
  typed,      \* bytes typed so far: they are 1, 2, 3, ...
  queued,     \* pendingWrites
  wrBuffer,   \* wrBuffer
  busy,       \* isBusyWriting
  astray,     \* the descriptor that writeToChannel took for its own is the other ring's
  runs,       \* times the target was set running
  faults,     \* commands that failed
  sent,       \* bytes taken from wrBuffer after they were published (history)
  lapse       \* what befell the session that the adapter does not make up for (history)

targetVars == <<running, runs>>
upVars     == <<up, upMem, printed>>
downVars   == <<down, downMem, heard>>
lifeVars   == <<status, stopTimer, started, over, closed>>
foundVars  == <<found, counted>>
typeVars   == <<typed, queued, wrBuffer, busy, astray, sent>>
pollVars   == <<pc, desc, chunk, last>>
rttVars    == <<targetVars, ready, upVars, downVars, lifeVars, foundVars, pollVars, shown, typeVars, faults, lapse>>

Loops  == 1 .. MaxTurns + 1
Writer == 0
Actors == {Writer} \cup Loops
Ring   == 0 .. Size - 1
Nothing == [rd |-> 0, wr |-> 0]

\* The session attaches to a firmware that has printed already, or to a new one.
RttInit ==
  /\ running \in BOOLEAN
  /\ runs = 0
  /\ ready \in BOOLEAN
  /\ up = [rd |-> Start, wr |-> Start]
  /\ upMem = [i \in Ring |-> 0]
  /\ printed = 0
  /\ down = [rd |-> Start, wr |-> Start]
  /\ downMem = [i \in Ring |-> 0]
  /\ heard = << >>
  /\ status = "none"
  /\ stopTimer = FALSE
  /\ started = FALSE
  /\ over = FALSE
  /\ closed = FALSE
  /\ found = FALSE
  /\ counted = FALSE
  /\ pc = [a \in Actors |-> "off"]
  /\ desc = [a \in Actors |-> Nothing]
  /\ chunk = [a \in Actors |-> << >>]
  /\ last = [a \in Actors |-> FALSE]
  /\ shown = << >>
  /\ typed = 0
  /\ queued = << >>
  /\ wrBuffer = << >>
  /\ busy = FALSE
  /\ astray = FALSE
  /\ sent = 0
  /\ faults = 0
  /\ lapse = {}

Goto(a, where) == pc' = [pc EXCEPT ![a] = where]

\* It is done, and forgets what it had read.
Ends(a, where) ==
  /\ Goto(a, where)
  /\ desc' = [desc EXCEPT ![a] = Nothing]
  /\ chunk' = [chunk EXCEPT ![a] = << >>]
  /\ last' = [last EXCEPT ![a] = FALSE]

Leaves(a) == Ends(a, IF a = Writer \/ last[a] THEN "off" ELSE "sleep")
Hangs(a)  == Ends(a, "hung")

AtRest(a)   == pc[a] \in {"off", "sleep", "hung"}
Draining(a) == pc[a] \in {"drain", "write", "rest", "publish"}

\* Bound: once typed bytes went astray nothing is promised any more, and neither the target
\* nor the user does any more; the adapter goes on.
BytesAstray == "astray" \in lapse

Befalls(what, when) == IF when THEN {what} ELSE {}

-----------------------------------------------------------------------------
(* The firmware, until the session is over *)

SetsUp ==
  /\ running /\ ~closed /\ ~BytesAstray
  /\ ~ready
  /\ ready' = TRUE
  /\ up' = Nothing
  /\ down' = Nothing
  /\ UNCHANGED <<targetVars, upMem, printed, downMem, heard, lifeVars, foundVars, pollVars, shown, typeVars, faults, lapse>>

\* It waits where the ring is full.
Prints ==
  /\ running /\ ~closed /\ ~BytesAstray
  /\ ready
  /\ printed + typed < MaxBytes
  /\ (up.wr + 1) % Size # up.rd
  /\ printed' = printed + 1
  /\ upMem' = [upMem EXCEPT ![up.wr] = printed + 1]
  /\ up' = [up EXCEPT !.wr = (@ + 1) % Size]
  /\ UNCHANGED <<targetVars, ready, downVars, lifeVars, foundVars, pollVars, shown, typeVars, faults, lapse>>

Hears ==
  /\ running /\ ~closed /\ ~BytesAstray
  /\ down.rd # down.wr
  /\ heard' = Append(heard, downMem[down.rd])
  /\ down' = [down EXCEPT !.rd = (@ + 1) % Size]
  /\ UNCHANGED <<targetVars, ready, upVars, downMem, lifeVars, foundVars, pollVars, shown, typeVars, faults, lapse>>

-----------------------------------------------------------------------------
(* The poll loops *)

\* startPoll: the loop ends after this poll when the session is stopped.  While the number
\* of channels is not known, it has none to look at.
Begins(a) ==
  LET stop == status' = "stopped"
      idle == over \/ (found /\ ~counted)
  IN  /\ last' = [last EXCEPT ![a] = stop /\ ~idle]
      /\ Goto(a, IF ~idle THEN IF found THEN "drain" ELSE "search"
                 ELSE IF over \/ stop THEN "off" ELSE "sleep")
      /\ lapse' = lapse \cup Befalls("overlap", ~idle /\ \E b \in Loops \ {a} : ~AtRest(b))
                        \cup Befalls("drains", ~idle /\ found /\ \E b \in Actors \ {a} : Draining(b))

\* Its timer expires.
Polls(a) ==
  /\ pc[a] = "sleep"
  /\ UNCHANGED status
  /\ Begins(a)
  /\ UNCHANGED <<targetVars, ready, upVars, downVars, stopTimer, started, over, closed, foundVars, desc, chunk, shown, typeVars, faults>>

\* doSearch: the block counts as found before its channels have been counted.
Searches(a) ==
  /\ pc[a] = "search"
  /\ found' = ready
  /\ IF ready THEN Goto(a, "count") /\ UNCHANGED <<desc, chunk, last>> ELSE Leaves(a)
  /\ UNCHANGED <<targetVars, ready, upVars, downVars, lifeVars, counted, shown, typeVars, faults, lapse>>

Counts(a) ==
  /\ pc[a] = "count"
  /\ counted' = TRUE
  /\ Leaves(a)
  /\ UNCHANGED <<targetVars, ready, upVars, downVars, lifeVars, found, shown, typeVars, faults, lapse>>

\* tryDrainFromDevice.
ReadsDesc(a) ==
  /\ pc[a] = "desc"
  /\ IF up.rd = up.wr
     THEN Leaves(a)
     ELSE desc' = [desc EXCEPT ![a] = up] /\ Goto(a, "read") /\ UNCHANGED <<chunk, last>>
  /\ UNCHANGED <<targetVars, ready, upVars, downVars, lifeVars, foundVars, shown, typeVars, faults, lapse>>

\* Faulty variant: the ring is always read to its end.
ChunkToEnd(d) ==
  LET there == Size - d.rd
  IN  IF there < Chunk THEN there ELSE Chunk

\* Up to the end of the ring, or to what was its WrOff.
ChunkLength(d) ==
  LET there == IF d.wr > d.rd THEN d.wr - d.rd ELSE Size - d.rd
  IN  IF there < Chunk THEN there ELSE Chunk

\* readMemoryBytes, updateWriteForChunk.
ReadsChunk(a) ==
  /\ pc[a] = "read"
  /\ LET d == desc[a]
         n == ChunkLength(d)
     IN  /\ shown' = shown \o [i \in 1 .. n |-> upMem[d.rd + i - 1]]
         /\ desc' = [desc EXCEPT ![a].rd = (d.rd + n) % Size]
  /\ Goto(a, "ack")
  /\ UNCHANGED <<targetVars, ready, upVars, downVars, lifeVars, foundVars, chunk, last, typeVars, faults, lapse>>

Acks(a) ==
  /\ pc[a] = "ack"
  /\ up' = [up EXCEPT !.rd = desc[a].rd]
  /\ IF desc[a].rd = desc[a].wr
     THEN Leaves(a)
     ELSE Goto(a, "read") /\ UNCHANGED <<desc, chunk, last>>
  /\ UNCHANGED <<targetVars, ready, upMem, printed, downVars, lifeVars, foundVars, shown, typeVars, faults, lapse>>

-----------------------------------------------------------------------------
(* What the user types *)

\* drainWriteBuffer finds the descriptor of the ring behind those of the other kind: while
\* the number of these is not known, it takes the first of them for its own.
Astray(a) == a = Writer /\ astray
Points(a, wr) ==
  IF Astray(a) THEN up' = [up EXCEPT !.wr = wr] /\ UNCHANGED down
               ELSE down' = [down EXCEPT !.wr = wr] /\ UNCHANGED up
Puts(a, from, n, bytes) ==
  LET mem(old) == [i \in Ring |-> IF i \in from .. from + n - 1 THEN bytes[i - from + 1] ELSE old[i]]
  IN  IF Astray(a) THEN upMem' = mem(upMem) /\ UNCHANGED downMem
                   ELSE downMem' = mem(downMem) /\ UNCHANGED upMem

\* The room it takes the ring to have.
Space(d) ==
  IF d.rd <= d.wr THEN Size - d.wr + (IF d.rd > 0 THEN d.rd - 1 ELSE 0)
                  ELSE d.rd - d.wr - 1

\* It writes what fits, or is done: a poll goes on to read.
Round(a, d, buffer) ==
  LET n == IF Space(d) < Len(buffer) THEN Space(d) ELSE Len(buffer)
  IN  /\ lapse' = lapse \cup Befalls("short", n < Len(buffer) \/ (n > 0 /\ d.rd = (d.wr + n) % Size))
      /\ busy' = (busy /\ ~(n = 0 /\ a = Writer))
      /\ IF n = 0 /\ a = Writer
         THEN Leaves(a)
         ELSE /\ Goto(a, IF n > 0 THEN "write" ELSE "desc")
              /\ desc' = [desc EXCEPT ![a] = IF n > 0 THEN d ELSE Nothing]
              /\ chunk' = [chunk EXCEPT ![a] = SubSeq(buffer, 1, n)]
              /\ UNCHANGED last

ReadsDown(a) ==
  /\ pc[a] = "drain"
  /\ Round(a, IF Astray(a) THEN up ELSE down, wrBuffer)
  /\ UNCHANGED <<targetVars, ready, upVars, downVars, lifeVars, foundVars, shown, typed, queued, wrBuffer, astray,
                 sent, faults>>

\* The bytes fit up to the end of the ring, or start again from its beginning.
Writes(a) ==
  /\ pc[a] = "write"
  /\ LET room == Size - desc[a].wr
         n    == IF Len(chunk[a]) < room THEN Len(chunk[a]) ELSE room
     IN  /\ Puts(a, desc[a].wr, n, chunk[a])
         /\ Goto(a, IF n < Len(chunk[a]) THEN "rest" ELSE "publish")
  /\ UNCHANGED <<targetVars, ready, up, printed, down, heard, lifeVars, foundVars, desc, chunk, last, shown,
                 typeVars, faults, lapse>>

\* The rest is cut from wrBuffer as it is by now.
WritesRest(a) ==
  /\ pc[a] = "rest"
  /\ LET from == Size - desc[a].wr
         rest == SubSeq(wrBuffer, from + 1, IF Len(chunk[a]) < Len(wrBuffer) THEN Len(chunk[a]) ELSE Len(wrBuffer))
     IN  Puts(a, 0, Len(rest), rest)
  /\ Goto(a, "publish")
  /\ UNCHANGED <<targetVars, ready, up, printed, down, heard, lifeVars, foundVars, desc, chunk, last, shown,
                 typeVars, faults, lapse>>

Publishes(a) ==
  /\ pc[a] = "publish"
  /\ LET n == Len(chunk[a])
     IN  /\ Points(a, (desc[a].wr + n) % Size)
         /\ wrBuffer' = SubSeq(wrBuffer, n + 1, Len(wrBuffer))
         /\ sent' = sent + n
  /\ Round(a, desc[a], wrBuffer')
  /\ UNCHANGED <<targetVars, ready, upMem, printed, downMem, heard, lifeVars, foundVars, shown, typed, queued,
                 astray, faults>>

\* writeToChannel: what is typed while it writes waits for what is typed next, and goes
\* before what is left over.
Types(n) ==
  LET all == queued \o [i \in 1 .. n |-> typed + i]
  IN  /\ found /\ ~closed /\ ~BytesAstray
      /\ printed + typed + n <= MaxBytes
      /\ typed' = typed + n
      /\ IF busy
         THEN queued' = all /\ UNCHANGED <<wrBuffer, busy, astray, pc, lapse>>
         ELSE /\ queued' = << >>
              /\ wrBuffer' = all \o wrBuffer
              /\ busy' = TRUE
              /\ astray' = ~counted
              /\ Goto(Writer, "drain")
              /\ lapse' = lapse \cup Befalls("astray", ~counted)
                                \cup Befalls("drains", \E b \in Loops : Draining(b))
                                \cup Befalls("overtakes", wrBuffer # << >>)
      /\ UNCHANGED <<targetVars, ready, upVars, downVars, lifeVars, foundVars, desc, chunk, last, shown, sent, faults>>

-----------------------------------------------------------------------------
(* The session *)

\* A command fails.  The poll is given up and done again later; the write of a RdOff is
\* not waited for in a way that could fail, so that its loop hangs (the chunks of the
\* same part that were asked for are not followed any more).  A search that fails when the
\* block counts as found, be it by another loop, gives RTT up; what is typed is written on.
Fails(a) ==
  /\ ~AtRest(a)
  /\ ~closed
  /\ runs + faults < MaxTurns
  /\ faults' = faults + 1
  /\ IF pc[a] = "ack" THEN Hangs(a) ELSE Leaves(a)
  /\ lapse' = lapse \cup Befalls("mute", pc[a] = "ack") \cup Befalls("late", last[a])
  /\ busy' = (busy /\ a # Writer)
  /\ over' = (over \/ (found /\ pc[a] \in {"search", "count"}))
  /\ UNCHANGED <<targetVars, ready, upVars, downVars, status, stopTimer, started, closed, foundVars, shown,
                 typed, queued, wrBuffer, astray, sent>>

Spawns(a) ==
  /\ pc[a] = "off"
  /\ \A b \in Loops : b < a => pc[b] # "off"
  /\ Begins(a)

\* start, when the gdb of the live watch has connected.
Starts ==
  /\ ~started
  /\ ~over
  /\ started' = TRUE
  /\ UNCHANGED status
  /\ \E a \in Loops : Spawns(a)
  /\ UNCHANGED <<targetVars, ready, upVars, downVars, stopTimer, over, closed, foundVars, desc, chunk, shown, typeVars, faults>>

\* Faulty variant: the loop of before the stop is trusted to go on.
OnRunningTrusting ==
  /\ ~running /\ ~closed /\ ~BytesAstray
  /\ runs + faults < MaxTurns
  /\ runs' = runs + 1
  /\ running' = TRUE
  /\ status' = "running"
  /\ stopTimer' = FALSE
  /\ IF started /\ \A b \in Loops : pc[b] = "off"
     THEN \E a \in Loops : Spawns(a)
     ELSE UNCHANGED <<pc, last, lapse>>
  /\ UNCHANGED <<ready, upVars, downVars, started, over, closed, foundVars, desc, chunk, shown, typeVars, faults>>

\* onRunning: a loop starts, whether or not one is left from before the stop.
OnRunning ==
  /\ ~running /\ ~closed /\ ~BytesAstray
  /\ runs + faults < MaxTurns
  /\ runs' = runs + 1
  /\ running' = TRUE
  /\ status' = "running"
  /\ stopTimer' = FALSE
  /\ IF started THEN \E a \in Loops : Spawns(a) ELSE UNCHANGED <<pc, last, lapse>>
  /\ UNCHANGED <<ready, upVars, downVars, started, over, closed, foundVars, desc, chunk, shown, typeVars, faults>>

\* onStopped: the session counts as stopped a second later.
OnStopped ==
  /\ running /\ ~closed /\ ~BytesAstray
  /\ running' = FALSE
  /\ stopTimer' = TRUE
  /\ UNCHANGED <<runs, ready, upVars, downVars, status, started, over, closed, foundVars, pollVars, shown, typeVars, faults, lapse>>

StopTimerExpires ==
  /\ stopTimer
  /\ stopTimer' = FALSE
  /\ status' = "stopped"
  /\ UNCHANGED <<targetVars, ready, upVars, downVars, started, over, closed, foundVars, pollVars, shown, typeVars, faults, lapse>>

\* dispose.
Disposes ==
  /\ ~closed
  /\ closed' = TRUE
  /\ over' = TRUE
  /\ UNCHANGED <<targetVars, ready, upVars, downVars, status, stopTimer, started, foundVars, pollVars, shown, typeVars, faults, lapse>>

\* onExited.
Exits ==
  /\ ~closed
  /\ closed' = TRUE
  /\ over' = TRUE
  /\ status' = "none"
  /\ stopTimer' = FALSE
  /\ UNCHANGED <<targetVars, ready, upVars, downVars, started, foundVars, pollVars, shown, typeVars, faults, lapse>>

-----------------------------------------------------------------------------

Reads(a)  == Polls(a) \/ Searches(a) \/ Counts(a) \/ ReadsDesc(a) \/ ReadsChunk(a) \/ Acks(a)
Drains(a) == ReadsDown(a) \/ Writes(a) \/ WritesRest(a) \/ Publishes(a)

RttNext ==
  \/ SetsUp
  \/ Prints
  \/ Hears
  \/ \E a \in Loops : Reads(a)
  \/ \E a \in Actors : Drains(a) \/ Fails(a)
  \/ \E n \in 1 .. MaxBurst : Types(n)
  \/ Starts
  \/ OnRunning
  \/ OnStopped
  \/ StopTimerExpires
  \/ Disposes
  \/ Exits

\* Timers expire and gdb answers.
RttFairness ==
  /\ \A a \in Loops : WF_rttVars(Reads(a))
  /\ \A a \in Actors : WF_rttVars(Drains(a))
  /\ WF_rttVars(StopTimerExpires)

RttSpec == RttInit /\ [][RttNext]_rttVars /\ RttFairness

-----------------------------------------------------------------------------

Counted(n) == [i \in 1 .. n |-> i]

UpInOrder   == {"overlap", "mute", "astray"} \cap lapse = {} => shown = Counted(Len(shown))
DownInOrder == lapse = {} => heard = Counted(Len(heard))

\* What the firmware prints is shown once and in order, while it prints on into the room
\* it is given back chunk by chunk (readMemoryBytes, updateWriteForChunk), and what the
\* firmware reads is what was typed, in order, while it reads on (drainWriteBuffer).  Except
\* for a session where (`lapse`) two loops polled at once, gdb failed on a RdOff ("mute") or
\* something was typed between the two reads of the search ("astray"); and, for what was
\* typed, where the ring was short of room, two drains ran at once or a write overtook what
\* was left of an earlier one.
BytesInOrder == UpInOrder /\ DownInOrder

\* Once the channels are counted, what the firmware has printed while it ran is shown, also
\* what it printed last before it was stopped, however stops and runs follow each other.
\* Except where RTT was given up (`over`), gdb failed on a RdOff ("mute") or in a last poll
\* ("late"), or typed bytes went into the firmware's own ring ("astray").
OutputShown ==
  \A k \in 1 .. MaxBytes :
    (printed >= k /\ counted /\ status # "stopped") ~> (Len(shown) >= k \/ over \/ {"mute", "late", "astray"} \cap lapse # {})

=============================================================================
