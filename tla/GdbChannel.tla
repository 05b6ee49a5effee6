------------------------------- MODULE GdbChannel -------------------------------
(***************************************************************************)
(* gdb, and the adapter's end of its MI channel (gdb-instance.ts): the     *)
(* queue that sends one command at a time, the promise of the command in   *)
(* flight, its timer, and what becomes of it when gdb ends.                *)
(*                                                                         *)
(* Of what gdb and its target do, only what the adapter can tell apart is  *)
(* kept: a command that needs a halted target is refused while it runs     *)
(* ("gdb doesnt accept many commnds unless target is halted",              *)
(* gdb-session.ts), an interrupt stops the target some time later.         *)
(***************************************************************************)
EXTENDS Integers, Sequences

CONSTANTS
  MaxBkpts,     \* bound: breakpoint numbers gdb gives out
  MaxFaults     \* bound: command timers that expire, and the crash of gdb

ASSUME ChannelAssumption ==
  /\ MaxBkpts \in Nat
  /\ MaxFaults \in Nat

VARIABLES
  gdb,       \* the process: "up", "dead"
  target,    \* "running", "stopped"
  halting,   \* the target was interrupted and is about to stop
  table,     \* numbers of the breakpoints gdb has
  nextBkpt,  \* the number it gives the next one
  inp,       \* commands written to it, not read yet
  out,       \* records it wrote, not received yet
  gone,      \* process === null
  closed,    \* its stdout has closed
  ending,    \* sessionEnding
  status,    \* what the adapter thinks of the target
  queue,     \* commandQueue
  inflight,  \* the command processCommandQueue awaits, or Idle
  tracked,   \* it is in pendingCmds
  result,    \* what its promise was settled with, or Pending
  late,      \* results to come of commands whose timer has expired
  faults     \* faults so far

gdbVars     == <<gdb, target, halting, table, nextBkpt>>
promiseVars == <<inflight, tracked, result>>
sendVars    == <<queue, promiseVars>>
lifeVars    == <<gone, closed, ending, status, late, faults>>
channelVars == <<gdbVars, inp, out, sendVars, lifeVars>>

\* A command is [op, who, ids]: what it does, the task that awaits it, the
\* breakpoints it deletes.
NeedsHalt == {"continue", "jump", "insert", "delete", "read"}

Command(op, who) == [op |-> op, who |-> who, ids |-> {}]
Idle             == Command("none", 0)

Done     == [rec |-> "result", ok |-> TRUE, id |-> 0]
Numbered == [Done EXCEPT !.id = nextBkpt]
Failed   == [Done EXCEPT !.ok = FALSE]
Pending  == [Failed EXCEPT !.rec = "none"]
Running  == [rec |-> "running"]
Stopped  == [rec |-> "stopped"]

ChannelInit(first) ==
  /\ gdb = "up"
  /\ target = "stopped"
  /\ halting = FALSE
  /\ table = {}
  /\ nextBkpt = 1
  /\ inp = << >>
  /\ out = << >>
  /\ gone = FALSE
  /\ closed = FALSE
  /\ ending = FALSE
  /\ status = "stopped"
  /\ queue = first
  /\ inflight = Idle
  /\ tracked = FALSE
  /\ result = Pending
  /\ late = 0
  /\ faults = 0

-----------------------------------------------------------------------------
(* gdb and the target *)

GdbReads(op) ==
  /\ gdb = "up"
  /\ inp # << >>
  /\ Head(inp).op = op
  /\ inp' = Tail(inp)
  /\ UNCHANGED <<gdb, sendVars, lifeVars>>

Reply(records) == out' = out \o records

GdbRefuses ==
  \E op \in NeedsHalt :
    /\ GdbReads(op)
    /\ target = "running" \/ op = "jump"   \* no code at the line to jump to
    /\ Reply(<<Failed>>)
    /\ UNCHANGED <<target, halting, table, nextBkpt>>

GdbResumes ==
  \E op \in {"continue", "jump"} :
    /\ GdbReads(op)
    /\ target = "stopped"
    /\ target' = "running"
    /\ Reply(<<Done, Running>>)
    /\ UNCHANGED <<halting, table, nextBkpt>>

GdbInterrupts ==
  /\ GdbReads("interrupt")
  /\ halting' = (target = "running")
  /\ Reply(<<Done>>)
  /\ UNCHANGED <<target, table, nextBkpt>>

GdbInserts ==
  /\ GdbReads("insert")
  /\ target = "stopped"
  /\ nextBkpt <= MaxBkpts
  /\ table' = table \cup {nextBkpt}
  /\ nextBkpt' = nextBkpt + 1
  /\ Reply(<<Numbered>>)
  /\ UNCHANGED <<target, halting>>

\* Numbers it does not know are no error to gdb.
GdbDeletes ==
  /\ GdbReads("delete")
  /\ target = "stopped"
  /\ table' = table \ Head(inp).ids
  /\ Reply(<<Done>>)
  /\ UNCHANGED <<target, halting, nextBkpt>>

GdbAnswers ==
  \E op \in {"read", "leave"} :
    /\ GdbReads(op)
    /\ op = "read" => target = "stopped"
    /\ Reply(<<Done>>)
    /\ UNCHANGED <<target, halting, table, nextBkpt>>

\* At a breakpoint, or because it was interrupted.
TargetStops ==
  /\ gdb = "up"
  /\ target = "running"
  /\ target' = "stopped"
  /\ halting' = FALSE
  /\ Reply(<<Stopped>>)
  /\ UNCHANGED <<gdb, table, nextBkpt, inp, sendVars, lifeVars>>

GdbDies ==
  /\ gdb = "up"
  /\ faults < MaxFaults
  /\ faults' = faults + 1
  /\ gdb' = "dead"
  /\ UNCHANGED <<target, halting, table, nextBkpt, inp, out, sendVars,
                 gone, closed, ending, status, late>>

GdbActs ==
  \/ GdbRefuses \/ GdbResumes \/ GdbInterrupts \/ GdbInserts \/ GdbDeletes \/ GdbAnswers
  \/ halting /\ TargetStops

-----------------------------------------------------------------------------
(* GdbInstance *)

Writable == ~gone /\ ~closed /\ ~ending

\* sendCommand: the command waits in the queue.
Send(commands) == queue' = queue \o commands

\* processCommandQueue takes the next command; sendCommandInternal writes it, or
\* rejects at once.
SendNext ==
  /\ inflight = Idle
  /\ queue # << >>
  /\ inflight' = Head(queue)
  /\ queue' = Tail(queue)
  /\ tracked' = Writable
  /\ IF Writable
     THEN inp' = Append(inp, Head(queue)) /\ UNCHANGED result
     ELSE result' = Failed /\ UNCHANGED inp
  /\ UNCHANGED <<gdbVars, out, lifeVars>>

\* The promise of the command in flight has been settled; its task goes on.
Settled(op, who) ==
  /\ result # Pending
  /\ inflight.op = op
  /\ inflight.who = who
  /\ inflight' = Idle
  /\ result' = Pending
  /\ UNCHANGED <<gdbVars, inp, out, tracked, lifeVars>>

\* handleOutputLine, a result record.  gdb answers in order, so that the first
\* `late' results carry tokens that are no longer pending.
ReceiveResult ==
  /\ out # << >>
  /\ Head(out).rec = "result"
  /\ out' = Tail(out)
  /\ IF late > 0
     THEN late' = late - 1 /\ UNCHANGED <<tracked, result>>
     ELSE /\ result' = IF tracked THEN Head(out) ELSE result
          /\ tracked' = FALSE
          /\ UNCHANGED late
  /\ UNCHANGED <<gdbVars, inp, queue, inflight, gone, closed, ending, status, faults>>

\* A *running or *stopped record: handleOutputLine, handleStopped.
ReceiveAsync(rec, is) ==
  /\ out # << >>
  /\ Head(out).rec = rec
  /\ out' = Tail(out)
  /\ status' = is
  /\ UNCHANGED <<gdbVars, inp, promiseVars, gone, closed, ending, late, faults>>

TimerExpires ==
  /\ tracked
  /\ faults < MaxFaults
  /\ faults' = faults + 1
  /\ tracked' = FALSE
  /\ result' = Failed
  /\ late' = late + 1
  /\ UNCHANGED <<gdbVars, inp, out, queue, inflight, gone, closed, ending, status>>

\* handleExit.
SeesExit ==
  /\ gdb = "dead"
  /\ ~gone
  /\ gone' = TRUE
  /\ UNCHANGED <<gdbVars, inp, out, sendVars, closed, ending, status, late, faults>>

\* handleStdoutClose: pendingCmds.clear() settles nothing.
StdoutCloses ==
  /\ gdb = "dead"
  /\ out = << >>
  /\ ~closed
  /\ closed' = TRUE
  /\ tracked' = FALSE
  /\ UNCHANGED <<gdbVars, inp, out, queue, inflight, result, gone, ending, status, late, faults>>

\* The command in flight when stdout closed: its promise is never settled.
Orphaned == closed /\ inflight # Idle /\ ~tracked /\ result = Pending

=============================================================================
