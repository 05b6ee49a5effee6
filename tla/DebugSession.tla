------------------------------ MODULE DebugSession ------------------------------
(***************************************************************************)
(* A debug session from the moment the client is told it may set           *)
(* breakpoints (seq-debug-session.ts, gdb-session.ts, breakpoints.ts):     *)
(* requests taken one at a time, a request that exits taken at once, the   *)
(* tail of the launch running beside them, and the end of the session.     *)
(*                                                                         *)
(* A task is a request, or 0 for the launch.  The adapter is one event     *)
(* loop: what a promise resolves runs before the next timer or request     *)
(* (`Calm'), but a record of gdb may come before or after it, because      *)
(* records may arrive in one piece or in several.                          *)
(***************************************************************************)
EXTENDS GdbChannel, FiniteSets, SequencesExt

CONSTANTS
  MaxRequests,     \* bound: requests of the client
  Kinds,           \* bound: the kinds it makes use of
  BkptsWanted,     \* bound: breakpoints a "set" request asks for
  RunAfterReset    \* launch and reset let the target run (breakAfterReset is off)

ASSUME SessionAssumption ==
  /\ MaxRequests \in Nat
  /\ BkptsWanted \in Nat
  /\ RunAfterReset \in BOOLEAN

VARIABLES
  kind,        \* the requests made, in order
  answers,     \* request -> how often it was answered
  waiting,     \* requestQueue
  current,     \* the request being processed, or 0
  exiting,     \* exiting
  pc,          \* task -> where it is
  op,          \* request -> its breakpoint operation: "none", "armed" on the next
               \* stop, "deleting", "inserting", "over"
  left,        \* request -> inserts it has yet to hear of
  book,        \* breakpoint numbers the manager has recorded
  configDone,  \* configurationDone
  continuing,  \* continuing
  suppress,    \* suppressStoppedEvents
  view,        \* what the client was last told of the target
  server,      \* the gdb-server: "up", "stopped"
  missed,      \* the client was not told of the last stop, which came between the
               \* resumption after an operation and its answer (history)
  lapse        \* a timer expired, a reset or a jump failed (history)

requestVars == <<kind, answers, waiting, current, exiting>>
bkptVars    == <<op, left, book>>
stateVars   == <<configDone, continuing, suppress, view, missed>>
sessionVars == <<requestVars, pc, bkptVars, stateVars, server, lapse>>
debugVars   == <<channelVars, sessionVars>>

Requests == 1 .. MaxRequests
Tasks    == 0 .. MaxRequests

DebugInit ==
  /\ ChannelInit(<<Command("read", 0)>>)
  /\ kind = << >>
  /\ answers = [r \in Requests |-> 0]
  /\ waiting = << >>
  /\ current = 0
  /\ exiting = FALSE
  /\ \E first \in {"mode", "attaching"} : pc = [t \in Tasks |-> IF t = 0 THEN first ELSE "idle"]
  /\ op = [r \in Requests |-> "none"]
  /\ left = [r \in Requests |-> 0]
  /\ book = {}
  /\ configDone = FALSE
  /\ continuing = FALSE
  /\ suppress = TRUE
  /\ view = "running"
  /\ missed = FALSE
  /\ server = "up"
  /\ lapse = FALSE

Busy == continuing \/ status = "running"

Goto(t, where) == pc' = [pc EXCEPT ![t] = where]

\* Faulty variant: a response does not let the next request in.
DeafAnswer(r) ==
  /\ answers' = [answers EXCEPT ![r] = @ + 1]
  /\ UNCHANGED current

\* sendResponse.
Answer(r) ==
  /\ answers' = [answers EXCEPT ![r] = @ + 1]
  /\ current' = IF current = r THEN 0 ELSE current

AnswerTask(t) == IF t = 0 THEN UNCHANGED <<answers, current>> ELSE Answer(t)

\* Nothing is left for this turn of the event loop.
Calm ==
  /\ result = Pending
  /\ inflight = Idle => queue = << >>
  /\ exiting \/ current # 0 \/ waiting = << >>
  /\ \A r \in Requests : ~(op[r] = "inserting" /\ left[r] = 0)

-----------------------------------------------------------------------------
(* dispatchRequest, processQueue *)

\* Faulty variant: what is cancelled stays in the queue.
KeepingAsk(k) ==
  LET r == Len(kind) + 1
  IN  /\ r \in Requests
      /\ ~exiting
      /\ kind' = Append(kind, k)
      /\ IF k = "continue"
         THEN answers' = [q \in Requests |-> answers[q] + IF q \in ToSet(waiting) THEN 1 ELSE 0]
         ELSE UNCHANGED answers
      /\ waiting' = Append(waiting, r)
      /\ UNCHANGED <<current, exiting>>

\* A request that resumes the target cancels those that still wait.
Enqueue(k) ==
  LET r == Len(kind) + 1
  IN  /\ r \in Requests
      /\ ~exiting
      /\ kind' = Append(kind, k)
      /\ IF k = "continue"
         THEN /\ answers' = [q \in Requests |-> answers[q] + IF q \in ToSet(waiting) THEN 1 ELSE 0]
              /\ waiting' = <<r>>
         ELSE /\ waiting' = Append(waiting, r)
              /\ UNCHANGED answers
      /\ UNCHANGED <<current, exiting>>

\* The client sets breakpoints, configures once, then makes its other requests; it no
\* longer asks when it was told that gdb is gone.
\* It disconnects by a request of its own.
Ask(k) ==
  /\ Calm
  /\ ~gone
  /\ IF "configDone" \in ToSet(kind) THEN k # "configDone" ELSE k \in {"set", "configDone"}
  /\ Enqueue(k)
  /\ UNCHANGED <<channelVars, pc, bkptVars, stateVars, server, lapse>>

\* The next request is handed to its handler.
Taken(k, r) ==
  /\ current = 0
  /\ ~exiting
  /\ waiting # << >>
  /\ r = Head(waiting)
  /\ kind[r] = k
  /\ waiting' = Tail(waiting)
  /\ UNCHANGED <<kind, exiting, gdbVars, inp, out, promiseVars, lifeVars, server>>

\* It does not send anything to gdb and is answered at once.
AnsweredAtOnce(r) ==
  /\ answers' = [answers EXCEPT ![r] = @ + 1]
  /\ UNCHANGED <<queue, current, pc, bkptVars, lapse>>

\* It waits for gdb to execute the command.
Waits(r, command, where) ==
  /\ Send(<<Command(command, r)>>)
  /\ current' = r
  /\ Goto(r, where)
  /\ UNCHANGED answers

\* threads, stackTrace, variables, readMemory...
Inspect(r) ==
  /\ Taken("inspect", r)
  /\ IF Busy THEN AnsweredAtOnce(r)
     ELSE Waits(r, "read", "reading") /\ UNCHANGED <<bkptVars, lapse>>
  /\ UNCHANGED stateVars

\* continueRequest, with clearForContinue when there are variables to delete; next,
\* stepIn and stepOut, which do not look whether the target runs.
Continue(r) ==
  /\ Taken("continue", r)
  /\ \/ Busy /\ AnsweredAtOnce(r) /\ UNCHANGED continuing
     \/ ~Busy /\ Waits(r, "read", "clearing") /\ UNCHANGED <<bkptVars, lapse, continuing>>
     \/ Waits(r, "continue", "continuing") /\ continuing' = TRUE
        /\ UNCHANGED <<bkptVars, lapse>>
  /\ UNCHANGED <<configDone, suppress, view, missed>>

\* gotoTargetsRequest.
GotoTargets(r) ==
  /\ Taken("goto", r)
  /\ Waits(r, "jump", "jumping")
  /\ continuing' = TRUE
  /\ UNCHANGED <<bkptVars, lapse, configDone, suppress, view, missed>>

Pause(r) ==
  /\ Taken("pause", r)
  /\ Waits(r, "interrupt", "pausing")
  /\ UNCHANGED <<bkptVars, lapse, stateVars>>

Reset(r) ==
  /\ Taken("reset", r)
  /\ Waits(r, "read", "resetting")
  /\ suppress' = TRUE
  /\ UNCHANGED <<bkptVars, lapse, configDone, continuing, view, missed>>

\* configurationDone: whatever waits for it, in any order, lets the target run.
ConfigurationDone(r) ==
  LET armed == {t \in Tasks : pc[t] = "armed"}
  IN  /\ Taken("configDone", r)
      /\ answers' = [answers EXCEPT ![r] = @ + 1]
      /\ configDone' = TRUE
      /\ IF status = "running" \/ armed = {}
         THEN /\ pc' = [t \in Tasks |-> IF t \in armed THEN "ended" ELSE pc[t]]
              /\ UNCHANGED <<queue, continuing>>
         ELSE /\ pc' = [t \in Tasks |-> IF t \in armed THEN "kicking" ELSE pc[t]]
              /\ \E order \in SetToSeqs(armed) :
                   Send([i \in DOMAIN order |-> Command("continue", order[i])])
              /\ continuing' = TRUE
  /\ UNCHANGED <<current, bkptVars, suppress, view, missed, lapse>>

-----------------------------------------------------------------------------
(* Commands that end a request *)

Reading(r) ==
  /\ Settled("read", r)
  /\ pc[r] = "reading"
  /\ Answer(r)
  /\ Goto(r, "ended")
  /\ UNCHANGED <<queue, kind, waiting, exiting, bkptVars, stateVars, server, lapse>>

Pausing(r) ==
  /\ Settled("interrupt", r)
  /\ pc[r] = "pausing"
  /\ Answer(r)
  /\ Goto(r, "ended")
  /\ UNCHANGED <<queue, kind, waiting, exiting, bkptVars, stateVars, server, lapse>>

Clearing(r) ==
  /\ Settled("read", r)
  /\ pc[r] = "clearing"
  /\ continuing' = TRUE
  /\ Send(<<Command("continue", r)>>)
  /\ Goto(r, "continuing")
  /\ UNCHANGED <<requestVars, bkptVars, configDone, suppress, view, missed, server, lapse>>

Continuing(r) ==
  /\ Settled("continue", r)
  /\ pc[r] = "continuing"
  /\ Answer(r)
  /\ continuing' = (continuing /\ result.ok)
  /\ Goto(r, "ended")
  /\ UNCHANGED <<queue, kind, waiting, exiting, bkptVars, configDone, suppress, view, missed, server, lapse>>

\* gotoTargetsRequest keeps `continuing' when the jump fails.
Jumping(r) ==
  /\ Settled("jump", r)
  /\ pc[r] = "jumping"
  /\ Answer(r)
  /\ lapse' = (lapse \/ ~result.ok)
  /\ Goto(r, "ended")
  /\ UNCHANGED <<queue, kind, waiting, exiting, bkptVars, stateVars, server>>

-----------------------------------------------------------------------------
(* runSessionModeCommands, at the end of the launch and of a reset *)

\* doResetDevice keeps `suppressStoppedEvents' when the reset fails.
Resetting(r) ==
  /\ Settled("read", r)
  /\ pc[r] = "resetting"
  /\ IF result.ok
     THEN Goto(r, "mode") /\ Send(<<Command("read", r)>>) /\ UNCHANGED <<answers, current, lapse>>
     ELSE Goto(r, "ended") /\ Answer(r) /\ lapse' = TRUE /\ UNCHANGED queue
  /\ UNCHANGED <<kind, waiting, exiting, bkptVars, stateVars, server>>

\* An attached target stays halted.
RunsOn(t) == RunAfterReset /\ pc[t] = "mode"

\* sendContinueWhenPossible is not awaited: the request is answered meanwhile.
ModeCommands(t) ==
  /\ Settled("read", t)
  /\ pc[t] \in {"mode", "attaching"}
  /\ suppress' = FALSE
  /\ IF ~RunsOn(t)
     THEN /\ Goto(t, "flushing")
          /\ Send(<<Command("read", t)>>)
          /\ UNCHANGED <<answers, current, continuing>>
     ELSE /\ AnswerTask(t)
          /\ IF configDone /\ status # "running"
             THEN Goto(t, "kicking") /\ Send(<<Command("continue", t)>>) /\ continuing' = TRUE
             ELSE /\ Goto(t, IF configDone THEN "ended" ELSE "armed")
                  /\ UNCHANGED <<queue, continuing>>
  /\ UNCHANGED <<kind, waiting, exiting, bkptVars, configDone, view, missed, server, lapse>>

\* The client is told where the target is.
Flushing(t) ==
  /\ Settled("read", t)
  /\ pc[t] = "flushing"
  /\ view' = IF status = "running" THEN "running" ELSE IF suppress THEN view ELSE "stopped"
  /\ missed' = (missed /\ suppress)
  /\ AnswerTask(t)
  /\ Goto(t, "ended")
  /\ UNCHANGED <<queue, kind, waiting, exiting, bkptVars, configDone, continuing, suppress, server, lapse>>

Kicking(t) ==
  /\ Settled("continue", t)
  /\ pc[t] = "kicking"
  /\ Goto(t, "ended")
  /\ UNCHANGED <<queue, requestVars, bkptVars, stateVars, server, lapse>>

-----------------------------------------------------------------------------
(* Breakpoints: executeWhileStopped and the operation it runs *)

Inserts(r) ==
  [i \in 1 .. BkptsWanted |-> Command("insert", r)]

\* The operation deletes what is recorded, then inserts what is asked for.
FirstCommands(r) ==
  IF book # {} THEN <<[Command("delete", r) EXCEPT !.ids = book]>> ELSE Inserts(r)

\* The operations of rs start, in any order.
Started(rs) ==
  /\ op' = [r \in Requests |->
              IF r \notin rs THEN op[r] ELSE IF book # {} THEN "deleting" ELSE "inserting"]
  /\ left' = [r \in Requests |-> IF r \in rs THEN Len(Inserts(r)) ELSE left[r]]
  /\ \E order \in SetToSeqs(rs) :
       Send(FlattenSeq([i \in DOMAIN order |-> FirstCommands(order[i])]))

\* setBreakPointsRequest and its kin.
SetBreakpoints(r) ==
  /\ Taken("set", r)
  /\ current' = r
  /\ suppress' = (status = "running")
  /\ IF status = "running"
     THEN /\ op' = [op EXCEPT ![r] = "armed"]
          /\ Send(<<Command("interrupt", r)>>)
          /\ Goto(r, "interrupting")
          /\ UNCHANGED left
     ELSE Started({r}) /\ Goto(r, "operating")
  /\ UNCHANGED <<answers, book, configDone, continuing, view, missed, lapse>>

\* The stop is reported unless that is suppressed; operations waiting for one start.
\* One that comes once the handler has let the target run again, and before it answers, is
\* suppressed although nothing will make up for it.
TargetStopped ==
  /\ ReceiveAsync("stopped", "stopped")
  /\ view' = IF suppress THEN view ELSE "stopped"
  /\ Started({r \in Requests : op[r] = "armed"})
  /\ missed' = (suppress /\ \E r \in Requests : pc[r] = "resuming")
  /\ UNCHANGED <<requestVars, pc, book, configDone, continuing, suppress, server, lapse>>

TargetRuns ==
  /\ ReceiveAsync("running", "running")
  /\ continuing' = FALSE
  /\ view' = "running"
  /\ missed' = FALSE
  /\ UNCHANGED <<queue, requestVars, pc, bkptVars, configDone, suppress, server, lapse>>

Interrupting(r) ==
  /\ Settled("interrupt", r)
  /\ pc[r] = "interrupting"
  /\ IF result.ok /\ op[r] # "over"
     THEN Goto(r, "halting") /\ UNCHANGED queue
     ELSE Goto(r, "resuming") /\ Send(<<Command("continue", r)>>)
  /\ UNCHANGED <<requestVars, bkptVars, stateVars, server, lapse>>

\* What awaits the operation of r goes on.
Return(r) ==
  CASE pc[r] = "operating" ->
         /\ Answer(r)
         /\ suppress' = FALSE
         /\ Goto(r, "ended")
         /\ UNCHANGED queue
    [] pc[r] = "halting" ->
         /\ Goto(r, "resuming")
         /\ Send(<<Command("continue", r)>>)
         /\ UNCHANGED <<answers, current, suppress>>
    [] OTHER -> UNCHANGED <<answers, current, suppress, pc, queue>>

\* Faulty variant: the numbers of deleted breakpoints stay on record.
KeepingDeleted(r) ==
  /\ Settled("delete", r)
  /\ op[r] = "deleting"
  /\ IF result.ok
     THEN /\ op' = [op EXCEPT ![r] = "inserting"]
          /\ Send(Inserts(r))
          /\ UNCHANGED <<book, answers, current, suppress, pc>>
     ELSE /\ op' = [op EXCEPT ![r] = "over"]
          /\ Return(r)
          /\ UNCHANGED book
  /\ UNCHANGED <<kind, waiting, exiting, left, configDone, continuing, view, missed, server, lapse>>

Deleted(r) ==
  /\ Settled("delete", r)
  /\ op[r] = "deleting"
  /\ IF result.ok
     THEN /\ book' = {}
          /\ op' = [op EXCEPT ![r] = "inserting"]
          /\ Send(Inserts(r))
          /\ UNCHANGED <<answers, current, suppress, pc>>
     ELSE /\ op' = [op EXCEPT ![r] = "over"]
          /\ Return(r)
          /\ UNCHANGED book
  /\ UNCHANGED <<kind, waiting, exiting, left, configDone, continuing, view, missed, server, lapse>>

Inserted(r) ==
  /\ Settled("insert", r)
  /\ book' = IF result.ok THEN book \cup {result.id} ELSE book
  /\ left' = [left EXCEPT ![r] = @ - 1]
  /\ UNCHANGED <<queue, requestVars, pc, op, stateVars, server, lapse>>

OperationEnds(r) ==
  /\ op[r] = "inserting"
  /\ left[r] = 0
  /\ op' = [op EXCEPT ![r] = "over"]
  /\ Return(r)
  /\ UNCHANGED <<gdbVars, inp, out, promiseVars, lifeVars,
                 kind, waiting, exiting, left, book, configDone, continuing, view, missed, server, lapse>>

\* Faulty variant: stops stay suppressed.
MutingResuming(r) ==
  /\ Settled("continue", r)
  /\ pc[r] = "resuming"
  /\ Answer(r)
  /\ Goto(r, "ended")
  /\ UNCHANGED <<queue, kind, waiting, exiting, bkptVars, stateVars, server, lapse>>

Resuming(r) ==
  /\ Settled("continue", r)
  /\ pc[r] = "resuming"
  /\ Answer(r)
  /\ suppress' = FALSE
  /\ Goto(r, "ended")
  /\ UNCHANGED <<queue, kind, waiting, exiting, bkptVars, configDone, continuing, view, missed, server, lapse>>

-----------------------------------------------------------------------------
(* finishSession *)

\* A request to exit passes the queue; only the first one ends the session.
Disconnect ==
  LET r == Len(kind) + 1
  IN  /\ Calm
      /\ r \in Requests
      /\ kind' = Append(kind, "disconnect")
      /\ exiting' = TRUE
      /\ suppress' = TRUE
      /\ IF "disconnect" \in ToSet(kind)
         THEN Answer(r) /\ UNCHANGED <<pc, queue>>
         ELSE /\ IF status = "running"
                 THEN Goto(r, "f_interrupt") /\ Send(<<Command("interrupt", r)>>)
                 ELSE Goto(r, "f_delete") /\ Send(<<[Command("delete", r) EXCEPT !.ids = 1 .. MaxBkpts]>>)
              /\ UNCHANGED <<answers, current>>
      /\ UNCHANGED <<gdbVars, inp, out, promiseVars, lifeVars, waiting, bkptVars,
                     configDone, continuing, view, missed, server, lapse>>

FinishInterrupted(r) ==
  /\ Settled("interrupt", r)
  /\ pc[r] = "f_interrupt"
  /\ Goto(r, "f_settle")
  /\ UNCHANGED <<queue, requestVars, bkptVars, stateVars, server, lapse>>

\* Faulty variant: the wait has no end but the stop.
WaitingSettles(r) ==
  /\ Calm
  /\ pc[r] = "f_settle"
  /\ status = "stopped"
  /\ Goto(r, "f_delete")
  /\ Send(<<[Command("delete", r) EXCEPT !.ids = 1 .. MaxBkpts]>>)
  /\ UNCHANGED <<gdbVars, inp, out, promiseVars, lifeVars, requestVars, bkptVars, stateVars, server, lapse>>

\* waitForCompletion: 25 ms, whether the target has stopped by then or not.
FinishSettles(r) ==
  /\ Calm
  /\ pc[r] = "f_settle"
  /\ Goto(r, "f_delete")
  /\ Send(<<[Command("delete", r) EXCEPT !.ids = 1 .. MaxBkpts]>>)
  /\ UNCHANGED <<gdbVars, inp, out, promiseVars, lifeVars, requestVars, bkptVars, stateVars, server, lapse>>

FinishDeleted(r) ==
  /\ Settled("delete", r)
  /\ pc[r] = "f_delete"
  /\ Goto(r, "f_leave")
  /\ Send(<<Command("leave", r)>>)
  /\ UNCHANGED <<requestVars, bkptVars, stateVars, server, lapse>>

\* gdbInstance.stop(): nothing to do when the process has gone; otherwise what is
\* in flight or queued is rejected, and gdb is told to exit.
FinishLeft(r) ==
  /\ result # Pending
  /\ inflight = Command("leave", r)
  /\ pc[r] = "f_leave"
  /\ Goto(r, "f_stop")
  /\ ending' = (ending \/ ~gone)
  /\ inflight' = Idle
  /\ result' = Pending
  /\ UNCHANGED <<gdbVars, inp, out, queue, tracked, gone, closed, status, late, faults,
                 requestVars, bkptVars, stateVars, server, lapse>>

\* gdb has exited, or is killed after 500 ms.
FinishStopped(r) ==
  /\ Calm
  /\ pc[r] = "f_stop"
  /\ gdb' = "dead"
  /\ gone' = TRUE
  /\ Goto(r, "f_server")
  /\ UNCHANGED <<target, halting, table, nextBkpt, inp, out, sendVars, closed, ending, status,
                 late, faults, requestVars, bkptVars, stateVars, server, lapse>>

FinishServer(r) ==
  /\ Calm
  /\ pc[r] = "f_server"
  /\ server' = "stopped"
  /\ Answer(r)
  /\ Goto(r, "ended")
  /\ UNCHANGED <<channelVars, kind, waiting, exiting, bkptVars, stateVars, lapse>>

-----------------------------------------------------------------------------
Handle(r) ==
  \/ Inspect(r) \/ Continue(r) \/ GotoTargets(r) \/ Pause(r) \/ Reset(r) \/ ConfigurationDone(r)
  \/ SetBreakpoints(r)

GoOn(r) ==
  \/ Reading(r) \/ Pausing(r) \/ Clearing(r) \/ Continuing(r) \/ Jumping(r) \/ Resetting(r)
  \/ Interrupting(r) \/ Deleted(r) \/ Inserted(r) \/ OperationEnds(r) \/ Resuming(r)

Mode(t) == ModeCommands(t) \/ Flushing(t) \/ Kicking(t)

Finish(r) ==
  \/ FinishInterrupted(r) \/ FinishSettles(r) \/ FinishDeleted(r) \/ FinishLeft(r)
  \/ FinishStopped(r) \/ FinishServer(r)

\* Commands have no time limit until the launch is complete, but for those that
\* interrupt and leave the target at the end of the session.
Timed(command) ==
  \/ pc[0] \notin {"mode", "attaching", "flushing"}
  \/ pc[command.who] \in {"f_interrupt", "f_leave"}

Timer == Calm /\ Timed(inflight) /\ TimerExpires /\ lapse' = TRUE

Channel == (Calm /\ (SeesExit \/ StdoutCloses)) \/ SendNext \/ ReceiveResult \/ GdbActs

Progress ==
  \/ \E r \in Requests : Handle(r) \/ GoOn(r) \/ Finish(r)
  \/ \E t \in Tasks : Mode(t)
  \/ TargetStopped \/ TargetRuns
  \/ Channel /\ UNCHANGED sessionVars

DebugNext ==
  \/ Progress
  \/ \E k \in Kinds : Ask(k)
  \/ Disconnect
  \/ Timer /\ UNCHANGED <<requestVars, pc, bkptVars, stateVars, server>>
  \/ (TargetStops \/ GdbDies) /\ UNCHANGED sessionVars

DebugSpec == DebugInit /\ [][DebugNext]_debugVars /\ WF_debugVars(Progress)


-----------------------------------------------------------------------------
(* Properties *)

Commands == [op : NeedsHalt \cup {"interrupt", "leave"}, who : Tasks, ids : SUBSET (1 .. MaxBkpts)]

\* A request is answered at most once, and not while it still waits: neither a
\* cancelled request nor one overtaken by the end of the session is answered again.
AnsweredOnce ==
  /\ \A r \in Requests : answers[r] <= 1
  /\ \A r \in ToSet(waiting) \cup ({current} \ {0}) : answers[r] = 0

\* Nobody has anything left to do but wait for the client, and the session goes on.
Quiet ==
  /\ Calm
  /\ inflight = Idle
  /\ waiting = << >>
  /\ current = 0
  /\ ~exiting
  /\ gdb = "up"
  /\ inp = << >>
  /\ out = << >>
  /\ ~halting
  /\ \A t \in Tasks : pc[t] \in {"idle", "ended"}

\* When all is quiet gdb has the breakpoints the manager has on record, and no
\* other: none is lost, none is left behind that a later request would not delete.  Nothing
\* is promised after a timer expired, that of an interrupt included, or a reset or a jump
\* failed (`lapse').
BreakpointsOnRecord == Quiet /\ ~lapse => table = book

\* When all is quiet the adapter knows where the target is, refuses nothing for a target
\* that runs unless it does, and has told the client, although stops are suppressed while
\* breakpoints are set and while the target is reset: a stop is reported then or made up
\* for.  The one that the code loses is the one that `missed' names and no other: it
\* comes after the handler of setBreakPointsRequest has let the target run again and
\* before its `finally', and the client takes the target to run until it resumes it.
\* Nothing is promised after a timer expired or a reset or a jump failed (`lapse').
ViewIsTrue ==
  Quiet /\ ~lapse =>
    /\ status = target
    /\ continuing => target = "running"
    /\ view = target \/ (missed /\ target = "stopped")

\* Every request is answered while gdb lives and the session goes on.
RequestsAnswered ==
  []<>(exiting \/ gdb = "dead" \/ \A r \in 1 .. Len(kind) : answers[r] > 0)

\* A session that is to end does: the gdb-server is stopped and every request to
\* disconnect answered, whatever went on, unless gdb died with a command in flight.
DisconnectEnds ==
  exiting ~> Orphaned \/ (server = "stopped" /\ \A r \in 1 .. Len(kind) :
                            kind[r] = "disconnect" => answers[r] > 0)

\* Whatever the session is doing, requests do not pile up for ever: each is answered,
\* or the session ends, and then its end is answered.
RequestsEnd == RequestsAnswered /\ DisconnectEnds

=============================================================================
