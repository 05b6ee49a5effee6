------------------------------ MODULE DisasmHelper ------------------------------
(***************************************************************************)
(* The debug helper: a process the adapter starts to read the executable   *)
(* (helper.ts, disassembly-new.ts; run.rs, request_handler.rs and          *)
(* disasm_worker.rs).  Its main thread reads the symbols and then serves   *)
(* requests; its worker waits for objdump and for what main has learnt,    *)
(* and serves disassembly.  Both write to one pipe, whole messages at a    *)
(* time.  The client makes one request at a time, so that a second one is  *)
(* under way beside the first only when the first timed out.               *)
(***************************************************************************)
EXTENDS DisasmWindow

CONSTANTS
  MaxAsks,     \* bound: requests of the client
  Inputs,      \* bound: the disassemblies it asks for: address, instructions from it, count
  Listings     \* bound: what objdump may print, as sets of addresses

ASSUME HelperAssumption ==
  /\ MaxAsks \in Nat
  /\ Inputs \subseteq [target : Int, offset : Int, count : Nat]
  /\ \A code \in Listings : code \subseteq Nat /\ IsFiniteSet(code)

VARIABLES
  asks,       \* the requests made: the globals, or a disassembly with its input
  phase,      \* request -> "new", "table" (waits for the symbols), "sent", "answered", "failed"
  reply,      \* request -> the message that settled it, or "none"
  pending,    \* pendingRequests
  symbolTable, \* symbolTableReady: "pending", "resolved", "rejected"
  rtt,        \* rttSymbolReady: "pending", "resolved"
  rttAt,      \* rttSymbolAddress is set
  rttWait,    \* loadSymbols: "waiting" for rtt, "found", "missing", "unknown" (it gave up)
  adapter,    \* "up", "disposed", "crashed"
  stdin,      \* helperProcess.stdin is writable
  hasRtt,     \* the executable has the symbol
  main,       \* main thread: "symbols", "dwarf", "loaded", "serving", "ended"
  worker,     \* worker: "objdump", "waiting", "serving", "ended"
  info,       \* ObjectInfo is on its way to the worker
  listing,    \* the addresses of the instructions the worker knows
  toHelper,   \* its stdin
  work,       \* req_tx: requests passed on to the worker
  fromHelper  \* its stdout

askVars     == <<asks, phase, reply, pending>>
blockVars   == <<rtt, rttAt, rttWait>>
adapterVars == <<adapter, stdin, symbolTable>>
helperVars  == <<main, worker, info, listing>>
pipeVars    == <<toHelper, work, fromHelper>>
disasmVars  == <<askVars, blockVars, adapterVars, helperVars, pipeVars, hasRtt>>

Asks == 1 .. MaxAsks

Globals        == [kind |-> "globals"]
Disassemble(q) == [kind |-> "disassemble", q |-> q]

HelperTypeOK ==
  /\ asks \in Seq({Globals} \cup {Disassemble(q) : q \in Inputs})
  /\ phase \in [Asks -> {"new", "table", "sent", "answered", "failed"}]
  /\ pending \subseteq Asks
  /\ symbolTable \in {"pending", "resolved", "rejected"}
  /\ rtt \in {"pending", "resolved"}
  /\ rttWait \in {"waiting", "found", "missing", "unknown"}
  /\ adapter \in {"up", "disposed", "crashed"}
  /\ main \in {"symbols", "dwarf", "loaded", "serving", "ended"}
  /\ worker \in {"objdump", "waiting", "serving", "ended"}
  /\ {rttAt, stdin, hasRtt, info} \subseteq BOOLEAN

\* initialize: no executable to read, no helper to be found, or the helper started.
DisasmInit ==
  /\ asks = << >>
  /\ phase = [r \in Asks |-> "new"]
  /\ reply = [r \in Asks |-> "none"]
  /\ pending = {}
  /\ rtt = "pending"
  /\ rttAt = FALSE
  /\ rttWait = "waiting"
  /\ adapter = "up"
  /\ hasRtt \in BOOLEAN
  /\ \/ symbolTable \in {"pending", "rejected"} /\ stdin = FALSE /\ main = "ended" /\ worker = "ended"
     \/ symbolTable = "pending" /\ stdin = TRUE /\ main = "symbols" /\ worker = "objdump"
  /\ info = FALSE
  /\ listing = {}
  /\ toHelper = << >>
  /\ work = << >>
  /\ fromHelper = << >>

\* Messages of the helper: an event, or an answer.  What was asked stands for what is
\* answered: the globals, or the window of the listing, `Disassembled'.
Event(e)        == [type |-> e, seq |-> 0]
Answered(r, body) == [type |-> "answer", seq |-> r, body |-> body]

AskSettled(r) == phase[r] \in {"answered", "failed"}

-----------------------------------------------------------------------------
(* The adapter *)

\* sendRequest: refused where the helper never started, was disposed of or has been seen
\* to exit.  A write to a helper that is dead and not yet known to be is an error event
\* nobody listens for, which ends the adapter.
SendAsk(r) ==
  IF ~stdin
  THEN /\ phase' = [phase EXCEPT ![r] = "failed"]
       /\ UNCHANGED <<pending, toHelper, adapter>>
  ELSE /\ phase' = [phase EXCEPT ![r] = "sent"]
       /\ pending' = pending \cup {r}
       /\ IF main = "ended"
          THEN adapter' = "crashed" /\ UNCHANGED toHelper
          ELSE toHelper' = Append(toHelper, r) /\ UNCHANGED adapter

\* disassembleRequest; getGlobalVariables and getStaticVariables wait for the symbols.
AskHelper(k) ==
  LET r == Len(asks) + 1
  IN  /\ adapter = "up"
      /\ r \in Asks
      /\ \A q \in 1 .. Len(asks) : AskSettled(q)
      /\ asks' = Append(asks, k)
      /\ IF k = Globals
         THEN phase' = [phase EXCEPT ![r] = "table"] /\ UNCHANGED <<pending, toHelper, adapter>>
         ELSE SendAsk(r)
      /\ UNCHANGED <<reply, blockVars, stdin, symbolTable, helperVars, work, fromHelper, hasRtt>>

SymbolsThere(r) ==
  /\ adapter # "crashed"
  /\ phase[r] = "table"
  /\ symbolTable = "resolved"
  /\ SendAsk(r)
  /\ UNCHANGED <<asks, reply, blockVars, stdin, symbolTable, helperVars, work, fromHelper, hasRtt>>

\* Faulty variant: no withTimeout.
WaitsForSymbols(r) ==
  /\ adapter # "crashed"
  /\ phase[r] = "table"
  /\ symbolTable = "rejected"
  /\ phase' = [phase EXCEPT ![r] = "failed"]
  /\ UNCHANGED <<asks, reply, pending, blockVars, adapterVars, helperVars, pipeVars, hasRtt>>

\* withTimeout(symbolTableReady): an empty list.
SymbolsLate(r) ==
  /\ adapter # "crashed"
  /\ phase[r] = "table"
  /\ symbolTable # "resolved"
  /\ phase' = [phase EXCEPT ![r] = "failed"]
  /\ UNCHANGED <<asks, reply, pending, blockVars, adapterVars, helperVars, pipeVars, hasRtt>>

\* The timer of a request outlives the entry that dispose removes.
RequestTimesOut(r) ==
  /\ adapter # "crashed"
  /\ phase[r] = "sent"
  /\ phase' = [phase EXCEPT ![r] = "failed"]
  /\ pending' = pending \ {r}
  /\ UNCHANGED <<asks, reply, blockVars, adapterVars, helperVars, pipeVars, hasRtt>>

\* loadSymbols.
RttSettles ==
  /\ adapter # "crashed"
  /\ rttWait = "waiting"
  /\ \/ rtt = "resolved" /\ rttWait' = IF rttAt THEN "found" ELSE "missing"
     \/ rtt = "pending" /\ rttWait' = "unknown"
  /\ UNCHANGED <<askVars, rtt, rttAt, adapterVars, helperVars, pipeVars, hasRtt>>

\* Faulty variant: the answer is taken for the oldest request.
HandleOldest(msg) ==
  /\ msg.type = "answer"
  /\ IF pending = {}
     THEN UNCHANGED <<phase, reply, pending>>
     ELSE LET r == Lowest(pending)
          IN  /\ phase' = [phase EXCEPT ![r] = "answered"]
              /\ reply' = [reply EXCEPT ![r] = msg]
              /\ pending' = pending \ {r}
  /\ UNCHANGED <<blockVars, symbolTable>>

\* handleHelperMessage: an answer nobody waits for is dropped.
HandleAnswer(msg) ==
  /\ msg.type = "answer"
  /\ IF msg.seq \notin pending
     THEN UNCHANGED <<phase, reply, pending>>
     ELSE /\ phase' = [phase EXCEPT ![msg.seq] = "answered"]
          /\ reply' = [reply EXCEPT ![msg.seq] = msg]
          /\ pending' = pending \ {msg.seq}
  /\ UNCHANGED <<blockVars, symbolTable>>

\* Faulty variant: any report of readiness ends the search for the RTT block.
HandleReady(msg) ==
  /\ msg.type # "answer"
  /\ rttAt' = (rttAt \/ msg.type = "RTTFound")
  /\ rtt' = "resolved"
  /\ symbolTable' = IF msg.type = "SymbolTableReady" /\ symbolTable = "pending" THEN "resolved" ELSE symbolTable
  /\ UNCHANGED <<phase, reply, pending, rttWait>>

\* handleHelperEvent.
HandleEvent(msg) ==
  /\ msg.type # "answer"
  /\ rttAt' = (rttAt \/ msg.type = "RTTFound")
  /\ rtt' = IF msg.type = "DisassemblyReady" THEN rtt ELSE "resolved"
  /\ symbolTable' = IF msg.type = "SymbolTableReady" /\ symbolTable = "pending" THEN "resolved" ELSE symbolTable
  /\ UNCHANGED <<phase, reply, pending, rttWait>>

Receive ==
  /\ adapter # "crashed"
  /\ fromHelper # << >>
  /\ fromHelper' = Tail(fromHelper)
  /\ HandleAnswer(Head(fromHelper)) \/ HandleEvent(Head(fromHelper))
  /\ UNCHANGED <<asks, adapter, stdin, helperVars, toHelper, work, hasRtt>>

\* The exit is noticed; the handler of "close" does nothing, the stream is gone.
HelperExits ==
  /\ adapter # "crashed"
  /\ main = "ended"
  /\ stdin
  /\ stdin' = FALSE
  /\ UNCHANGED <<askVars, blockVars, adapter, symbolTable, helperVars, pipeVars, hasRtt>>

\* dispose, when the client disconnects.
Dispose ==
  /\ adapter = "up"
  /\ adapter' = "disposed"
  /\ stdin' = FALSE
  /\ main' = "ended"
  /\ worker' = "ended"
  /\ pending' = {}
  /\ UNCHANGED <<asks, phase, reply, blockVars, symbolTable, info, listing, pipeVars, hasRtt>>

-----------------------------------------------------------------------------
(* The helper *)

Write(msg) == fromHelper' = Append(fromHelper, msg)

MainFindsSymbols ==
  /\ main = "symbols"
  /\ main' = "dwarf"
  /\ IF hasRtt THEN Write(Event("RTTFound")) ELSE UNCHANGED fromHelper
  /\ UNCHANGED <<askVars, blockVars, adapterVars, worker, info, listing, toHelper, work, hasRtt>>

\* The worker is told first, the adapter next.
MainLoads ==
  /\ main = "dwarf"
  /\ main' = "loaded"
  /\ info' = TRUE
  /\ UNCHANGED <<askVars, blockVars, adapterVars, worker, listing, pipeVars, hasRtt>>

MainReady ==
  /\ main = "loaded"
  /\ main' = "serving"
  /\ Write(Event("SymbolTableReady"))
  /\ UNCHANGED <<askVars, blockVars, adapterVars, worker, info, listing, toHelper, work, hasRtt>>

\* dispatch_request: globals are answered here, a disassembly goes to the worker; an
\* address below zero, or a worker that is gone, gets no answer.
MainServes ==
  /\ main = "serving"
  /\ toHelper # << >>
  /\ LET r == Head(toHelper)
     IN  IF asks[r] = Globals
         THEN Write(Answered(r, asks[r])) /\ UNCHANGED work
         ELSE /\ work' = IF asks[r].q.target < 0 \/ worker = "ended" THEN work ELSE Append(work, r)
              /\ UNCHANGED fromHelper
  /\ toHelper' = Tail(toHelper)
  /\ UNCHANGED <<askVars, blockVars, adapterVars, helperVars, hasRtt>>

WorkerLists ==
  /\ worker = "objdump"
  /\ worker' = "waiting"
  /\ listing' \in Listings
  /\ Write(Event("DisassemblyReady"))
  /\ UNCHANGED <<askVars, blockVars, adapterVars, main, info, toHelper, work, hasRtt>>

\* objdump cannot be run.
WorkerFails ==
  /\ worker = "objdump"
  /\ worker' = "ended"
  /\ work' = << >>
  /\ UNCHANGED <<askVars, blockVars, adapterVars, main, info, listing, toHelper, fromHelper, hasRtt>>

WorkerLearns ==
  /\ worker = "waiting"
  /\ info
  /\ worker' = "serving"
  /\ UNCHANGED <<askVars, blockVars, adapterVars, main, info, listing, pipeVars, hasRtt>>

\* serve_disassembly_requests.
WorkerServes ==
  /\ worker = "serving"
  /\ work # << >>
  /\ Write(Answered(Head(work), asks[Head(work)]))
  /\ work' = Tail(work)
  /\ UNCHANGED <<askVars, blockVars, adapterVars, helperVars, toHelper, hasRtt>>

\* The executable cannot be read, or the process is killed.
HelperDies ==
  /\ main # "ended"
  /\ main' = "ended"
  /\ worker' = "ended"
  /\ toHelper' = << >>
  /\ work' = << >>
  /\ UNCHANGED <<askVars, blockVars, adapterVars, info, listing, fromHelper, hasRtt>>

-----------------------------------------------------------------------------

MainStep   == MainFindsSymbols \/ MainLoads \/ MainReady \/ MainServes
WorkerStep == WorkerLists \/ WorkerFails \/ WorkerLearns \/ WorkerServes

DisasmNext ==
  \/ \E k \in {Globals} \cup {Disassemble(q) : q \in Inputs} : AskHelper(k)
  \/ \E r \in Asks : SymbolsThere(r) \/ SymbolsLate(r) \/ RequestTimesOut(r)
  \/ RttSettles
  \/ Receive
  \/ HelperExits
  \/ Dispose
  \/ MainStep
  \/ WorkerStep
  \/ HelperDies

\* The two threads run, the adapter takes what it is sent, its timers expire.
DisasmFairness ==
  /\ WF_disasmVars(MainStep)
  /\ WF_disasmVars(WorkerStep)
  /\ WF_disasmVars(Receive)
  /\ WF_disasmVars(HelperExits)
  /\ WF_disasmVars(RttSettles)
  /\ \A r \in Asks : /\ WF_disasmVars(SymbolsThere(r) \/ SymbolsLate(r))
                     /\ WF_disasmVars(RequestTimesOut(r))

DisasmSpec == DisasmInit /\ [][DisasmNext]_disasmVars /\ DisasmFairness

-----------------------------------------------------------------------------

\* The answer to one question is never shown for another: a request that timed out is
\* answered late, while the next one is under way.
AnswersOwnRequest ==
  \A r \in 1 .. Len(asks) :
    phase[r] = "answered" => reply[r].body = asks[r]

\* What a disassembly shows, of any listing and from any place in it.
WindowsCentred ==
  \A r \in 1 .. Len(asks) :
    phase[r] = "answered" /\ asks[r] # Globals =>
      Centred(listing, Disassembled(listing, reply[r].body.q), asks[r].q)

\* RTT is given up for good only where the executable has no RTT block, whichever of the
\* two threads reports first.
RttNotMissed == rttWait = "missing" => ~hasRtt

\* Every request ends, with an executable that cannot be read, without a helper, when it
\* dies or drops the request, and when the session ends under it.
RequestsSettle ==
  \A r \in Asks : phase[r] \in {"table", "sent"} ~> (AskSettled(r) \/ adapter = "crashed")

=============================================================================
