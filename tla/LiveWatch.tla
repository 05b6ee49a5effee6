------------------------------- MODULE LiveWatch -------------------------------
(***************************************************************************)
(* The live watch view (frontend/views/live-watch.ts), the monitor in the  *)
(* adapter that serves it through a gdb of its own                         *)
(* (live-watch-monitor.ts) and the variable objects it keeps               *)
(* (VariableContainer and evaluateExpression of variables.ts).             *)
(*                                                                         *)
(* A node is one line of the view, watched by its expression; gdb reports  *)
(* of a variable object only what differs from its last report.  Requests  *)
(* are handled one at a time, so that an expression never has two variable *)
(* objects and can stand for the name of its own.  Every change of a       *)
(* variable gives it the next number: a larger value is a later one.       *)
(*                                                                         *)
(* View and adapter are event loops joined by two ordered links; what a    *)
(* promise of the adapter resolves runs before its next event (`Calm').    *)
(* The answer of gdb to a command and the step it wakes are one action:    *)
(* gdb answers in the order it is asked.  Children of a watched structure  *)
(* are not modelled.                                                       *)
(***************************************************************************)
EXTENDS Integers, FiniteSets, Sequences, SequencesExt

CONSTANTS
  Exprs,        \* expressions worth watching: variables of the target
  Blank,        \* no value, no name, no request
  Saved,        \* expressions of the lines restored from an earlier session
  Starts,       \* the target runs, or not, when a session is begun
  SeesStop,     \* the live gdb takes itself to be stopped (IsStopped)
  OpenOcd,      \* the server is openocd: a refused assignment is tried as a memory write
  MaxChanges,   \* bound: changes the program makes
  MaxHalts,     \* bound: stops of the target, and continues
  MaxAsks,      \* bound: things the user does: lines added, renamed, removed, edited, and
                \* requests of other views
  MaxLines,     \* bound: lines of the view over time
  MaxSessions   \* bound: debug sessions

ASSUME LiveWatchAssumption ==
  /\ Blank \notin Exprs \cup Nat
  /\ Saved \subseteq Exprs
  /\ Starts \subseteq BOOLEAN
  /\ OpenOcd \in BOOLEAN /\ SeesStop \in BOOLEAN
  /\ {MaxChanges, MaxHalts, MaxAsks, MaxLines, MaxSessions} \subseteq Nat

VARIABLES
  mem,       \* expression -> the value it has in the target
  running,   \* the target runs
  used,      \* what was used of each bound
  vars,      \* gdb: name -> the value it last reported
  gdbq,      \* commands gdb has yet to answer
  enabled,   \* liveMonitorEnabled
  timer,     \* updateTimer is set
  handling,  \* handlingRequest
  updating,  \* isUpdatingVariables
  chained,   \* stops that wait for updatePromise: updates each has still ahead
  pvr,       \* pvrWriteUpdates: name -> value
  keys,      \* the container's handles: expression -> variable object
  objs,      \* names in gdbVarNameToObjMap
  up,        \* requests on their way to the adapter
  queue,     \* requestQueue
  current,   \* the request being handled, or Blank
  down,      \* responses and events on their way to the view
  session,   \* LiveWatchTreeProvider.session is set
  liveId,    \* liveSessionId is set
  nodes,     \* node -> its line
  map,       \* gdbVarNameToNodeMap
  doomed,    \* toBeDeleted
  doubt,     \* lines that miss something, and why (history)
  leaked,    \* names nobody will delete (history)
  late       \* the timer missed that the target runs (history)

targetVars == <<mem, running>>
gdbVars    == <<vars, gdbq>>
flagVars   == <<enabled, timer>>
updateVars == <<handling, updating, chained>>
storeVars  == <<pvr, keys, objs>>
linkVars   == <<up, queue, current, down>>
viewVars   == <<session, liveId, nodes, map, doomed>>
history    == <<doubt, leaked, late>>
watchVars  == <<targetVars, used, gdbVars, flagVars, updateVars, storeVars, linkVars, viewVars, history>>

Nodes   == 1 .. MaxLines
Nothing == [n \in {} |-> 0]
Unused  == [at |-> "unused", expr |-> Blank, gdb |-> Blank, shown |-> Blank]
Line(e) == [at |-> "listed", expr |-> e, gdb |-> Blank, shown |-> Blank]

\* The adapter and its gdb before they are started.
Fresh ==
  /\ vars' = Nothing /\ gdbq' = << >>
  /\ enabled' = FALSE /\ timer' = FALSE
  /\ handling' = FALSE /\ updating' = FALSE /\ chained' = << >>
  /\ pvr' = Nothing /\ keys' = Nothing /\ objs' = {}
  /\ up' = << >> /\ queue' = << >> /\ current' = Blank /\ down' = << >>

Init ==
  /\ mem = [e \in Exprs |-> 0]
  /\ running \in Starts
  /\ used = [changes |-> 0, halts |-> 0, asks |-> 0, sessions |-> 0]
  /\ vars = Nothing /\ gdbq = << >>
  /\ enabled = FALSE /\ timer = FALSE
  /\ handling = FALSE /\ updating = FALSE /\ chained = << >>
  /\ pvr = Nothing /\ keys = Nothing /\ objs = {}
  /\ up = << >> /\ queue = << >> /\ current = Blank /\ down = << >>
  /\ session = FALSE /\ liveId = FALSE
  /\ LET saved == SetToSeq(Saved)
     IN  nodes = [i \in 1 .. MaxLines |-> IF i \in DOMAIN saved THEN Line(saved[i]) ELSE Unused]
  /\ map = Nothing
  /\ doomed = {}
  /\ doubt = {} /\ leaked = {} /\ late = FALSE

\* Why a line shows an old value, or none: its evaluation was turned away by a continue
\* ("refused"); it was written while the target is stopped, and no update has come since
\* ("unasked"); an update named its object before the view knew the name ("early"); a second
\* evaluation gave it what the first had taken down ("stale"); it is the answer of another
\* expression ("crossed"); its object was deleted for an earlier line ("deleted"); what gdb
\* reported of it was overwritten by a later write ("overwritten").
Misses(is, why) == is \X {why}
Missing(whys) == {d[1] : d \in {d \in doubt : d[2] \in whys}}

Uses(what, bound) == used[what] < bound /\ used' = [used EXCEPT ![what] = @ + 1]

\* Bound: the user acts only while there is a session.
UserActs == session /\ Uses("asks", MaxAsks)

\* Everything a promise of the adapter has resolved has run.
Calm ==
  /\ current = Blank => queue = << >>
  /\ current # Blank => ~(current.at = "waiting" /\ current.waits = 0)
  /\ \A c \in DOMAIN chained : chained[c] > 0

(***************************************************************************)
(* Requests                                                                *)
(***************************************************************************)
Request(kind, node, expr, name, names, batch) ==
  [kind |-> kind, node |-> node, expr |-> expr, name |-> name, names |-> names, batch |-> batch,
   at |-> "sent", waits |-> 0, val |-> 0]

Plain(kind) == Request(kind, 0, Blank, Blank, {}, 0)

Response(req, ok, val) == [type |-> "response", req |-> req, ok |-> ok, val |-> val]

\* Requests whose answer the view has not seen.
Outstanding ==
  Range(up) \cup Range(queue) \cup (IF current = Blank THEN {} ELSE {current})
    \cup {m.req : m \in {d \in Range(down) : d.type = "response"}}

Evaluating == {r \in Outstanding : r.kind = "evaluate"}

ListedIn(ns) == {i \in Nodes : ns[i].at = "listed"}
Listed == ListedIn(nodes)
\* The line has this object, or is about to hear of it.
Given(i, n) ==
  \/ nodes[i].gdb = n
  \/ \E m \in Range(down) : m.type = "response" /\ m.ok /\ m.req.kind = "evaluate" /\ m.req.node = i /\ m.req.expr = n
Unwatched(ns) == {i \in ListedIn(ns) : ns[i].gdb = Blank}

\* refresh of some lines, one request after the other.
Evaluations(is, ns, batch) ==
  LET line == SetToSortSeq(is, <)
  IN  [k \in DOMAIN line |-> Request("evaluate", line[k], ns[line[k]].expr, Blank, {}, batch)]

\* A number that tells the requests of one refresh from all others.
NewBatch == CHOOSE b \in 1 .. Cardinality(Outstanding) + 1 : \A r \in Outstanding : r.batch # b

Without(f, names) == [n \in DOMAIN f \ names |-> f[n]]
With(f, g) == [n \in DOMAIN f \cup DOMAIN g |-> IF n \in DOMAIN g THEN g[n] ELSE f[n]]

-----------------------------------------------------------------------------
(* gdb and the commands of the monitor *)

\* What -var-update reports of some variable objects.
Changed(names) == [n \in {n \in names \cap DOMAIN vars : vars[n] # mem[n]} |-> mem[n]]

Updates(q) == Len(SelectSeq(q, LAMBDA c : c = "update"))

\* updateVariables, up to its first await.
StartUpdate(q) ==
  /\ updating' = TRUE
  /\ gdbq' = Append(q, "update")

Asks(at, q) ==
  /\ current' = [current EXCEPT !.at = at]
  /\ gdbq' = Append(q, "task")

Answers(at) ==
  /\ Calm
  /\ gdbq # << >> /\ Head(gdbq) = "task"
  /\ current.at = at

\* sendResponse, and the `finally' that runs at once behind it.
Respond(ok, val) ==
  /\ down' = Append(down, Response(current, ok, val))
  /\ current' = Blank
  /\ handling' = FALSE

\* A request begins; one that is not of the live watch does not wait for updatePromise.
Handled(r, q) ==
  IF r.kind = "other" THEN [r EXCEPT !.at = "elsewhere"]
  ELSE [r EXCEPT !.at = "waiting", !.waits = Updates(q)]

-----------------------------------------------------------------------------
(* The adapter takes requests *)

\* A continue turns away what is still queued.
Arrives ==
  /\ Calm
  /\ up # << >>
  /\ LET r == Head(up)
         refused == IF r.kind = "continue" THEN queue ELSE << >>
     IN  /\ up' = Tail(up)
         /\ queue' = IF r.kind = "continue" THEN <<r>> ELSE Append(queue, r)
         /\ down' = down \o [k \in DOMAIN refused |-> Response(refused[k], FALSE, 0)]
         /\ doubt' = doubt \cup Misses({q.node : q \in {q \in Range(refused) : q.kind = "evaluate"}}, "refused")
  /\ UNCHANGED <<targetVars, used, gdbVars, flagVars, updateVars, storeVars, current, viewVars, leaked, late>>

\* onRunning: startTimer does nothing before the live gdb is connected.
Runs ==
  /\ current = Blank /\ queue # << >> /\ Head(queue).kind = "continue"
  /\ queue' = Tail(queue)
  /\ running' = TRUE
  /\ timer' = (timer \/ enabled)
  /\ late' = (late /\ ~enabled)
  /\ UNCHANGED <<mem, used, gdbVars, enabled, updateVars, storeVars, up, current, down, viewVars, doubt, leaked>>

Takes ==
  /\ current = Blank /\ queue # << >> /\ Head(queue).kind # "continue"
  /\ current' = Handled(Head(queue), gdbq)
  /\ queue' = Tail(queue)
  /\ handling' = (handling \/ Head(queue).kind # "other")
  /\ UNCHANGED <<targetVars, used, gdbVars, flagVars, updating, chained, storeVars, up, down, viewVars, history>>

Ready(kind) == current # Blank /\ current.kind = kind /\ current.at = "waiting" /\ current.waits = 0

\* The session answers a request of another view.
Serves ==
  /\ Calm
  /\ current # Blank /\ current.at = "elsewhere"
  /\ current' = Blank
  /\ UNCHANGED <<targetVars, used, gdbVars, flagVars, updateVars, storeVars, up, queue, down, viewVars, history>>

Registers ==
  /\ Ready("register")
  /\ Respond(TRUE, 0)
  /\ UNCHANGED <<targetVars, used, gdbVars, flagVars, updating, chained, storeVars, up, queue, viewVars, history>>

\* evaluateExpression: the variable object of the expression is made or updated.
Evaluates ==
  /\ Ready("evaluate")
  /\ Asks(IF current.expr \in DOMAIN keys THEN "refreshing" ELSE "creating", gdbq)
  /\ UNCHANGED <<targetVars, used, vars, flagVars, updateVars, storeVars, up, queue, down, viewVars, history>>

\* A write to a line without a variable object goes the way of setExpression.
Writes ==
  /\ Ready("write")
  /\ Asks(IF current.name \in objs THEN "assigning" ELSE IF current.expr \in DOMAIN keys THEN "setting" ELSE "declaring", gdbq)
  /\ UNCHANGED <<targetVars, used, vars, flagVars, updateVars, storeVars, up, queue, down, viewVars, history>>

\* deleteLiveGdbVariables: one name after the other; the handle goes first.
DeleteNext(names, known, q) ==
  \/ /\ names \cap known = {}
     /\ Respond(TRUE, 0)
     /\ gdbq' = q
     /\ UNCHANGED keys
  \/ \E n \in names \cap known :
       /\ current' = [current EXCEPT !.at = "deleting", !.name = n, !.names = names \ {n}]
       /\ gdbq' = Append(q, "task")
       /\ keys' = Without(keys, {n})
       /\ UNCHANGED <<handling, down>>

Deletes ==
  /\ Ready("delete")
  /\ DeleteNext(current.names, objs, gdbq)
  /\ UNCHANGED <<targetVars, used, vars, flagVars, updating, chained, pvr, objs, up, queue, viewVars, history>>

-----------------------------------------------------------------------------
(* gdb answers the request *)

\* -var-create; what it says of address and size is asked for next.
Creates ==
  /\ Answers("creating")
  /\ LET made == [n \in {current.expr} |-> mem[n]]
     IN  /\ vars' = With(vars, made)
         /\ keys' = With(keys, made)
         /\ objs' = objs \cup {current.expr}
         /\ current' = [current EXCEPT !.at = "querying", !.val = mem[current.expr]]
         /\ gdbq' = Append(Tail(gdbq), "task")
  /\ UNCHANGED <<targetVars, used, flagVars, updateVars, pvr, up, queue, down, viewVars, history>>

\* Address, whether it can be edited, size: commands of their own, two of them here.
Queries ==
  /\ Answers("querying")
  /\ Asks("sizing", Tail(gdbq))
  /\ UNCHANGED <<targetVars, used, vars, flagVars, updateVars, storeVars, up, queue, down, viewVars, history>>

Evaluated ==
  /\ Answers("sizing")
  /\ Respond(TRUE, current.val)
  /\ gdbq' = Tail(gdbq)
  /\ UNCHANGED <<targetVars, used, vars, flagVars, updating, chained, storeVars, up, queue, viewVars, history>>

\* An object gdb knows already: its value is what the container last took down.
Refreshed ==
  /\ Answers("refreshing")
  /\ LET news == Changed({current.expr})
     IN  /\ vars' = With(vars, news)
         /\ keys' = With(keys, news)
         /\ Respond(current.expr \in DOMAIN vars, keys'[current.expr])
         /\ gdbq' = Tail(gdbq)
         /\ doubt' = doubt \cup Misses(IF keys'[current.expr] = mem[current.expr] THEN {} ELSE {current.node}, "stale")
  /\ UNCHANGED <<targetVars, used, flagVars, updating, chained, pvr, objs, up, queue, viewVars, leaked, late>>

Deleted ==
  /\ Answers("deleting")
  /\ vars' = Without(vars, {current.name})
  /\ objs' = objs \ {current.name}
  /\ DeleteNext(current.names, objs', Tail(gdbq))
  /\ doubt' = doubt \cup Misses({i \in Listed : Given(i, current.name)}, "deleted")
  /\ UNCHANGED <<targetVars, used, flagVars, updating, chained, pvr, up, queue, viewVars, leaked, late>>

-----------------------------------------------------------------------------
(* Writing a value *)

Written(n) == [mem EXCEPT ![n] = @ + 1]

\* A write that no update will follow while the target is stopped.
Watching(n) == {i \in Nodes : n \in {nodes[i].expr, nodes[i].gdb}}
Untold(n) == doubt' = doubt \cup Misses(IF running THEN {} ELSE Watching(n), "unasked")

\* setByGdbVarName has answered: the next request is under way before the `finally' of
\* this one, which then takes the flag of both away.
WriteEnds(q) ==
  LET next == queue # << >> /\ Head(queue).kind # "continue"
  IN  /\ down' = Append(down, Response(current, TRUE, 0))
      /\ current' = IF next THEN Handled(Head(queue), q) ELSE Blank
      /\ queue' = IF next THEN Tail(queue) ELSE queue
      /\ handling' = FALSE
      /\ IF SeesStop THEN StartUpdate(q) ELSE gdbq' = q /\ UNCHANGED updating

\* -var-assign is refused, or writes a value that reads back differently.
Unconfirmed ==
  /\ IF OpenOcd THEN Asks("poking", Tail(gdbq)) /\ UNCHANGED <<handling, down>>
     ELSE Respond(FALSE, 0) /\ gdbq' = Tail(gdbq)
  /\ UNCHANGED <<keys, queue, updating>>

Assigns ==
  /\ Answers("assigning")
  /\ \/ /\ mem' = Written(current.name)
        /\ keys' = With(keys, [n \in {current.name} |-> mem'[n]])
        /\ WriteEnds(Tail(gdbq))
        /\ IF SeesStop THEN UNCHANGED doubt ELSE Untold(current.name)
     \/ mem' = Written(current.name) /\ Unconfirmed /\ Untold(current.name)
     \/ Unconfirmed /\ UNCHANGED <<mem, doubt>>
  /\ UNCHANGED <<running, used, vars, flagVars, chained, pvr, objs, up, viewVars, leaked, late>>

\* The memory write through the monitor command of openocd.
Pokes ==
  /\ Answers("poking")
  /\ \/ /\ mem' = Written(current.name)
        /\ current' = [current EXCEPT !.at = "confirming", !.val = mem'[current.name]]
        /\ gdbq' = Append(Tail(gdbq), "task")
        /\ UNCHANGED <<handling, down>>
     \/ Respond(FALSE, 0) /\ gdbq' = Tail(gdbq) /\ UNCHANGED mem
  /\ UNCHANGED <<running, used, vars, flagVars, updating, chained, storeVars, up, queue, viewVars, history>>

\* What gdb reports of the written object is kept for the next update, in the place of
\* what an earlier write left there.
Confirms ==
  /\ Answers("confirming")
  /\ LET news == Changed({current.name})
         ok == current.name \in DOMAIN news /\ mem[current.name] = current.val
     IN  /\ vars' = With(vars, news)
         /\ pvr' = news
         /\ IF ok
            THEN keys' = With(keys, news) /\ WriteEnds(Tail(gdbq))
            ELSE Respond(FALSE, 0) /\ gdbq' = Tail(gdbq) /\ UNCHANGED <<keys, queue, updating>>
         /\ doubt' = doubt \cup Misses(UNION {Watching(n) : n \in DOMAIN pvr \ {current.name}}, "overwritten")
                           \cup Misses(IF running \/ (ok /\ SeesStop) THEN {} ELSE Watching(current.name), "unasked")
  /\ UNCHANGED <<targetVars, used, flagVars, chained, objs, up, viewVars, leaked, late>>

\* setExpression makes a variable object of its own and does not delete it.
Declares ==
  /\ Answers("declaring")
  /\ LET made == [n \in {current.expr} |-> mem[n]]
     IN  vars' = With(vars, made) /\ keys' = With(keys, made)
  /\ Asks("setting", Tail(gdbq))
  /\ leaked' = leaked \cup {current.expr}
  /\ UNCHANGED <<targetVars, used, flagVars, updateVars, pvr, objs, up, queue, down, viewVars, doubt, late>>

Sets ==
  /\ Answers("setting")
  /\ \/ mem' = Written(current.expr) /\ Respond(TRUE, 0) /\ Untold(current.expr)
     \/ Respond(FALSE, 0) /\ UNCHANGED <<mem, doubt>>
  /\ gdbq' = Tail(gdbq)
  /\ UNCHANGED <<running, used, vars, flagVars, updating, chained, storeVars, up, queue, viewVars, leaked, late>>

-----------------------------------------------------------------------------
(* Updates *)

Tick ==
  /\ Calm
  /\ timer /\ objs # {} /\ ~updating /\ ~handling
  /\ StartUpdate(gdbq)
  /\ UNCHANGED <<targetVars, used, vars, flagVars, handling, chained, storeVars, linkVars, viewVars, history>>

\* Faulty variant: what a write left for this update is forgotten.
ToldNews(news) == news

\* What the view is told: a later report of a name stands for an earlier one.
Told(news) == With(pvr, news)

\* updatePromise is resolved: whoever waits for it goes on.
UpdateOver(told) ==
  /\ updating' = FALSE
  /\ chained' = [c \in DOMAIN chained |-> chained[c] - 1]
  /\ current' = IF current # Blank /\ current.waits > 0 THEN [current EXCEPT !.waits = @ - 1] ELSE current

\* -var-update of all objects is answered.
UpdateAnswered ==
  /\ Calm
  /\ gdbq # << >> /\ Head(gdbq) = "update"
  /\ LET news == Changed(DOMAIN vars)
         told == Told(news)
     IN  /\ vars' = With(vars, news)
         /\ down' = IF told = Nothing THEN down ELSE Append(down, [type |-> "updates", news |-> told])
         /\ UpdateOver(told)
  /\ doubt' = {d \in doubt : d[2] # "unasked"}
  /\ pvr' = Nothing
  /\ gdbq' = Tail(gdbq)
  /\ UNCHANGED <<targetVars, used, flagVars, handling, keys, objs, up, queue, viewVars, leaked, late>>

ChainedUpdate ==
  /\ \E c \in DOMAIN chained : chained[c] = 0 /\ chained' = RemoveAt(chained, c)
  /\ StartUpdate(gdbq)
  /\ UNCHANGED <<targetVars, used, vars, flagVars, handling, storeVars, linkVars, viewVars, history>>

\* The target stops: the timer with it, and what it left behind is read once more.
Halts ==
  /\ Calm
  /\ session /\ running
  /\ Uses("halts", MaxHalts)
  /\ running' = FALSE
  /\ timer' = FALSE
  /\ IF updating THEN chained' = Append(chained, Updates(gdbq)) /\ UNCHANGED <<updating, gdbq>>
     ELSE IF enabled THEN StartUpdate(gdbq) /\ UNCHANGED chained
     ELSE UNCHANGED <<updating, gdbq, chained>>
  /\ UNCHANGED <<mem, vars, enabled, handling, storeVars, linkVars, viewVars, history>>

Changes(e) ==
  /\ running
  /\ Uses("changes", MaxChanges)
  /\ mem' = [mem EXCEPT ![e] = @ + 1]
  /\ UNCHANGED <<running, gdbVars, flagVars, updateVars, storeVars, linkVars, viewVars, history>>

-----------------------------------------------------------------------------
(* The view hears from the adapter *)

\* refresh: every line without a variable object is evaluated, also one that is being
\* evaluated.
Refresh(ns, registered, batch) ==
  up' = up \o Evaluations(IF registered THEN Unwatched(ns) ELSE {}, ns, batch)

\* deleteGdbVars.
Deletion(names) == IF names = {} THEN << >> ELSE <<Request("delete", 0, Blank, Blank, names, 0)>>

\* The last answer of a refresh that an update began lets the deletions go.
BatchEnds(r) ==
  IF r.batch > 0 /\ \A o \in Outstanding \ {r} : o.batch # r.batch
  THEN up' = up \o Deletion(doomed) /\ doomed' = {}
  ELSE UNCHANGED <<up, doomed>>

HearsValue ==
  /\ down # << >> /\ Head(down).type = "response" /\ Head(down).req.kind = "evaluate"
  /\ LET m == Head(down)
         i == m.req.node
     IN  /\ IF m.ok
            THEN /\ nodes' = [nodes EXCEPT ![i].shown = m.val, ![i].gdb = m.req.expr]
                 /\ map' = With(map, [n \in {m.req.expr} |-> i])
            ELSE UNCHANGED <<nodes, map>>
         /\ BatchEnds(m.req)
         /\ doubt' = (doubt \ (IF m.ok THEN Misses({i}, "refused") ELSE {}))
                      \cup Misses(IF m.ok /\ m.req.expr # nodes[i].expr THEN {i} ELSE {}, "crossed")
  /\ down' = Tail(down)
  /\ UNCHANGED <<targetVars, used, gdbVars, flagVars, updateVars, storeVars, queue, current, session, liveId, leaked, late>>

\* A deletion that was turned away is tried again with the next update.
HearsDeleted ==
  /\ down # << >> /\ Head(down).type = "response" /\ Head(down).req.kind \in {"delete", "write", "other"}
  /\ LET m == Head(down) IN doomed' = IF m.ok THEN doomed ELSE doomed \cup m.req.names
  /\ down' = Tail(down)
  /\ UNCHANGED <<targetVars, used, gdbVars, flagVars, updateVars, storeVars, up, queue, current, session, liveId, nodes, map, history>>

HearsRegistered ==
  /\ down # << >> /\ Head(down).type = "response" /\ Head(down).req.kind = "register"
  /\ IF Head(down).ok THEN liveId' = TRUE /\ Refresh(nodes, TRUE, 0) ELSE UNCHANGED <<liveId, up>>
  /\ down' = Tail(down)
  /\ UNCHANGED <<targetVars, used, gdbVars, flagVars, updateVars, storeVars, queue, current, session, nodes, map, doomed, history>>

HearsConnected ==
  /\ down # << >> /\ Head(down).type = "connected"
  /\ up' = Append(up, Plain("register"))
  /\ down' = Tail(down)
  /\ UNCHANGED <<targetVars, used, gdbVars, flagVars, updateVars, storeVars, queue, current, viewVars, history>>

\* receivedVariableUpdates: names the view does not know are passed over.
HearsUpdates ==
  /\ down # << >> /\ Head(down).type = "updates"
  /\ LET news == Head(down).news
         known == DOMAIN news \cap DOMAIN map
         ns == [i \in Nodes |-> LET mine == {n \in known : map[n] = i}
                                IN  IF mine = {} THEN nodes[i] ELSE [nodes[i] EXCEPT !.shown = news[CHOOSE n \in mine : TRUE]]]
         asked == known # {} /\ liveId /\ Unwatched(nodes) # {}
     IN  /\ nodes' = ns
         /\ IF asked
            THEN Refresh(ns, TRUE, NewBatch) /\ UNCHANGED doomed
            ELSE /\ up' = up \o (IF liveId THEN Deletion(doomed) ELSE << >>)
                 /\ doomed' = IF liveId THEN {} ELSE doomed
         /\ doubt' = doubt \cup Misses({i \in Listed : nodes[i].expr \in DOMAIN news \ known}
                                 \cup {q.node : q \in {q \in Evaluating : q.expr \in DOMAIN news \ known}}, "early")
  /\ down' = Tail(down)
  /\ UNCHANGED <<targetVars, used, gdbVars, flagVars, updateVars, storeVars, queue, current, session, liveId, map, leaked, late>>

-----------------------------------------------------------------------------
(* The user, and the session *)

Free(e) == \A i \in Listed : nodes[i].expr # e

Adds(e) ==
  /\ Free(e)
  /\ UserActs
  /\ \E i \in Nodes :
       /\ nodes[i].at = "unused" /\ \A j \in Nodes : nodes[j].at = "unused" => i <= j
       /\ nodes' = [nodes EXCEPT ![i] = Line(e)]
       /\ Refresh(nodes', session /\ liveId, 0)
  /\ UNCHANGED <<targetVars, gdbVars, flagVars, updateVars, storeVars, queue, current, down, session, liveId, map, doomed, history>>

\* Faulty variant: a line goes without its variable object being put down for deletion.
ForgetFromMap(name) ==
  /\ map' = Without(map, {name})
  /\ UNCHANGED doomed

\* removeFromMap.
RemoveFromMap(name) ==
  /\ map' = Without(map, {name})
  /\ doomed' = IF liveId /\ name # Blank THEN doomed \cup {name} ELSE doomed

\* What a line that goes while it is being evaluated leaves behind.
LeftBehind(i) == {r.expr : r \in {r \in Evaluating : r.node = i}}

\* onDelete.
Removes(i) ==
  /\ i \in Listed
  /\ UserActs
  /\ RemoveFromMap(nodes[i].gdb)
  /\ nodes' = [nodes EXCEPT ![i].at = "gone"]
  /\ Refresh(nodes', session /\ liveId, 0)
  /\ leaked' = leaked \cup LeftBehind(i)
  /\ UNCHANGED <<targetVars, gdbVars, flagVars, updateVars, storeVars, queue, current, down, session, liveId, doubt, late>>

\* rename.
Renamed(line, e) == [line EXCEPT !.expr = e, !.shown = Blank, !.gdb = Blank]

\* onEditName, with the refresh of this one line.
Renames(i, e) ==
  /\ i \in Listed /\ Free(e)
  /\ UserActs
  /\ RemoveFromMap(nodes[i].gdb)
  /\ nodes' = [nodes EXCEPT ![i] = Renamed(nodes[i], e)]
  /\ up' = up \o Evaluations(IF session /\ liveId THEN {i} ELSE {}, nodes', 0)
  /\ leaked' = leaked \cup LeftBehind(i)
  /\ UNCHANGED <<targetVars, gdbVars, flagVars, updateVars, storeVars, queue, current, down, session, liveId, doubt, late>>

\* onEditValue.
Edits(i) ==
  /\ i \in Listed /\ liveId
  /\ UserActs
  /\ up' = Append(up, Request("write", i, nodes[i].expr, nodes[i].gdb, {}, 0))
  /\ UNCHANGED <<targetVars, gdbVars, flagVars, updateVars, storeVars, queue, current, down, viewVars, history>>

\* A request of another view of the same session, a stack trace for one.
AsksOther ==
  /\ UserActs
  /\ up' = Append(up, Plain("other"))
  /\ UNCHANGED <<targetVars, gdbVars, flagVars, updateVars, storeVars, queue, current, down, viewVars, history>>

Continues ==
  /\ session /\ ~running
  /\ \A r \in Outstanding : r.kind # "continue"
  /\ up' = Append(up, Plain("continue"))
  /\ UNCHANGED <<targetVars, used, gdbVars, flagVars, updateVars, storeVars, queue, current, down, viewVars, history>>

\* debugSessionStarted.
SessionStarts ==
  /\ ~session
  /\ Uses("sessions", MaxSessions)
  /\ session' = TRUE
  /\ nodes' = [i \in Nodes |-> [nodes[i] EXCEPT !.gdb = Blank, !.shown = Blank]]
  /\ map' = Nothing
  /\ doomed' = {}
  /\ doubt' = {} /\ leaked' = {} /\ late' = FALSE
  /\ UNCHANGED <<targetVars, gdbVars, flagVars, updateVars, storeVars, linkVars, liveId>>

\* The live gdb has reached the target, which may run already.
Connects ==
  /\ Calm
  /\ session /\ ~enabled
  /\ enabled' = TRUE
  /\ down' = Append(down, [type |-> "connected"])
  /\ late' = running
  /\ UNCHANGED <<targetVars, used, gdbVars, timer, updateVars, storeVars, up, queue, current, viewVars, doubt, leaked>>

\* debugSessionTerminated; adapter and live gdb are gone.
SessionEnds ==
  /\ session
  /\ session' = FALSE
  /\ liveId' = FALSE
  /\ Fresh
  /\ UNCHANGED <<targetVars, used, nodes, map, doomed, history>>

-----------------------------------------------------------------------------

Microtasks == Runs \/ Takes \/ Registers \/ Evaluates \/ Writes \/ Deletes \/ ChainedUpdate

GdbStep ==
  \/ Creates \/ Queries \/ Evaluated \/ Refreshed \/ Deleted \/ Assigns \/ Pokes \/ Confirms \/ Declares \/ Sets
  \/ UpdateAnswered

ViewStep == HearsValue \/ HearsDeleted \/ HearsRegistered \/ HearsConnected \/ HearsUpdates

UserStep ==
  \/ \E e \in Exprs : Adds(e)
  \/ \E i \in Nodes : Removes(i) \/ Edits(i) \/ \E e \in Exprs : Renames(i, e)
  \/ Continues \/ AsksOther

Next ==
  \/ Arrives \/ Serves \/ Microtasks \/ GdbStep \/ Tick \/ ViewStep \/ UserStep
  \/ Halts
  \/ \E e \in Exprs : Changes(e)
  \/ SessionStarts \/ Connects \/ SessionEnds

Spec == Init /\ [][Next]_watchVars

\* Both event loops keep turning, gdb answers and the interval of the timer passes.
Fairness ==
  /\ WF_watchVars(Arrives) /\ WF_watchVars(Serves) /\ WF_watchVars(Microtasks) /\ WF_watchVars(GdbStep)
  /\ WF_watchVars(Tick) /\ WF_watchVars(ViewStep)

FairSpec == Spec /\ Fairness

-----------------------------------------------------------------------------
(* Properties *)

\* A line that has a variable object in the view has one in gdb.  Not so for an
\* expression that was added again while its old object was still to be deleted ("deleted"),
\* nor for a line renamed before its answer came ("crossed").
WatchedIsBacked ==
  \A i \in Listed \ Missing({"deleted", "crossed"}) : liveId /\ nodes[i].gdb # Blank => nodes[i].gdb \in DOMAIN vars

\* Every variable object is in use, on its way to its line, or put down for deletion.
\* Not so for a line that goes while it is evaluated, nor for the object that a write to a
\* line without one makes (`leaked').
NothingLeaks ==
  \A n \in DOMAIN vars \ leaked :
    \/ \E i \in Listed : nodes[i].gdb = n
    \/ n \in doomed
    \/ \E r \in Outstanding : (r.kind = "evaluate" /\ r.expr = n) \/ n \in r.names \cup {r.name}

\* View and gdb agree on the variable objects there are (removeFromMap, deleteGdbVars,
\* receivedVariableUpdates): a line whose object is gone is named by no update and passed
\* over by refresh, and an orphan is read from the target with every update of the session.
ObjectsBalance == WatchedIsBacked /\ NothingLeaks

\* Once nothing changes any more every line shows the value of its expression, whatever
\* evaluations, updates, writes, stops and deletions crossed on the way (updateVariables,
\* evaluateRequestLive, onStopped).  Except for the lines that `doubt` names, for one of the
\* seven reasons that stand beside Misses, of which an update that overtakes the first answer
\* ("early") and an evaluation beside another ("stale") come of overlaps; and while the target
\* runs since before the live gdb had connected (`late`), when no timer updates anything.
ShowsTheTruth(i) == nodes[i].gdb = nodes[i].expr /\ nodes[i].shown = mem[nodes[i].expr]
Whys == {"refused", "unasked", "early", "stale", "crossed", "deleted", "overwritten"}
ShownCatchesUp ==
  <>[](liveId /\ ~(running /\ late) => \A i \in Listed \ Missing(Whys) : ShowsTheTruth(i))

=============================================================================
