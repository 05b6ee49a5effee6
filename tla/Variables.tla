-------------------------------- MODULE Variables --------------------------------
(***************************************************************************)
(* Frames, scopes and variables of a stopped target (variables.ts,         *)
(* var-scopes.ts, shared/handles.ts and the handlers of gdb-session.ts):   *)
(* the adapter gives out numbers, the references of the debug protocol,    *)
(* and keeps a variable object of gdb for each variable it has shown.      *)
(*                                                                         *)
(* Requests are served one at a time (SeqDebugSession), so that a handler, *)
(* with all the commands it gives to gdb, is one step.  The hazard is in   *)
(* their sequence: what is kept from one stop to the next, and which       *)
(* number stands for what.                                                 *)
(***************************************************************************)
EXTENDS Integers, Sequences, FiniteSets, SequencesExt, Functions

CONSTANTS
  Funs,   \* functions of the firmware
  LocalsOf,     \* function -> its locals, in order
  FileOf,       \* function -> its source file, as <<file, fullname>>
  StaticsOf,    \* fullname -> the static variables of the file
  Globals,      \* the global variables
  Structs,      \* the variables that have a member
  Group, Register, Member,  \* the register group, its register; the member
  Cold,         \* the stack at the first stop, innermost function first
  MaxStops,     \* bound: stops
  MaxDepth,     \* bound: frames
  Watched,      \* the expressions the client evaluates and sets
  MaxAsks       \* bound: requests about variables, stop by stop

VARIABLES
  run,         \* "stopped", or what it runs for: "steps", "continues"
  stack,       \* its frames, innermost first: [fun, act]
  val,         \* place -> the value there, for the places there have been
  stops,       \* stops so far
  asks,        \* requests about variables since the stop
  frames,      \* frameHandles: a handle is a position
  objects,     \* container -> variableHandles, likewise
  named,       \* container -> gdbVarNameToObjMap: name -> the parent of its object
  gdbObjs,     \* name -> gdb's variable object
  cached,      \* registerValuesMap: frame -> value
  fileMap,     \* files of the session: an id is a position, less one
  fileIds,     \* files of the container of the statics: an id is a position
  given,       \* references the client has been given since the stop, and for what
  answer,      \* the variables in the last response
  listed,      \* the reference whose variables they are, or 0
  leaked,      \* objects of gdb that nobody will delete (history)
  refused,     \* an item of the view could not be set (history)
  moved,       \* levels that another call has taken by a step (history)
  stale        \* the target was stepped, or a register set, since the last continue (history)

targetVars  == <<run, stack, val, stops>>
handleVars  == <<frames, objects>>
objectVars  == <<named, gdbObjs, cached>>
fileVars    == <<fileMap, fileIds>>
historyVars == <<leaked, refused, moved, stale>>
varVars     == <<targetVars, asks, handleVars, objectVars, fileVars, given, answer, listed, historyVars>>

-----------------------------------------------------------------------------
(* References *)

\* VariableScope.
Global == 0
Static == 1
Local == 2
Registers == 3
Watch == 5
ConsoleMsg == 6
VariableTypeMask == 8
ScopeSize == 16

Containers == {Global, Static, Local, Watch, Registers}
OfFrame    == {Local, Watch, Registers}

Unknown == [kind |-> "unknown"]
Console == [kind |-> "console"]
FrameRef(a, b, scope) == [kind |-> "frame", of |-> <<a, b, scope>>]
VarOf(place)          == [kind |-> "variable", place |-> place]
Key(parent, name, of) == [parent |-> parent, name |-> name, of |-> of]

\* createVariable: the handle, with the scope in its lower bits.
VarRef(handle, c) == handle * ScopeSize + VariableTypeMask + c

IsVariable(ref) == (ref \div VariableTypeMask) % 2 = 1

\* getVarOrFrameInfo.
VarOrFrame(ref) ==
  IF IsVariable(ref)
  THEN LET c == ref % VariableTypeMask
           h == ref \div ScopeSize
       IN  IF c \in Containers /\ h \in DOMAIN objects[c] THEN VarOf(objects[c][h].place) ELSE Unknown
  ELSE IF ref \in DOMAIN frames THEN frames[ref] ELSE Unknown

\* variablesRequest: a reference may also be to the output of a gdb command.
Denotes(ref) == IF ref % ScopeSize = ConsoleMsg THEN Console ELSE VarOrFrame(ref)

Place(kind, owner, name) == [kind |-> kind, owner |-> owner, name |-> name]
Added(seq, item)  == IF Contains(seq, item) THEN seq ELSE Append(seq, item)
Number(seq, item) == CHOOSE i \in DOMAIN seq : seq[i] = item

Thread == 1
LevelFrame(level, c) == <<Thread, level, VariableTypeMask + c>>

Nowhere == [x \in {} |-> x]
Without(f, names) == Restrict(f, DOMAIN f \ names)
With(f, g) == [x \in DOMAIN f \cup DOMAIN g |-> IF x \in DOMAIN g THEN g[x] ELSE f[x]]

\* What is shown for a structure, and for a variable that has gone.
Whole == -1
Lost  == -2
NoName == [member |-> FALSE]

-----------------------------------------------------------------------------
(* The target *)

FrameAt(level) == stack[level + 1]
Levels == 0 .. Len(stack) - 1

FramePlaces(st) ==
  {Place("local", f.act, n) : f \in Range(st), n \in UNION {Range(LocalsOf[g]) : g \in Funs}}
  \cup {Place("register", f.act, Register) : f \in Range(st)}
FixedPlaces ==
  {Place("global", 0, n) : n \in Range(Globals)}
  \cup UNION {{Place("static", file, n) : n \in Range(StaticsOf[file])} : file \in DOMAIN StaticsOf}

Alive(place) == place.kind \in {"global", "static"} \/ \E f \in Range(stack) : f.act = place.owner

VarInit ==
  /\ run = "stopped"
  /\ stack = [i \in DOMAIN Cold |-> [fun |-> Cold[i], act |-> i]]
  /\ val = [p \in FixedPlaces \cup FramePlaces(stack) |-> 1]
  /\ stops = 1
  /\ asks = 0
  /\ frames = << >>
  /\ objects = [c \in Containers |-> << >>]
  /\ named = [c \in Containers |-> Nowhere]
  /\ gdbObjs = Nowhere
  /\ cached = Nowhere
  /\ fileMap = << >>
  /\ fileIds = << >>
  /\ given = {}
  /\ answer = << >>
  /\ listed = 0
  /\ leaked = {}
  /\ refused = FALSE
  /\ moved = {}
  /\ stale = FALSE

Asks ==
  /\ run = "stopped"
  /\ asks < MaxAsks[stops]
  /\ asks' = asks + 1

-----------------------------------------------------------------------------
(* Variable objects *)

\* createGdbName, and gdb's name of a member.
Name(c, key)     == [in |-> c, key |-> key, member |-> FALSE]
MemberName(name) == [name EXCEPT !.member = TRUE]

\* What a handler works on: it makes and updates objects one after the other.
Env == [objects |-> objects, named |-> named, gdb |-> gdbObjs, out |-> << >>]

Becomes(e) ==
  /\ objects' = e.objects
  /\ named' = e.named
  /\ gdbObjs' = e.gdb
  /\ answer' = e.out
  /\ given' = given \cup {[ref |-> i.ref, means |-> VarOf(i.place), level |-> i.level] : i \in {i \in Range(e.out) : i.ref # 0}}

\* A variable in a response: a structure, as a whole, has no value of its own.
Item(place, whole, got, old, level, ref) ==
  [place |-> place, whole |-> whole, got |-> got, old |-> old, level |-> level, ref |-> ref]

Has(e, c, key)    == \E i \in DOMAIN e.objects[c] : e.objects[c][i].key = key
HandleOf(e, c, key) == CHOOSE i \in DOMAIN e.objects[c] : e.objects[c][i].key = key
IsStruct(place)   == place.name \in Structs
Watches(e, name, place, seen) ==
  [e EXCEPT !.gdb = With(@, [n \in {name} |-> [place |-> place, seen |-> seen, set |-> FALSE]])]

\* addObject: a key that has a handle keeps it, and its object.
AddObject(e, c, key, place, name, value) ==
  IF Has(e, c, key) THEN e
  ELSE [e EXCEPT !.objects[c] = Append(@, [key |-> key, place |-> place, name |-> name, value |-> value])]

\* parseMiVariable, createVariable.
Parsed(e, c, key, place, name, whole, got) ==
  LET made == AddObject(e, c, key, place, name, got)
      ref  == IF whole THEN VarRef(HandleOf(made, c, key), c) ELSE 0
  IN  [made EXCEPT !.named[c] = With(@, [n \in {name} |-> key.parent]),
                   !.out = Append(@, Item(place, whole, got, FALSE, key.of[2], ref))]

\* -var-create, which gdb refuses for a name it has.
Create(e, c, key, place) ==
  LET name == Name(c, key)
  IN  IF name \in DOMAIN e.gdb THEN e
      ELSE Parsed(Watches(e, name, place, val[place]), c, key, place, name, IsStruct(place),
                  IF IsStruct(place) THEN Whole ELSE val[place])

\* What -var-update reports: of a structure, what has changed in it.
Reports(e, name, place) ==
  \E n \in {IF IsStruct(place) THEN MemberName(name) ELSE name} \cap DOMAIN e.gdb :
    e.gdb[n].set \/ e.gdb[n].seen # val[place]

Sees(g, name, place) ==
  [n \in DOMAIN g |-> IF n \in {name, MemberName(name)} THEN [g[n] EXCEPT !.seen = val[place], !.set = FALSE] ELSE g[n]]

\* applyChanges, with the first change that is reported.
Applied(e, o) ==
  IF ~Alive(o.place) THEN Lost ELSE IF Reports(e, o.name, o.place) THEN val[o.place] ELSE o.value

\* -var-update --all-values.
Update(e, c, h, place) ==
  LET o   == e.objects[c][h]
      got == Applied(e, o)
  IN  [e EXCEPT !.objects[c][h].value = got,
                !.gdb = IF Alive(o.place) THEN Sees(@, o.name, o.place) ELSE @,
                !.out = Append(@, Item(place, IsStruct(place), got, TRUE, o.key.of[2],
                                       IF IsStruct(place) THEN VarRef(h, c) ELSE 0))]

\* One variable of a list: its object is updated, or made.
ListOne(e, c, key, place) ==
  IF Has(e, c, key) THEN Update(e, c, HandleOf(e, c, key), place) ELSE Create(e, c, key, place)

-----------------------------------------------------------------------------
(* Requests *)

GivesFrames(all) ==
  /\ frames' = FoldLeft(Added, frames, all)
  /\ given' = given \cup {[ref |-> Number(frames', f), means |-> f, level |-> f.of[2]] : f \in Range(all)}
  /\ answer' = << >>
  /\ listed' = 0

\* stackTraceRequest, when the threads have been asked for.
StackTrace ==
  /\ run = "stopped" /\ given = {}
  /\ GivesFrames([i \in DOMAIN stack |-> FrameRef(Thread, i - 1, Local)])
  /\ UNCHANGED <<targetVars, asks, objects, objectVars, fileVars, historyVars>>

\* scopesRequest.
Scopes(k) ==
  /\ run = "stopped"
  /\ k.means.kind = "frame" /\ k.means.of[3] = Local
  /\ LET level == frames[k.ref].of[2]
         file  == FileOf[FrameAt(level).fun]
         ids   == Added(Added(fileMap, file[1]), file[2])
     IN  /\ fileMap' = ids
         /\ GivesFrames(<<FrameRef(Thread, level, Local),
                          FrameRef(Number(ids, file[1]) - 1, Number(ids, file[2]) - 1, Static),
                          FrameRef(0, 0, Global),
                          FrameRef(Thread, level, Registers)>>)
  /\ UNCHANGED <<targetVars, asks, objects, objectVars, fileIds, historyVars>>

\* getLocalVariables.
ListLocals(level) ==
  LET f == FrameAt(level)
      one(e, n) == ListOne(e, Local, Key(0, n, LevelFrame(level, Local)), Place("local", f.act, n))
  IN  Becomes(FoldLeft(one, Env, LocalsOf[f.fun])) /\ UNCHANGED <<cached, fileIds>>

\* getGlobalVariables.
GlobalFile == <<1, 0, VariableTypeMask + Global>>
ListGlobals ==
  LET one(e, n) == ListOne(e, Global, Key(0, n, GlobalFile), Place("global", 0, n))
  IN  Becomes(FoldLeft(one, Env, Globals)) /\ UNCHANGED <<cached, fileIds>>

\* getStaticVariables: ids of the session name the file, the container has ids of its own.
ListStatics(fullFileId) ==
  LET file == fileMap[fullFileId + 1]
      ids  == Added(fileIds, file)
      one(e, n) == ListOne(e, Static, Key(0, n, <<Number(ids, file), 0, VariableTypeMask + Static>>),
                           Place("static", file, n))
  IN  /\ fileIds' = ids
      /\ Becomes(FoldLeft(one, Env, StaticsOf[file]))
      /\ UNCHANGED cached

\* getRegisterVariables: a group is an object gdb knows nothing of.
ListGroups(level) ==
  LET key   == Key(0, Group, LevelFrame(level, Registers))
      place == Place("group", FrameAt(level).act, Group)
      made  == AddObject(Env, Registers, key, place, NoName, Whole)
      ref   == VarRef(HandleOf(made, Registers, key), Registers)
  IN  Becomes([made EXCEPT !.out = <<Item(place, TRUE, Whole, FALSE, level, ref)>>]) /\ UNCHANGED <<cached, fileIds>>

\* Faulty variant: a register is a child of its group.
ChildRegisterKey(ref, level) == Key(ref, Register, LevelFrame(level, Registers))

\* getRegistersForGroup: the values of a frame are asked for once; a register has no
\* parent, so that it is deleted with the others.
RegisterKey(ref, level) == Key(0, Register, LevelFrame(level, Registers))
ListRegisters(ref, level) ==
  LET c     == Registers
      key   == RegisterKey(ref, level)
      name  == Name(c, key)
      place == Place("register", FrameAt(level).act, Register)
      at    == LevelFrame(level, c)
      value == IF at \in DOMAIN cached THEN cached[at] ELSE val[place]
      h     == HandleOf(Env, c, key)
      got   == IF Reports(Env, name, place) THEN value ELSE objects[c][h].value
  IN  /\ cached' = With(cached, [f \in {at} |-> value])
      /\ IF Has(Env, c, key)
         THEN Becomes([Watches(Env, name, place, val[place]) EXCEPT
                         !.objects[c][h].value = got, !.out = <<Item(place, FALSE, got, TRUE, level, 0)>>])
         ELSE Becomes(Parsed(Watches(Env, name, place, val[place]), c, key, place, name, FALSE, value))
      /\ UNCHANGED fileIds

\* varListChildren: the members are listed anew, with the values gdb last saw.
ListMembers(c, h) ==
  LET o    == objects[c][h]
      name == MemberName(o.name)
      seen == IF name \in DOMAIN gdbObjs THEN gdbObjs[name].seen ELSE val[o.place]
  IN  /\ Alive(o.place)
      /\ Becomes(Parsed(IF name \in DOMAIN gdbObjs THEN Env ELSE Watches(Env, name, o.place, seen),
                        c, Key(VarRef(h, c), Member, o.key.of), o.place, name, FALSE, seen))
      /\ UNCHANGED <<cached, fileIds>>

\* variablesRequest, getVariables.
ListVariables(k) ==
  /\ Asks
  /\ LET d == Denotes(k.ref)
         c == k.ref % VariableTypeMask
         h == k.ref \div ScopeSize
     IN  \/ d.kind = "frame" /\ d.of[3] = Local /\ ListLocals(d.of[2])
         \/ d.kind = "frame" /\ d.of[3] = Global /\ ListGlobals
         \/ d.kind = "frame" /\ d.of[3] = Static /\ ListStatics(d.of[2])
         \/ d.kind = "frame" /\ d.of[3] = Registers /\ ListGroups(d.of[2])
         \/ d.kind = "variable" /\ d.place.kind = "group" /\ ListRegisters(k.ref, objects[c][h].key.of[2])
         \/ d.kind = "variable" /\ d.place.kind # "group" /\ ListMembers(c, h)
         \/ /\ d.kind \in {"console", "unknown"}
            /\ answer' = << >>
            /\ UNCHANGED <<objects, objectVars, fileIds, given>>
  /\ listed' = k.ref
  /\ UNCHANGED <<targetVars, frames, fileMap, historyVars>>

\* The place an expression means in a frame: a local hides a global.
InFrame(level, n) ==
  IF n \in Range(LocalsOf[FrameAt(level).fun]) THEN Place("local", FrameAt(level).act, n) ELSE Place("global", 0, n)

Known(level, n) == n \in Range(LocalsOf[FrameAt(level).fun]) \cup Range(Globals)

\* evaluateExpression, of a watch or of what the user points at.
Evaluate(k, n) ==
  /\ Asks
  /\ k.means.kind = "frame" /\ k.means.of[3] = Local
  /\ LET d     == VarOrFrame(k.ref)
         level == d.of[2]
     IN  IF d.kind = "frame" /\ Known(level, n)
         THEN Becomes(ListOne(Env, Watch, Key(0, n, LevelFrame(level, Watch)), InFrame(level, n)))
         ELSE answer' = << >> /\ UNCHANGED <<objects, named, gdbObjs, given>>
  /\ listed' = 0
  /\ UNCHANGED <<targetVars, frames, cached, fileVars, historyVars>>

\* setVariable: the key of a variable of a list.
KeySet(ref, name, of) == Key(IF IsVariable(ref) /\ ref % VariableTypeMask # Registers THEN ref ELSE 0, name, of)

\* The frame part of it.
FrameSet(ref, d) ==
  IF IsVariable(ref) THEN objects[ref % VariableTypeMask][ref \div ScopeSize].key.of
                     ELSE <<d.of[1], d.of[2], VariableTypeMask + d.of[3]>>

Assigned == 100 * stops + asks

\* -var-assign, after which an update still reports a change.
Assign(e, c, h, item) ==
  LET o == e.objects[c][h]
  IN  /\ val' = [val EXCEPT ![e.gdb[o.name].place] = Assigned]
      /\ Becomes([e EXCEPT !.objects[c][h].value = Assigned,
                           !.gdb[o.name].seen = Assigned, !.gdb[o.name].set = TRUE,
                           !.out = <<[item EXCEPT !.got = Assigned, !.old = FALSE, !.ref = 0]>>])

\* setVariableRequest, for an item of the list that was shown last.
SetVariable(k, i) ==
  /\ Asks
  /\ i \in Range(answer) /\ ~i.whole /\ listed = k.ref
  /\ LET ref == k.ref
         d   == VarOrFrame(ref)
         c   == IF IsVariable(ref) THEN ref % VariableTypeMask ELSE d.of[3]
         key == KeySet(ref, IF IsVariable(ref) /\ c # Registers THEN Member ELSE i.place.name, FrameSet(ref, d))
     IN  IF d.kind # "unknown" /\ Has(Env, c, key)
         THEN /\ Assign(Env, c, HandleOf(Env, c, key), i)
              /\ stale' = (stale \/ c = Registers)
              /\ UNCHANGED refused
         ELSE /\ refused' = TRUE
              /\ answer' = << >>
              /\ UNCHANGED <<val, stale, objects, named, gdbObjs, given>>
  /\ UNCHANGED <<run, stack, stops, frames, cached, fileVars, listed, leaked, moved>>

\* setExpressionRequest: an object made for it is not in gdbVarNameToObjMap, so that
\* deleteObjectByGdbName does not find it.
SetExpression(k, n) ==
  /\ Asks
  /\ k.means.kind = "frame" /\ k.means.of[3] = Local /\ n \notin Structs
  /\ LET d     == VarOrFrame(k.ref)
         level == d.of[2]
         key   == Key(0, n, LevelFrame(level, Watch))
         name  == Name(Watch, key)
         place == InFrame(level, n)
         made  == AddObject(Watches(Env, name, place, val[place]), Watch, key, place, name, val[place])
         h     == HandleOf(made, Watch, key)
     IN  IF d.kind = "frame" /\ Known(level, n) /\ (Has(Env, Watch, key) \/ name \notin DOMAIN gdbObjs)
         THEN /\ Assign(IF Has(Env, Watch, key) THEN Env ELSE made, Watch, h, Item(place, FALSE, 0, FALSE, level, 0))
              /\ leaked' = IF Has(Env, Watch, key) THEN leaked ELSE leaked \cup {name}
         ELSE answer' = << >> /\ UNCHANGED <<val, objects, named, gdbObjs, given, leaked>>
  /\ listed' = 0
  /\ UNCHANGED <<run, stack, stops, frames, cached, fileVars, refused, moved, stale>>

-----------------------------------------------------------------------------
(* The target runs *)

Resumes(how) ==
  /\ run = "stopped"
  /\ stops < MaxStops
  /\ run' = how
  /\ given' = {}
  /\ answer' = << >>
  /\ listed' = 0
  /\ asks' = 0
  /\ UNCHANGED <<stack, val, stops, fileVars>>

\* Without a parent an object is deleted, and its members with it.
Roots(c) == {n \in DOMAIN named[c] : named[c][n] = 0}
Doomed   == UNION {Roots(c) \cup {MemberName(n) : n \in Roots(c)} : c \in OfFrame}

\* Faulty variant: the values of the registers are kept.
ClearKeepsValues ==
  /\ gdbObjs' = Without(gdbObjs, Doomed)
  /\ objects' = [c \in Containers |-> IF c \in OfFrame THEN << >> ELSE objects[c]]
  /\ named' = [c \in Containers |-> IF c \in OfFrame THEN Nowhere ELSE named[c]]
  /\ frames' = << >>
  /\ UNCHANGED cached

\* clearForContinue.
ClearForContinue ==
  /\ gdbObjs' = Without(gdbObjs, Doomed)
  /\ objects' = [c \in Containers |-> IF c \in OfFrame THEN << >> ELSE objects[c]]
  /\ named' = [c \in Containers |-> IF c \in OfFrame THEN Nowhere ELSE named[c]]
  /\ frames' = << >>
  /\ cached' = Nowhere

\* continueRequest.
ContinueRequest ==
  /\ Resumes("continues")
  /\ ClearForContinue
  /\ moved' = {} /\ stale' = FALSE
  /\ UNCHANGED <<leaked, refused>>

\* nextRequest, stepInRequest, stepOutRequest, a goto, `continue' in the console: all is kept.
Step ==
  /\ Resumes("steps")
  /\ stale' = TRUE
  /\ UNCHANGED <<handleVars, objectVars, leaked, refused, moved>>

\* Where the target may stop next.
NextStacks ==
  LET fresh == {[fun |-> f, act |-> Len(Cold) + stops] : f \in Funs}
  IN  {stack}
      \cup {<<f>> \o stack : f \in IF Len(stack) < MaxDepth THEN fresh ELSE {}}
      \cup (IF Len(stack) > 1 THEN {Tail(stack)} ELSE {})
      \cup {<<f>> \o Tail(stack) : f \in fresh}

\* stopEvent: all values have changed, or none.
Stops ==
  /\ run # "stopped"
  /\ run' = "stopped"
  /\ stops' = stops + 1
  /\ \E st \in NextStacks, changed \in BOOLEAN :
       /\ stack' = st
       /\ val' = [p \in FixedPlaces \cup FramePlaces(st) |->
                    IF changed \/ p \notin DOMAIN val THEN stops + 1 ELSE val[p]]
       /\ moved' = IF run = "continues" THEN {}
                   ELSE moved \cup {l \in 0 .. MaxDepth : l \notin Levels \/ l >= Len(st) \/ FrameAt(l) # st[l + 1]}
  /\ UNCHANGED <<asks, handleVars, objectVars, fileVars, given, answer, listed, leaked, refused, stale>>

VarNext ==
  \/ StackTrace
  \/ \E k \in given :
       \/ Scopes(k) \/ ListVariables(k)
       \/ \E i \in Range(answer) : SetVariable(k, i)
       \/ \E n \in Watched : Evaluate(k, n) \/ SetExpression(k, n)
  \/ ContinueRequest \/ Step \/ Stops

VarSpec == VarInit /\ [][VarNext]_varVars

-----------------------------------------------------------------------------
(* Properties *)

Truth(i) == IF i.whole THEN Whole ELSE val[i.place]

\* What is shown is what the target has, of the frame the client asks about: values and
\* objects kept from an earlier stop have been read again or thrown away
\* (clearForContinue, getLocalVariables, getRegistersForGroup).  Not so after a step,
\* which clears nothing, for registers and for the frame of another call; and not for a
\* structure that is listed again when a member has changed.
ShownIsTrue ==
  \A i \in Range(answer) :
    \/ i.got = Truth(i)
    \/ i.level \in moved
    \/ stale /\ i.place.kind = "register"
    \/ i.old /\ i.whole

\* A reference to a variable denotes, for as long as the client may use it, the variable it
\* was given for, although numbers are used again after each continue; and gdb has the
\* objects that the adapter knows of, and no others but what setExpression leaves
\* (createVariable, clear).  Excepted from the first are the levels that another call has
\* taken by a step, which clears nothing.
ObjectsHold ==
  /\ \A k \in given : k.means.kind = "variable" /\ k.level \notin moved => Denotes(k.ref) = k.means
  /\ \A c \in Containers : \A h \in DOMAIN objects[c] :
       objects[c][h].name = NoName \/ objects[c][h].name \in DOMAIN gdbObjs
  /\ DOMAIN gdbObjs = leaked \cup UNION {DOMAIN named[c] : c \in Containers}

\* A reference to a scope of a frame has the bit clear that says it is a variable's, and so
\* is not taken for one (the note on handles, addFrameInfo, getVarOrFrameInfo).
FramesAreTold == \A k \in given : k.means.kind = "frame" => VarOrFrame(k.ref) = k.means

\* An item of the Variables view can be set (setVariable).
ItemsCanBeSet == ~refused

=============================================================================
