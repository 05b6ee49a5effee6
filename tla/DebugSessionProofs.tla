--------------------------- MODULE DebugSessionProofs ---------------------------
(***************************************************************************)
(* Every request of a debug session is answered at most once, whatever     *)
(* the number of requests, breakpoints and faults of gdb.                  *)
(*                                                                         *)
(* AnsweredOnce is not inductive: that a handler which goes on after an    *)
(* await does not answer a second time follows from where it is, and that  *)
(* "continue" may answer what waits in the queue from nothing of it having *)
(* been started.  CountInv relates the answers to the places (Open) of a   *)
(* handler that has yet to answer; ComingInv and QueueInv keep what waits  *)
(* apart from what has been started.                                       *)
(*                                                                         *)
(* When a debug session is at rest, gdb has the breakpoints the adapter    *)
(* has on record, and the client has been told where the target is: for    *)
(* any number of requests, breakpoints and records under way.              *)
(*                                                                         *)
(* Neither is inductive.  While a command is on its way to gdb or its      *)
(* answer on the way back the two sides differ by what that command does   *)
(* (BookInv), which is known because one command is out at a time          *)
(* (TurnInv), because one breakpoint operation is under way and its        *)
(* commands are all still to come (SetInv, EditInv); the client may be     *)
(* wrong about the target for as long as somebody has yet to resume it or  *)
(* to report where it is (ViewInv, BusyInv).                               *)
(***************************************************************************)
EXTENDS DebugSession, SequenceTheorems, FiniteSetTheorems, TLAPS

\* Where a handler is that has yet to answer its request.
Open ==
  {"reading", "clearing", "continuing", "jumping", "pausing", "resetting", "mode", "attaching",
   "flushing", "interrupting", "operating", "halting", "resuming",
   "f_interrupt", "f_settle", "f_delete", "f_leave", "f_stop", "f_server"}

\* Where it is before it starts, and when it has answered.
Shut == {"idle", "ended", "kicking", "armed"}

Names == Kinds \cup {"disconnect"}

SessionTypes ==
  /\ kind \in Seq(Names)
  /\ answers \in [Requests -> Nat]
  /\ waiting \in Seq(Requests)
  /\ current \in Tasks
  /\ pc \in [Tasks -> Open \cup Shut]

\* A request waits in one place of the queue.
QueueInv ==
  \A i, j \in 1 .. Len(waiting) : waiting[i] = waiting[j] => i = j

\* What waits has been made, and what waits or is still to be made has not been started.
ComingInv ==
  \A r \in Requests :
    /\ r \in ToSet(waiting) => r <= Len(kind)
    /\ r \in ToSet(waiting) \/ r > Len(kind) => pc[r] = "idle" /\ r # current

Due(r) == pc[r] \in Open \/ r = current \/ r \in ToSet(waiting) \/ r > Len(kind)

CountInv ==
  \A r \in Requests :
    /\ answers[r] <= 1
    /\ Due(r) => answers[r] = 0

IInv == SessionTypes /\ QueueInv /\ ComingInv /\ CountInv

-----------------------------------------------------------------------------
(* The queue *)

LEMMA NumbersOfRequests == MaxRequests \in Nat /\ Requests \subseteq Tasks /\ Requests \subseteq Nat \ {0}
BY SessionAssumption DEF Requests, Tasks

\* What is in a sequence is at one of its places.
LEMMA MembersHavePlaces ==
  ASSUME NEW s \in Seq(Requests), NEW x
  PROVE  x \in ToSet(s) <=> \E i \in 1 .. Len(s) : s[i] = x
<1>1. DOMAIN s = 1 .. Len(s)
  OBVIOUS
<1> QED BY <1>1 DEF ToSet

\* Taking the head leaves the other members, in one place each.
LEMMA TailOfQueue ==
  ASSUME NEW s \in Seq(Requests), s # << >>,
         \A i, j \in 1 .. Len(s) : s[i] = s[j] => i = j
  PROVE  /\ Head(s) \in ToSet(s)
         /\ Head(s) \in Requests
         /\ Tail(s) \in Seq(Requests)
         /\ \A i, j \in 1 .. Len(Tail(s)) : Tail(s)[i] = Tail(s)[j] => i = j
         /\ \A x : x \in ToSet(Tail(s)) => x \in ToSet(s) /\ x # Head(s)
<1>1. /\ Len(s) \in Nat \ {0}
      /\ Head(s) = s[1]
      /\ Head(s) \in Requests
      /\ Tail(s) \in Seq(Requests)
      /\ Len(Tail(s)) = Len(s) - 1
      /\ \A i \in 1 .. Len(Tail(s)) : Tail(s)[i] = s[i + 1]
  BY HeadTailProperties, EmptySeq
<1>2. Head(s) \in ToSet(s)
  BY <1>1, MembersHavePlaces
<1>3. ASSUME NEW i \in 1 .. Len(Tail(s)), NEW j \in 1 .. Len(Tail(s)), Tail(s)[i] = Tail(s)[j]
      PROVE  i = j
  <2>1. i + 1 \in 1 .. Len(s) /\ j + 1 \in 1 .. Len(s) /\ s[i + 1] = s[j + 1]
    BY <1>1, <1>3
  <2> QED BY <2>1
<1>4. ASSUME NEW x, x \in ToSet(Tail(s))
      PROVE  x \in ToSet(s) /\ x # Head(s)
  <2>1. PICK i \in 1 .. Len(Tail(s)) : Tail(s)[i] = x
    BY <1>1, <1>4, MembersHavePlaces
  <2>2. i + 1 \in 1 .. Len(s) /\ s[i + 1] = x /\ i + 1 # 1
    BY <1>1, <2>1
  <2>3. x # s[1]
    BY <1>1, <2>2
  <2> QED BY <1>1, <2>2, <2>3, MembersHavePlaces
<1> QED BY <1>1, <1>2, <1>3, <1>4

\* A newcomer takes a place of its own behind the others.
LEMMA AppendToQueue ==
  ASSUME NEW s \in Seq(Requests), NEW r \in Requests, r \notin ToSet(s),
         \A i, j \in 1 .. Len(s) : s[i] = s[j] => i = j
  PROVE  /\ Append(s, r) \in Seq(Requests)
         /\ \A i, j \in 1 .. Len(Append(s, r)) : Append(s, r)[i] = Append(s, r)[j] => i = j
         /\ \A x : x \in ToSet(Append(s, r)) => x \in ToSet(s) \/ x = r
<1>1. /\ Len(s) \in Nat
      /\ Append(s, r) \in Seq(Requests)
      /\ Len(Append(s, r)) = Len(s) + 1
      /\ \A i \in 1 .. Len(s) : Append(s, r)[i] = s[i]
      /\ Append(s, r)[Len(s) + 1] = r
  BY AppendProperties, LenProperties
<1>2. \A i \in 1 .. Len(s) : s[i] # r
  BY MembersHavePlaces
<1>3. ASSUME NEW i \in 1 .. Len(Append(s, r)), NEW j \in 1 .. Len(Append(s, r)),
             Append(s, r)[i] = Append(s, r)[j]
      PROVE  i = j
  <2>1. /\ i \in 1 .. Len(s) \/ i = Len(s) + 1
        /\ j \in 1 .. Len(s) \/ j = Len(s) + 1
    BY <1>1
  <2> QED BY <1>1, <1>2, <1>3, <2>1
<1>4. ASSUME NEW x, x \in ToSet(Append(s, r))
      PROVE  x \in ToSet(s) \/ x = r
  <2>1. PICK i \in 1 .. Len(Append(s, r)) : Append(s, r)[i] = x
    BY <1>1, <1>4, MembersHavePlaces
  <2>2. i \in 1 .. Len(s) \/ i = Len(s) + 1
    BY <1>1
  <2>3. CASE i \in 1 .. Len(s)
    BY <1>1, <2>1, <2>3, MembersHavePlaces
  <2>4. CASE i = Len(s) + 1
    BY <1>1, <2>1, <2>4
  <2> QED BY <2>2, <2>3, <2>4
<1> QED BY <1>1, <1>3, <1>4

\* A queue of one.
LEMMA QueueOfOne ==
  ASSUME NEW r \in Requests
  PROVE  /\ <<r>> \in Seq(Requests)
         /\ \A i, j \in 1 .. Len(<<r>>) : <<r>>[i] = <<r>>[j] => i = j
         /\ \A x : x \in ToSet(<<r>>) => x = r
<1>1. <<r>> \in Seq(Requests) /\ Len(<<r>>) = 1 /\ <<r>>[1] = r
  OBVIOUS
<1>2. ASSUME NEW x, x \in ToSet(<<r>>)
      PROVE  x = r
  <2>1. PICK i \in 1 .. Len(<<r>>) : <<r>>[i] = x
    BY <1>1, <1>2, MembersHavePlaces
  <2> QED BY <1>1, <2>1
<1> QED BY <1>1, <1>2

-----------------------------------------------------------------------------
(* What a step may do to the places and the answers *)

\* A handler that has yet to answer does so and is through.
LEMMA AnsweringKeeps ==
  ASSUME IInv, NEW r \in Requests, pc[r] \in Open, Answer(r),
         NEW to \in Shut, Goto(r, to), UNCHANGED <<kind, waiting>>
  PROVE  IInv'
<1>1. r \in Tasks /\ r # 0 /\ pc[r] # "idle"
  BY NumbersOfRequests DEF Open
<1>2. /\ answers[r] = 0
      /\ r \notin ToSet(waiting)
      /\ ~(r > Len(kind))
  BY <1>1 DEF IInv, ComingInv, CountInv, Due
<1>3. /\ answers' = [answers EXCEPT ![r] = answers[r] + 1]
      /\ current' = IF current = r THEN 0 ELSE current
      /\ pc' = [pc EXCEPT ![r] = to]
  BY DEF Answer, Goto
<1>4. SessionTypes'
  <2>1. answers' \in [Requests -> Nat]
    BY <1>3 DEF IInv, SessionTypes
  <2>2. current' \in Tasks
    BY <1>3, NumbersOfRequests DEF IInv, SessionTypes, Tasks
  <2>3. pc' \in [Tasks -> Open \cup Shut]
    BY <1>1, <1>3 DEF IInv, SessionTypes
  <2> QED BY <2>1, <2>2, <2>3 DEF IInv, SessionTypes
<1>5. QueueInv'
  BY DEF IInv, QueueInv
<1>6. \A q \in Requests : q # r => pc'[q] = pc[q] /\ answers'[q] = answers[q]
  BY <1>3, NumbersOfRequests DEF IInv, SessionTypes
<1>7. pc'[r] = to /\ answers'[r] = 1 /\ current' # r
  BY <1>1, <1>2, <1>3 DEF IInv, SessionTypes
<1>8. \A q \in Requests : q = current' => q = current
  BY <1>3, NumbersOfRequests
<1>9. ComingInv'
  BY <1>2, <1>6, <1>8 DEF IInv, ComingInv
<1>10. to \notin Open
  BY DEF Open, Shut
<1>11. CountInv'
  <2>1. ASSUME NEW q \in Requests
        PROVE  answers'[q] <= 1 /\ (Due(q)' => answers'[q] = 0)
    <3>1. CASE q = r
      <4>1. ~Due(r)'
        BY <1>2, <1>7, <1>10 DEF Due
      <4> QED BY <1>7, <3>1, <4>1
    <3>2. CASE q # r
      <4>1. Due(q)' => Due(q)
        BY <1>6, <1>8, <3>2 DEF Due
      <4> QED BY <1>6, <3>2, <4>1 DEF IInv, CountInv
    <3> QED BY <3>1, <3>2
  <2> QED BY <2>1 DEF CountInv
<1> QED BY <1>4, <1>5, <1>9, <1>11 DEF IInv

\* A task that has started goes on, and comes to no place it has left for good.
LEMMA MovingKeeps ==
  ASSUME IInv, NEW t \in Tasks, pc[t] # "idle",
         NEW to \in Open \cup Shut, to \in Open => pc[t] \in Open,
         Goto(t, to), UNCHANGED requestVars
  PROVE  IInv'
<1>1. UNCHANGED <<kind, answers, waiting, current>>
  BY DEF requestVars
<1>2. pc' = [pc EXCEPT ![t] = to]
  BY DEF Goto
<1>3. SessionTypes'
  BY <1>1, <1>2 DEF IInv, SessionTypes
<1>4. QueueInv'
  BY <1>1 DEF IInv, QueueInv
<1>5. \A q \in Requests : IF q = t THEN pc'[q] = to ELSE pc'[q] = pc[q]
  BY <1>2, NumbersOfRequests DEF IInv, SessionTypes
<1>6. ComingInv'
  BY <1>1, <1>5 DEF IInv, ComingInv
<1>7. \A q \in Requests : Due(q)' => Due(q)
  BY <1>1, <1>5 DEF Due
<1>8. CountInv'
  BY <1>1, <1>7 DEF IInv, CountInv
<1> QED BY <1>3, <1>4, <1>6, <1>8 DEF IInv

\* Nothing happens to the requests.
LEMMA StillKeeps ==
  ASSUME IInv, UNCHANGED <<requestVars, pc>>
  PROVE  IInv'
BY DEF IInv, SessionTypes, QueueInv, ComingInv, CountInv, Due, requestVars

-----------------------------------------------------------------------------
(* Taking a request from the queue *)

\* It has been made, not been started and not been answered.
LEMMA TakenIsDue ==
  ASSUME IInv, NEW k, NEW r \in Requests, Taken(k, r)
  PROVE  /\ r \in ToSet(waiting) /\ r <= Len(kind)
         /\ pc[r] = "idle" /\ answers[r] = 0
         /\ current = 0 /\ kind' = kind
         /\ waiting' \in Seq(Requests) /\ QueueInv'
         /\ \A x : x \in ToSet(waiting') => x \in ToSet(waiting) /\ x # r
<1>1. /\ waiting \in Seq(Requests) /\ waiting # << >>
      /\ \A i, j \in 1 .. Len(waiting) : waiting[i] = waiting[j] => i = j
      /\ r = Head(waiting) /\ waiting' = Tail(waiting)
      /\ current = 0 /\ kind' = kind
  BY DEF IInv, SessionTypes, QueueInv, Taken
<1>2. /\ r \in ToSet(waiting)
      /\ waiting' \in Seq(Requests)
      /\ \A i, j \in 1 .. Len(waiting') : waiting'[i] = waiting'[j] => i = j
      /\ \A x : x \in ToSet(waiting') => x \in ToSet(waiting) /\ x # r
  BY <1>1, TailOfQueue
<1>3. r <= Len(kind) /\ pc[r] = "idle"
  BY <1>2 DEF IInv, ComingInv
<1>4. answers[r] = 0
  BY <1>2 DEF IInv, CountInv, Due
<1> QED BY <1>1, <1>2, <1>3, <1>4 DEF QueueInv

\* A handler starts and waits for gdb.
LEMMA StartingKeeps ==
  ASSUME IInv, NEW k, NEW r \in Requests, Taken(k, r),
         NEW to \in Open, Goto(r, to), current' = r, UNCHANGED answers
  PROVE  IInv'
<1>1. /\ r \in ToSet(waiting) /\ r <= Len(kind)
      /\ pc[r] = "idle" /\ answers[r] = 0
      /\ current = 0 /\ kind' = kind
      /\ waiting' \in Seq(Requests) /\ QueueInv'
      /\ \A x : x \in ToSet(waiting') => x \in ToSet(waiting) /\ x # r
  BY TakenIsDue
<1>2. pc' = [pc EXCEPT ![r] = to]
  BY DEF Goto
<1>3. SessionTypes'
  BY <1>1, <1>2, NumbersOfRequests DEF IInv, SessionTypes
<1>4. pc'[r] = to /\ \A q \in Requests : q # r => pc'[q] = pc[q]
  BY <1>2, NumbersOfRequests DEF IInv, SessionTypes
<1>5. ~(r > Len(kind))
  BY <1>1, NumbersOfRequests, LenProperties DEF IInv, SessionTypes
<1>6. ComingInv'
  BY <1>1, <1>4, <1>5 DEF IInv, ComingInv
<1>7. \A q \in Requests : q # r => (Due(q)' => Due(q))
  BY <1>1, <1>4 DEF Due
<1>8. CountInv'
  BY <1>1, <1>7 DEF IInv, CountInv
<1> QED BY <1>1, <1>3, <1>6, <1>8 DEF IInv

\* A handler answers without waiting; those it lets go on are none that has to answer.
LEMMA AtOnceKeeps ==
  ASSUME IInv, NEW k, NEW r \in Requests, Taken(k, r),
         answers' = [answers EXCEPT ![r] = @ + 1], UNCHANGED current,
         pc' \in [Tasks -> Open \cup Shut],
         \A t \in Tasks : pc'[t] # pc[t] => pc[t] # "idle" /\ pc'[t] \in Shut
  PROVE  IInv'
<1>1. /\ r \in ToSet(waiting) /\ r <= Len(kind)
      /\ pc[r] = "idle" /\ answers[r] = 0
      /\ current = 0 /\ kind' = kind
      /\ waiting' \in Seq(Requests) /\ QueueInv'
      /\ \A x : x \in ToSet(waiting') => x \in ToSet(waiting) /\ x # r
  BY TakenIsDue
<1>2. /\ answers' \in [Requests -> Nat]
      /\ answers'[r] = 1
      /\ \A q \in Requests : q # r => answers'[q] = answers[q]
  BY <1>1 DEF IInv, SessionTypes
<1>3. SessionTypes'
  BY <1>1, <1>2 DEF IInv, SessionTypes
<1>4. \A q \in Requests : pc[q] = "idle" => pc'[q] = "idle"
  BY NumbersOfRequests
<1>5. ComingInv'
  BY <1>1, <1>4 DEF IInv, ComingInv
<1>6. \A q \in Requests : pc'[q] \in Open => pc[q] \in Open
  BY NumbersOfRequests DEF Open, Shut
<1>7. ~Due(r)'
  <2>1. pc'[r] \notin Open
    BY <1>1, <1>4 DEF Open
  <2>2. r # current' /\ r \notin ToSet(waiting')
    BY <1>1, NumbersOfRequests
  <2>3. ~(r > Len(kind'))
    BY <1>1, NumbersOfRequests, LenProperties DEF IInv, SessionTypes
  <2> QED BY <2>1, <2>2, <2>3 DEF Due
<1>8. \A q \in Requests : q # r => (Due(q)' => Due(q))
  BY <1>1, <1>6 DEF Due
<1>9. CountInv'
  BY <1>2, <1>7, <1>8 DEF IInv, CountInv
<1> QED BY <1>1, <1>3, <1>5, <1>9 DEF IInv

-----------------------------------------------------------------------------
(* The client makes a request *)

\* A new request waits; one that lets the target run answers those that waited.
LEMMA EnqueueKeeps ==
  ASSUME IInv, NEW k \in Kinds, Enqueue(k), UNCHANGED pc
  PROVE  IInv'
<1> DEFINE r == Len(kind) + 1
<1>1. /\ r \in Requests
      /\ kind' = Append(kind, k)
      /\ current' = current
  BY DEF Enqueue
<1>2. /\ kind \in Seq(Names) /\ k \in Names
      /\ waiting \in Seq(Requests)
      /\ answers \in [Requests -> Nat]
  BY DEF IInv, SessionTypes, Names
<1>3. /\ kind' \in Seq(Names)
      /\ Len(kind) \in Nat
      /\ Len(kind') = r
  BY <1>1, <1>2, AppendProperties, LenProperties
<1>4. r > Len(kind) /\ ~(r <= Len(kind))
  BY <1>3
<1>5. pc[r] = "idle" /\ r # current /\ r \notin ToSet(waiting) /\ answers[r] = 0
  BY <1>1, <1>4 DEF IInv, ComingInv, CountInv, Due
<1> HIDE DEF r
<1>6. waiting' \in Seq(Requests) /\ QueueInv' /\ \A x : x \in ToSet(waiting') => x \in ToSet(waiting) \/ x = r
  <2>1. CASE k = "continue"
    <3>1. waiting' = <<r>>
      BY <2>1 DEF Enqueue, r
    <3> QED BY <1>1, <3>1, QueueOfOne DEF QueueInv
  <2>2. CASE k # "continue"
    <3>1. waiting' = Append(waiting, r)
      BY <2>2 DEF Enqueue, r
    <3> QED BY <1>1, <1>2, <1>5, <3>1, AppendToQueue DEF IInv, QueueInv
  <2> QED BY <2>1, <2>2
<1>7. answers' \in [Requests -> Nat] /\ \A q \in Requests :
        /\ answers'[q] <= 1
        /\ q \in ToSet(waiting') \/ q \notin ToSet(waiting) => answers'[q] = answers[q]
  <2>1. CASE k = "continue"
    <3>1. waiting' = <<r>>
      BY <2>1 DEF Enqueue, r
    <3>2. answers' = [q \in Requests |-> answers[q] + IF q \in ToSet(waiting) THEN 1 ELSE 0]
      BY <2>1 DEF Enqueue
    <3>3. \A q \in Requests : q \in ToSet(waiting') => q \notin ToSet(waiting)
      BY <1>1, <1>5, <3>1, QueueOfOne
    <3>4. \A q \in Requests : answers[q] <= 1 /\ (q \in ToSet(waiting) => answers[q] = 0)
      BY DEF IInv, CountInv, Due
    <3>5. \A q \in Requests :
            /\ answers[q] \in Nat
            /\ answers'[q] = answers[q] + IF q \in ToSet(waiting) THEN 1 ELSE 0
      BY <1>2, <3>2
    <3>6. answers' \in [Requests -> Nat]
      BY <1>2, <3>2
    <3> QED BY <3>3, <3>4, <3>5, <3>6
  <2>2. CASE k # "continue"
    <3>1. answers' = answers
      BY <2>2 DEF Enqueue
    <3> QED BY <1>2, <3>1 DEF IInv, CountInv
  <2> QED BY <2>1, <2>2
<1>8. SessionTypes'
  BY <1>1, <1>3, <1>6, <1>7 DEF IInv, SessionTypes
<1>9. \A q \in Requests : q > Len(kind') => q > Len(kind) /\ q # r
  BY <1>1, <1>3, <1>4, NumbersOfRequests
<1>10. ComingInv'
  <2>1. ASSUME NEW q \in Requests
        PROVE  /\ q \in ToSet(waiting') => q <= Len(kind')
               /\ q \in ToSet(waiting') \/ q > Len(kind') => pc[q] = "idle" /\ q # current
    <3>1. q \in ToSet(waiting) => q <= Len(kind')
      BY <1>3, NumbersOfRequests DEF IInv, ComingInv, r
    <3>2. q = r => q <= Len(kind')
      BY <1>1, <1>3, NumbersOfRequests
    <3>3. q \in ToSet(waiting) \/ q > Len(kind) => pc[q] = "idle" /\ q # current
      BY DEF IInv, ComingInv
    <3> QED BY <1>5, <1>6, <1>9, <3>1, <3>2, <3>3
  <2> QED BY <1>1, <2>1 DEF ComingInv
<1>11. CountInv'
  <2>1. ASSUME NEW q \in Requests, Due(q)'
        PROVE  answers'[q] = 0
    <3>1. CASE q = r
      BY <1>5, <1>7, <3>1
    <3>2. CASE q # r
      <4>1. Due(q)
        BY <1>1, <1>6, <1>9, <2>1, <3>2 DEF Due
      <4>2. answers[q] = 0
        BY <4>1 DEF IInv, CountInv
      <4>3. q \in ToSet(waiting') \/ q \notin ToSet(waiting)
        <5>1. q \in ToSet(waiting) => pc[q] = "idle" /\ q # current /\ q <= Len(kind)
          BY DEF IInv, ComingInv
        <5>2. q <= Len(kind) => ~(q > Len(kind'))
          BY <1>3, NumbersOfRequests DEF r
        <5> QED BY <1>1, <2>1, <5>1, <5>2 DEF Due, Open
      <4> QED BY <1>7, <4>2, <4>3
    <3> QED BY <3>1, <3>2
  <2> QED BY <1>7, <2>1 DEF CountInv
<1> QED BY <1>6, <1>8, <1>10, <1>11 DEF IInv

\* A request to disconnect passes the queue; it is answered at once if it is not the first.
LEMMA DisconnectKeeps ==
  ASSUME IInv, Disconnect
  PROVE  IInv'
<1>0. PICK r \in Requests : r = Len(kind) + 1
  BY DEF Disconnect
<1>1. /\ r \in Requests
      /\ kind' = Append(kind, "disconnect")
      /\ waiting' = waiting
  BY DEF Disconnect
<1>2. kind \in Seq(Names) /\ "disconnect" \in Names
  BY DEF IInv, SessionTypes, Names
<1>3. /\ kind' \in Seq(Names)
      /\ Len(kind) \in Nat
      /\ Len(kind') = r
  BY <1>0, <1>1, <1>2, AppendProperties, LenProperties
<1>4. r > Len(kind) /\ ~(r <= Len(kind))
  BY <1>0, <1>3
<1>5. pc[r] = "idle" /\ r # current /\ r \notin ToSet(waiting) /\ answers[r] = 0
  BY <1>1, <1>4 DEF IInv, ComingInv, CountInv, Due
<1>6. \/ Answer(r) /\ UNCHANGED pc
      \/ (\E to \in {"f_interrupt", "f_delete"} : Goto(r, to)) /\ UNCHANGED <<answers, current>>
  BY <1>0 DEF Disconnect
<1>7. current' = current
  BY <1>5, <1>6 DEF Answer
<1>8. /\ answers' \in [Requests -> Nat] /\ answers'[r] <= 1
      /\ \A q \in Requests : q # r => answers'[q] = answers[q]
  <2>1. CASE Answer(r)
    <3>1. answers' = [answers EXCEPT ![r] = answers[r] + 1]
      BY <2>1 DEF Answer
    <3> QED BY <1>1, <1>5, <3>1 DEF IInv, SessionTypes
  <2>2. CASE UNCHANGED answers
    BY <1>1, <1>5, <2>2 DEF IInv, SessionTypes
  <2> QED BY <1>6, <2>1, <2>2
<1>9. /\ pc' \in [Tasks -> Open \cup Shut]
      /\ \A q \in Requests : q # r => pc'[q] = pc[q]
  <2>1. CASE UNCHANGED pc
    BY <2>1 DEF IInv, SessionTypes
  <2>2. ASSUME NEW to \in {"f_interrupt", "f_delete"}, Goto(r, to)
        PROVE  <1>9!1 /\ <1>9!2
    <3>1. pc' = [pc EXCEPT ![r] = to] /\ to \in Open
      BY <2>2 DEF Goto, Open
    <3> QED BY <1>1, <3>1, NumbersOfRequests DEF IInv, SessionTypes
  <2> QED BY <1>6, <2>1, <2>2
<1>10. SessionTypes'
  BY <1>1, <1>3, <1>7, <1>8, <1>9 DEF IInv, SessionTypes
<1>11. \A q \in Requests : /\ q > Len(kind') => q > Len(kind) /\ q # r
                           /\ q <= Len(kind) => q <= Len(kind')
  BY <1>0, <1>1, <1>3, <1>4, NumbersOfRequests
<1>12. QueueInv'
  BY <1>1 DEF IInv, QueueInv
<1>13. ComingInv'
  BY <1>1, <1>5, <1>7, <1>9, <1>11 DEF IInv, ComingInv
<1>14. \A q \in Requests : q # r => (Due(q)' => Due(q))
  BY <1>1, <1>7, <1>9, <1>11 DEF Due
<1>15. Due(r)' => answers'[r] = 0
  <2>1. CASE Answer(r) /\ UNCHANGED pc
    <3>1. pc'[r] \notin Open
      BY <1>5, <2>1 DEF Open
    <3>2. ~(r > Len(kind'))
      BY <1>1, <1>11
    <3>3. r # current' /\ r \notin ToSet(waiting')
      BY <1>1, <1>5, <1>7
    <3>4. ~Due(r)'
      BY <3>1, <3>2, <3>3 DEF Due
    <3> QED BY <3>4
  <2>2. CASE UNCHANGED <<answers, current>>
    BY <1>5, <2>2
  <2> QED BY <1>6, <2>1, <2>2
<1>16. CountInv'
  <2>1. ASSUME NEW q \in Requests
        PROVE  answers'[q] <= 1 /\ (Due(q)' => answers'[q] = 0)
    <3>1. CASE q = r
      BY <1>8, <1>15, <3>1
    <3>2. CASE q # r
      BY <1>8, <1>14, <3>2 DEF IInv, CountInv
    <3> QED BY <3>1, <3>2
  <2> QED BY <2>1 DEF CountInv
<1> QED BY <1>10, <1>12, <1>13, <1>16 DEF IInv

-----------------------------------------------------------------------------
(* The steps *)

LEMMA InitHolds == DebugInit => IInv
<1> SUFFICES ASSUME DebugInit PROVE IInv
  OBVIOUS
<1>1. /\ kind = << >> /\ waiting = << >> /\ current = 0
      /\ answers = [r \in Requests |-> 0]
  BY DEF DebugInit
<1>2. PICK first \in {"mode", "attaching"} : pc = [t \in Tasks |-> IF t = 0 THEN first ELSE "idle"]
  BY DEF DebugInit
<1>3. /\ << >> \in Seq(Names) /\ << >> \in Seq(Requests)
      /\ \A i \in 1 .. Len(<< >>) : FALSE
  BY EmptySeq
<1>4. first \in Open /\ "idle" \in Shut
  BY DEF Open, Shut
<1>5. 0 \in Tasks
  BY NumbersOfRequests DEF Tasks
<1>6. SessionTypes
  BY <1>1, <1>2, <1>3, <1>4, <1>5 DEF SessionTypes
<1>7. QueueInv
  BY <1>1, <1>3 DEF QueueInv
<1>8. \A x : x \notin ToSet(waiting)
  BY <1>1, <1>3, MembersHavePlaces
<1>9. \A r \in Requests : pc[r] = "idle" /\ r # current /\ answers[r] = 0
  BY <1>1, <1>2, NumbersOfRequests
<1>10. ComingInv
  BY <1>8, <1>9 DEF ComingInv
<1>11. CountInv
  BY <1>9 DEF CountInv
<1> QED BY <1>6, <1>7, <1>10, <1>11 DEF IInv

LEMMA HandleKeeps ==
  ASSUME IInv, NEW r \in Requests, Handle(r)
  PROVE  IInv'
<1>1. pc \in [Tasks -> Open \cup Shut]
  BY DEF IInv, SessionTypes
\* Answered without anything being sent.
<1>2. ASSUME NEW k, Taken(k, r), AnsweredAtOnce(r)
      PROVE  IInv'
  <2>1. answers' = [answers EXCEPT ![r] = @ + 1] /\ UNCHANGED <<current, pc>>
    BY <1>2 DEF AnsweredAtOnce
  <2> QED BY <1>1, <1>2, <2>1, AtOnceKeeps
\* Answered when gdb has.
<1>3. ASSUME NEW k, Taken(k, r), NEW command, NEW to \in Open, Waits(r, command, to)
      PROVE  IInv'
  <2>1. current' = r /\ Goto(r, to) /\ UNCHANGED answers
    BY <1>3 DEF Waits
  <2> QED BY <1>3, <2>1, StartingKeeps
<1>4. {"reading", "clearing", "continuing", "jumping", "pausing", "resetting",
       "interrupting", "operating"} \subseteq Open
  BY DEF Open
<1>5. CASE Inspect(r)
  BY <1>2, <1>3, <1>4, <1>5 DEF Inspect
<1>6. CASE Continue(r)
  BY <1>2, <1>3, <1>4, <1>6 DEF Continue
<1>7. CASE GotoTargets(r)
  BY <1>3, <1>4, <1>7 DEF GotoTargets
<1>8. CASE Pause(r)
  BY <1>3, <1>4, <1>8 DEF Pause
<1>9. CASE Reset(r)
  BY <1>3, <1>4, <1>9 DEF Reset
<1>10. CASE ConfigurationDone(r)
  <2>1. /\ Taken("configDone", r)
        /\ answers' = [answers EXCEPT ![r] = @ + 1]
        /\ UNCHANGED current
    BY <1>10 DEF ConfigurationDone
  <2>2. PICK to \in {"ended", "kicking"} :
          pc' = [t \in Tasks |-> IF t \in {s \in Tasks : pc[s] = "armed"} THEN to ELSE pc[t]]
    BY <1>10 DEF ConfigurationDone
  <2>3. to \in Shut
    BY DEF Shut
  <2>4. pc' \in [Tasks -> Open \cup Shut]
    BY <1>1, <2>2, <2>3
  <2>5. \A t \in Tasks : pc'[t] # pc[t] => pc[t] # "idle" /\ pc'[t] \in Shut
    BY <1>1, <2>2, <2>3
  <2> QED BY <2>1, <2>4, <2>5, AtOnceKeeps
<1>11. CASE SetBreakpoints(r)
  <2>1. PICK to \in {"interrupting", "operating"} : Goto(r, to)
    BY <1>11 DEF SetBreakpoints
  <2>2. Taken("set", r) /\ current' = r /\ UNCHANGED answers
    BY <1>11 DEF SetBreakpoints
  <2> QED BY <1>4, <2>1, <2>2, StartingKeeps
<1> QED BY <1>5, <1>6, <1>7, <1>8, <1>9, <1>10, <1>11 DEF Handle

\* What awaits an operation answers, goes on, or is not there yet.
LEMMA ReturnKeeps ==
  ASSUME IInv, NEW r \in Requests, Return(r), UNCHANGED <<kind, waiting, exiting>>
  PROVE  IInv'
<1>1. /\ "operating" \in Open /\ "halting" \in Open /\ "resuming" \in Open
      /\ "ended" \in Shut /\ r \in Tasks
  BY NumbersOfRequests DEF Open, Shut
<1>2. CASE pc[r] = "operating"
  <2>1. Answer(r) /\ Goto(r, "ended")
    BY <1>2 DEF Return
  <2> QED BY <1>1, <1>2, <2>1, AnsweringKeeps
<1>3. CASE pc[r] = "halting"
  <2>1. Goto(r, "resuming") /\ UNCHANGED requestVars
    BY <1>3 DEF Return, requestVars
  <2> QED BY <1>1, <1>3, <2>1, MovingKeeps
<1>4. CASE pc[r] # "operating" /\ pc[r] # "halting"
  <2>1. UNCHANGED <<requestVars, pc>>
    BY <1>4 DEF Return, requestVars
  <2> QED BY <2>1, StillKeeps
<1> QED BY <1>2, <1>3, <1>4

LEMMA GoOnKeeps ==
  ASSUME IInv, NEW r \in Requests, GoOn(r)
  PROVE  IInv'
<1>1. /\ {"reading", "clearing", "continuing", "jumping", "pausing", "resetting",
          "mode", "interrupting", "halting", "resuming"} \subseteq Open
      /\ "ended" \in Shut /\ "idle" \notin Open /\ r \in Tasks
  BY NumbersOfRequests DEF Open, Shut
\* It answers and ends.
<1>2. ASSUME pc[r] \in Open, Answer(r), Goto(r, "ended"), UNCHANGED <<kind, waiting>>
      PROVE  IInv'
  BY <1>1, <1>2, AnsweringKeeps
\* It goes on.
<1>3. ASSUME pc[r] \in Open, NEW to \in Open, Goto(r, to), UNCHANGED requestVars
      PROVE  IInv'
  BY <1>1, <1>3, MovingKeeps
<1>4. CASE Reading(r)
  BY <1>1, <1>2, <1>4 DEF Reading
<1>5. CASE Pausing(r)
  BY <1>1, <1>2, <1>5 DEF Pausing
<1>6. CASE Clearing(r)
  BY <1>1, <1>3, <1>6 DEF Clearing
<1>7. CASE Continuing(r)
  BY <1>1, <1>2, <1>7 DEF Continuing
<1>8. CASE Jumping(r)
  BY <1>1, <1>2, <1>8 DEF Jumping
<1>9. CASE Resetting(r)
  <2>1. pc[r] \in Open
    BY <1>1, <1>9 DEF Resetting
  <2>2. CASE result.ok
    <3>1. Goto(r, "mode") /\ UNCHANGED requestVars
      BY <1>9, <2>2 DEF Resetting, requestVars
    <3> QED BY <1>1, <1>3, <2>1, <3>1
  <2>3. CASE ~result.ok
    <3>1. Goto(r, "ended") /\ Answer(r) /\ UNCHANGED <<kind, waiting>>
      BY <1>9, <2>3 DEF Resetting
    <3> QED BY <1>2, <2>1, <3>1
  <2> QED BY <2>2, <2>3
<1>10. CASE Interrupting(r)
  <2>1. PICK to \in {"halting", "resuming"} : Goto(r, to)
    BY <1>10 DEF Interrupting
  <2> QED BY <1>1, <1>3, <1>10, <2>1 DEF Interrupting
<1>11. CASE Deleted(r)
  <2>1. CASE result.ok
    <3>1. UNCHANGED <<requestVars, pc>>
      BY <1>11, <2>1 DEF Deleted, requestVars
    <3> QED BY <3>1, StillKeeps
  <2>2. CASE ~result.ok
    <3>1. Return(r) /\ UNCHANGED <<kind, waiting, exiting>>
      BY <1>11, <2>2 DEF Deleted
    <3> QED BY <3>1, ReturnKeeps
  <2> QED BY <2>1, <2>2
<1>12. CASE Inserted(r)
  <2>1. UNCHANGED <<requestVars, pc>>
    BY <1>12 DEF Inserted
  <2> QED BY <2>1, StillKeeps
<1>13. CASE OperationEnds(r)
  <2>1. Return(r) /\ UNCHANGED <<kind, waiting, exiting>>
    BY <1>13 DEF OperationEnds
  <2> QED BY <2>1, ReturnKeeps
<1>14. CASE Resuming(r)
  BY <1>1, <1>2, <1>14 DEF Resuming
<1> QED BY <1>4, <1>5, <1>6, <1>7, <1>8, <1>9, <1>10, <1>11, <1>12, <1>13, <1>14 DEF GoOn

\* The launch, task 0, answers nobody.
LEMMA ModeKeeps ==
  ASSUME IInv, NEW t \in Tasks, Mode(t)
  PROVE  IInv'
<1>1. /\ {"mode", "attaching", "flushing"} \subseteq Open
      /\ {"ended", "kicking", "armed"} \subseteq Shut
      /\ "idle" \notin Open /\ "kicking" # "idle"
      /\ Open \cap Shut = {}
  BY DEF Open, Shut
\* It is through, and answers if it is a request.
<1>2. ASSUME pc[t] \in Open, NEW to \in Shut, Goto(t, to), AnswerTask(t), UNCHANGED <<kind, waiting, exiting>>
      PROVE  IInv'
  <2>1. CASE t = 0
    <3>1. UNCHANGED requestVars
      BY <1>2, <2>1 DEF AnswerTask, requestVars
    <3>2. to \notin Open /\ pc[t] # "idle"
      BY <1>1, <1>2
    <3> QED BY <1>2, <3>1, <3>2, MovingKeeps
  <2>2. CASE t # 0
    <3>1. t \in Requests /\ Answer(t)
      BY <1>2, <2>2, NumbersOfRequests DEF AnswerTask, Tasks, Requests
    <3> QED BY <1>2, <3>1, AnsweringKeeps
  <2> QED BY <2>1, <2>2
<1>3. CASE ModeCommands(t)
  <2>1. pc[t] \in Open /\ UNCHANGED <<kind, waiting, exiting>>
    BY <1>1, <1>3 DEF ModeCommands
  <2>2. CASE ~RunsOn(t)
    <3>1. Goto(t, "flushing") /\ UNCHANGED requestVars
      BY <1>3, <2>2 DEF ModeCommands, requestVars
    <3> QED BY <1>1, <2>1, <3>1, MovingKeeps
  <2>3. CASE RunsOn(t)
    <3>1. AnswerTask(t)
      BY <1>3, <2>3 DEF ModeCommands
    <3>2. PICK to \in {"ended", "kicking", "armed"} : Goto(t, to)
      BY <1>3, <2>3 DEF ModeCommands
    <3> QED BY <1>1, <1>2, <2>1, <3>1, <3>2
  <2> QED BY <2>2, <2>3
<1>4. CASE Flushing(t)
  BY <1>1, <1>2, <1>4 DEF Flushing
<1>5. CASE Kicking(t)
  <2>1. pc[t] = "kicking" /\ Goto(t, "ended") /\ UNCHANGED requestVars
    BY <1>5 DEF Kicking
  <2>2. "ended" \notin Open
    BY <1>1
  <2> QED BY <1>1, <2>1, <2>2, MovingKeeps
<1> QED BY <1>3, <1>4, <1>5 DEF Mode

LEMMA FinishKeeps ==
  ASSUME IInv, NEW r \in Requests, Finish(r)
  PROVE  IInv'
<1>1. /\ {"f_interrupt", "f_settle", "f_delete", "f_leave", "f_stop", "f_server"} \subseteq Open
      /\ "ended" \in Shut /\ "idle" \notin Open /\ r \in Tasks
  BY NumbersOfRequests DEF Open, Shut
<1>2. ASSUME pc[r] \in Open, NEW to \in Open, Goto(r, to), UNCHANGED requestVars
      PROVE  IInv'
  BY <1>1, <1>2, MovingKeeps
<1>3. CASE FinishInterrupted(r)
  BY <1>1, <1>2, <1>3 DEF FinishInterrupted
<1>4. CASE FinishSettles(r)
  BY <1>1, <1>2, <1>4 DEF FinishSettles
<1>5. CASE FinishDeleted(r)
  BY <1>1, <1>2, <1>5 DEF FinishDeleted
<1>6. CASE FinishLeft(r)
  BY <1>1, <1>2, <1>6 DEF FinishLeft
<1>7. CASE FinishStopped(r)
  <2>1. pc[r] = "f_stop" /\ Goto(r, "f_server") /\ UNCHANGED requestVars
    BY <1>7 DEF FinishStopped
  <2> QED BY <1>1, <1>2, <2>1
<1>8. CASE FinishServer(r)
  BY <1>1, <1>8, AnsweringKeeps DEF FinishServer
<1> QED BY <1>3, <1>4, <1>5, <1>6, <1>7, <1>8 DEF Finish

LEMMA NextKeeps ==
  ASSUME IInv, [DebugNext]_debugVars
  PROVE  IInv'
<1>1. CASE \E r \in Requests : Handle(r) \/ GoOn(r) \/ Finish(r)
  BY <1>1, HandleKeeps, GoOnKeeps, FinishKeeps
<1>2. CASE \E t \in Tasks : Mode(t)
  BY <1>2, ModeKeeps
<1>3. CASE \E k \in Kinds : Ask(k)
  BY <1>3, EnqueueKeeps DEF Ask
<1>4. CASE Disconnect
  BY <1>4, DisconnectKeeps
\* What gdb, the target and the channel do is nothing to the requests.
<1>5. CASE \/ TargetStopped \/ TargetRuns
           \/ Timer /\ UNCHANGED <<requestVars, pc, bkptVars, stateVars, server>>
           \/ UNCHANGED sessionVars
           \/ UNCHANGED debugVars
  <2>1. UNCHANGED <<requestVars, pc>>
    BY <1>5 DEF TargetStopped, TargetRuns, sessionVars, debugVars
  <2> QED BY <2>1, StillKeeps
<1> QED BY <1>1, <1>2, <1>3, <1>4, <1>5 DEF DebugNext, Progress

\* The session of any number of requests answers each at most once, and none while it
\* still waits or is being handled: sendResponse is called once on every path through
\* the handlers, the cancelling of the queue, and the end of the session.
THEOREM RequestsAreAnsweredOnce == DebugSpec => []AnsweredOnce
<1>1. DebugInit => IInv
  BY InitHolds
<1>2. IInv /\ [DebugNext]_debugVars => IInv'
  BY NextKeeps
<1>3. IInv => AnsweredOnce
  <2> SUFFICES ASSUME IInv PROVE AnsweredOnce
    OBVIOUS
  <2>1. \A r \in Requests : answers[r] <= 1
    BY DEF IInv, CountInv
  <2>2. ASSUME NEW r \in ToSet(waiting) \cup ({current} \ {0})
        PROVE  answers[r] = 0
    <3>1. r \in Requests
      <4>1. CASE r \in ToSet(waiting)
        BY <4>1, MembersHavePlaces, ElementOfSeq DEF IInv, SessionTypes
      <4>2. CASE r = current /\ r # 0
        BY <4>2, NumbersOfRequests DEF IInv, SessionTypes, Tasks, Requests
      <4> QED BY <4>1, <4>2
    <3> QED BY <3>1 DEF IInv, CountInv, Due
  <2> QED BY <2>1, <2>2 DEF AnsweredOnce
<1> QED BY <1>1, <1>2, <1>3, PTL DEF DebugSpec

-----------------------------------------------------------------------------
(* A session at rest *)

IsSeq(s) == \E S : s \in Seq(S)

\* Nothing has gone wrong that is past mending: after a timer, a crash of gdb or the
\* start of the end of the session nothing is promised.
Live == ~lapse /\ ~exiting /\ gdb = "up"

SeqInv == IsSeq(queue) /\ IsSeq(inp) /\ IsSeq(out)

-----------------------------------------------------------------------------
(* One command is out at a time *)

\* Where the results are among the records s.
Results(s) == {n \in 1 .. Len(s) : s[n].rec = "result"}

\* The command in flight is none, has not been read, has been answered, or its answer
\* has been received.
Free    == inflight = Idle /\ ~tracked /\ result = Pending /\ inp = << >> /\ Results(out) = {}
Asked   == inflight # Idle /\ tracked /\ result = Pending /\ inp = <<inflight>> /\ Results(out) = {}
Replied == inflight # Idle /\ tracked /\ result = Pending /\ inp = << >>
           /\ \E n \in 1 .. Len(out) : Results(out) = {n}
Heard   == inflight # Idle /\ ~tracked /\ result.rec = "result" /\ inp = << >> /\ Results(out) = {}

TurnInv ==
  /\ ~gone /\ ~closed /\ ~ending /\ late = 0
  /\ Free \/ Asked \/ Replied \/ Heard

\* The answer to the command in flight, on its way or received.
Answers == {out[n] : n \in Results(out)} \cup ({result} \ {Pending})

\* The last of the records s that is about the target says tg; if there is none the
\* status st does.
Tells(s, st, tg) ==
  \/ st = tg /\ \A n \in 1 .. Len(s) : s[n].rec = "result"
  \/ \E n \in 1 .. Len(s) : s[n].rec = tg /\ \A m \in n + 1 .. Len(s) : s[m].rec = "result"

\* The adapter is right about the target, or the record that will tell it is under way.
StatusInv ==
  /\ {target, status, view} \subseteq {"running", "stopped"}
  /\ Tells(out, status, target)

-----------------------------------------------------------------------------
(* Breakpoints *)

Editing == {"insert", "delete"}

\* What gdb has made of the record when it has given answer x.
Edited(x) ==
  IF x.ok /\ inflight.op = "insert" THEN book \cup {x.id}
  ELSE IF x.ok /\ inflight.op = "delete" THEN {} ELSE book

BookInv ==
  /\ Answers = {} => table = book
  /\ \A x \in Answers : table = Edited(x) /\ (x.ok \/ inflight.op \in NeedsHalt)

\* Where a request is that sets breakpoints.
Setting == {"interrupting", "halting", "operating", "resuming"}

\* One that ends the session.
Leaving == {"f_interrupt", "f_settle", "f_delete", "f_leave", "f_stop", "f_server"}

\* It is the current one until it has answered, and waits for its operation meanwhile.
SetPlace(r) ==
  /\ pc[r] \in Setting => current = r
  /\ op[r] = "armed" => pc[r] \in {"interrupting", "halting"}
  /\ op[r] \in {"deleting", "inserting"} => pc[r] \in {"interrupting", "halting", "operating"}
  /\ pc[r] \notin Leaving

SetInv == pc[0] \notin Setting /\ \A r \in Requests : SetPlace(r)

\* Commands an operation has yet to hear of: they are queued or in flight.
Edits(s) == {n \in 1 .. Len(s) : s[n].op \in Editing}
Owed(r)  == IF op[r] = "deleting" THEN 1 ELSE left[r]

\* c is the command of a task that has started, and one that deletes or inserts that of
\* an operation that is about to.
Placed(c) ==
  /\ c.op # "none"
  /\ c.who \in Tasks /\ pc[c.who] # "idle"
  /\ c.op = "delete" => c.who \in Requests /\ op[c.who] = "deleting" /\ c.ids = book
  /\ c.op = "insert" => c.who \in Requests /\ op[c.who] = "inserting"

EditInv ==
  /\ op \in [Requests -> {"none", "armed", "deleting", "inserting", "over"}]
  /\ left \in [Requests -> Int]
  /\ \A c \in ToSet(queue) : Placed(c)
  /\ inflight # Idle => Placed(inflight)
  /\ \A r \in Requests :
       op[r] \in {"deleting", "inserting"} =>
         Cardinality(Edits(queue)) + (IF inflight.op \in Editing THEN 1 ELSE 0) = Owed(r)
  /\ \A r \in Requests : op[r] = "deleting" => left[r] = BkptsWanted

-----------------------------------------------------------------------------
(* What the client knows *)

\* The target will be heard to run, or a command to resume it has yet to be read.
Runs    == \E n \in 1 .. Len(out) : out[n].rec = "running"
Resumes == \E c \in ToSet(queue) \cup ToSet(inp) : c.op = "continue"

\* Where a task is that has a stop suppressed, and where one is that will let the target
\* run or tell the client about it.
Muting    == {"mode", "attaching", "resetting", "interrupting", "halting", "resuming"}
Reporting == {"mode", "attaching", "resetting", "interrupting", "halting", "flushing", "armed"}

ViewInv ==
  /\ status = "running" => view = "running" /\ ~missed
  /\ suppress => \E t \in Tasks : pc[t] \in Muting
  /\ view # status /\ ~missed => Runs \/ Resumes \/ \E t \in Tasks : pc[t] \in Reporting
  /\ view # status /\ ~missed /\ (\E r \in Requests : pc[r] = "resuming") => Runs \/ Resumes

\* Its command to resume the target has been obeyed.
Accepted(r) ==
  inflight.who = r /\ inflight.op \in {"continue", "jump"} /\ \E x \in Answers : x.ok

BusyInv ==
  continuing =>
    \/ Runs
    \/ status = "stopped" /\ Resumes
    \/ \E r \in Requests : pc[r] \in {"continuing", "jumping"} /\ ~Accepted(r)

LiveInv ==
  SeqInv /\ TurnInv /\ StatusInv /\ BookInv /\ SetInv /\ EditInv /\ ViewInv /\ BusyInv

-----------------------------------------------------------------------------
(* Sequences of commands and records *)

LEMMA SeqPlaces ==
  ASSUME NEW s, IsSeq(s)
  PROVE  /\ Len(s) \in Nat
         /\ \A x : x \in ToSet(s) <=> \E i \in 1 .. Len(s) : s[i] = x
<1>1. Len(s) \in Nat /\ DOMAIN s = 1 .. Len(s)
  BY DEF IsSeq
<1> QED BY <1>1 DEF ToSet

LEMMA EmptyPlaces == IsSeq(<< >>) /\ Len(<< >>) = 0 /\ ToSet(<< >>) = {}
<1>1. << >> \in Seq({}) /\ Len(<< >>) = 0
  BY EmptySeq
<1>2. IsSeq(<< >>)
  BY <1>1 DEF IsSeq
<1> QED BY <1>1, <1>2, SeqPlaces

LEMMA OnePlace ==
  ASSUME NEW a
  PROVE  IsSeq(<<a>>) /\ Len(<<a>>) = 1 /\ <<a>>[1] = a /\ ToSet(<<a>>) = {a}
<1>1. <<a>> \in Seq({a}) /\ Len(<<a>>) = 1 /\ <<a>>[1] = a /\ 1 .. 1 = {1}
  OBVIOUS
<1>2. IsSeq(<<a>>)
  BY <1>1 DEF IsSeq
<1> QED BY <1>1, <1>2, SeqPlaces

LEMMA TwoPlaces ==
  ASSUME NEW a, NEW b
  PROVE  IsSeq(<<a, b>>) /\ Len(<<a, b>>) = 2 /\ <<a, b>>[1] = a /\ <<a, b>>[2] = b
<1>1. <<a, b>> \in Seq({a, b}) /\ Len(<<a, b>>) = 2 /\ <<a, b>>[1] = a /\ <<a, b>>[2] = b
  OBVIOUS
<1> QED BY <1>1 DEF IsSeq

LEMMA ConcatPlaces ==
  ASSUME NEW s, NEW t, IsSeq(s), IsSeq(t)
  PROVE  /\ IsSeq(s \o t)
         /\ Len(s) \in Nat /\ Len(t) \in Nat /\ Len(s \o t) = Len(s) + Len(t)
         /\ \A i \in 1 .. Len(s) : (s \o t)[i] = s[i]
         /\ \A i \in 1 .. Len(t) : (s \o t)[Len(s) + i] = t[i]
         /\ \A i \in 1 .. Len(s \o t) : i \in 1 .. Len(s) \/ \E j \in 1 .. Len(t) : i = Len(s) + j
         /\ ToSet(s \o t) = ToSet(s) \cup ToSet(t)
<1>1. PICK S, T : s \in Seq(S) /\ t \in Seq(T)
  BY DEF IsSeq
<1>2. s \in Seq(S \cup T) /\ t \in Seq(S \cup T)
  BY <1>1, SeqMonotonic
<1>3. /\ s \o t \in Seq(S \cup T)
      /\ Len(s) \in Nat /\ Len(t) \in Nat
      /\ Len(s \o t) = Len(s) + Len(t)
      /\ \A i \in 1 .. Len(s) + Len(t) : (s \o t)[i] = IF i <= Len(s) THEN s[i] ELSE t[i - Len(s)]
  BY <1>2, ConcatProperties, LenProperties
<1>4. \A i \in 1 .. Len(s) : (s \o t)[i] = s[i]
  BY <1>3
<1>5. \A i \in 1 .. Len(t) : Len(s) + i \in 1 .. Len(s) + Len(t) /\ (s \o t)[Len(s) + i] = t[i]
  BY <1>3
<1>6. ASSUME NEW i \in 1 .. Len(s \o t)
      PROVE  i \in 1 .. Len(s) \/ \E j \in 1 .. Len(t) : i = Len(s) + j
  <2>1. CASE i <= Len(s)
    BY <1>3, <2>1
  <2>2. CASE ~(i <= Len(s))
    <3>1. i - Len(s) \in 1 .. Len(t) /\ i = Len(s) + (i - Len(s))
      BY <1>3, <2>2
    <3> QED BY <3>1
  <2> QED BY <2>1, <2>2
<1>7. IsSeq(s \o t)
  BY <1>3 DEF IsSeq
<1>8. ASSUME NEW x
      PROVE  x \in ToSet(s \o t) <=> x \in ToSet(s) \/ x \in ToSet(t)
  <2>1. ASSUME x \in ToSet(s \o t) PROVE x \in ToSet(s) \/ x \in ToSet(t)
    <3>1. PICK i \in 1 .. Len(s \o t) : (s \o t)[i] = x
      BY <1>7, <2>1, SeqPlaces
    <3>2. CASE i \in 1 .. Len(s)
      BY <1>4, <3>1, <3>2, SeqPlaces
    <3>3. CASE \E j \in 1 .. Len(t) : i = Len(s) + j
      BY <1>5, <3>1, <3>3, SeqPlaces
    <3> QED BY <1>6, <3>2, <3>3
  <2>2. ASSUME x \in ToSet(s) PROVE x \in ToSet(s \o t)
    <3>1. PICK i \in 1 .. Len(s) : s[i] = x
      BY <2>2, SeqPlaces
    <3>2. i \in 1 .. Len(s \o t) /\ (s \o t)[i] = x
      BY <1>3, <1>4, <3>1
    <3> QED BY <1>7, <3>2, SeqPlaces
  <2>3. ASSUME x \in ToSet(t) PROVE x \in ToSet(s \o t)
    <3>1. PICK i \in 1 .. Len(t) : t[i] = x
      BY <2>3, SeqPlaces
    <3>2. Len(s) + i \in 1 .. Len(s \o t) /\ (s \o t)[Len(s) + i] = x
      BY <1>3, <1>5, <3>1
    <3> QED BY <1>7, <3>2, SeqPlaces
  <2> QED BY <2>1, <2>2, <2>3
<1>9. ToSet(s \o t) = ToSet(s) \cup ToSet(t)
  BY <1>8
<1> QED BY <1>3, <1>4, <1>5, <1>6, <1>7, <1>9

LEMMA TailPlaces ==
  ASSUME NEW s, IsSeq(s), s # << >>
  PROVE  /\ IsSeq(Tail(s))
         /\ Len(s) \in Nat \ {0} /\ Len(Tail(s)) = Len(s) - 1
         /\ Head(s) = s[1]
         /\ \A i \in 1 .. Len(Tail(s)) : i + 1 \in 2 .. Len(s) /\ Tail(s)[i] = s[i + 1]
         /\ \A i \in 2 .. Len(s) : i - 1 \in 1 .. Len(Tail(s)) /\ Tail(s)[i - 1] = s[i]
         /\ ToSet(s) = {Head(s)} \cup ToSet(Tail(s))
<1>1. PICK S : s \in Seq(S)
  BY DEF IsSeq
<1>2. /\ Len(s) \in Nat \ {0} /\ Head(s) = s[1]
      /\ Tail(s) \in Seq(S) /\ Len(Tail(s)) = Len(s) - 1
      /\ \A i \in 1 .. Len(Tail(s)) : Tail(s)[i] = s[i + 1]
  BY <1>1, HeadTailProperties, EmptySeq
<1>3. IsSeq(Tail(s))
  BY <1>2 DEF IsSeq
<1>4. \A i \in 1 .. Len(Tail(s)) : i + 1 \in 2 .. Len(s) /\ Tail(s)[i] = s[i + 1]
  BY <1>2
<1>5. ASSUME NEW i \in 2 .. Len(s)
      PROVE  i - 1 \in 1 .. Len(Tail(s)) /\ Tail(s)[i - 1] = s[i]
  <2>1. i - 1 \in 1 .. Len(Tail(s)) /\ (i - 1) + 1 = i
    BY <1>2
  <2> QED BY <1>4, <2>1
<1>6. ASSUME NEW x
      PROVE  x \in ToSet(s) <=> x = Head(s) \/ x \in ToSet(Tail(s))
  <2>1. ASSUME x \in ToSet(s) PROVE x = Head(s) \/ x \in ToSet(Tail(s))
    <3>1. PICK i \in 1 .. Len(s) : s[i] = x
      BY <2>1, SeqPlaces
    <3>2. i = 1 \/ i \in 2 .. Len(s)
      BY <1>2
    <3>3. CASE i \in 2 .. Len(s)
      BY <1>3, <1>5, <3>1, <3>3, SeqPlaces
    <3> QED BY <1>2, <3>1, <3>2, <3>3
  <2>2. Head(s) \in ToSet(s)
    <3>1. 1 \in 1 .. Len(s)
      BY <1>2
    <3> QED BY <1>2, <3>1, SeqPlaces
  <2>3. ASSUME x \in ToSet(Tail(s)) PROVE x \in ToSet(s)
    <3>1. PICK i \in 1 .. Len(Tail(s)) : Tail(s)[i] = x
      BY <1>3, <2>3, SeqPlaces
    <3>2. i + 1 \in 1 .. Len(s) /\ s[i + 1] = x
      BY <1>2, <1>4, <3>1
    <3> QED BY <3>2, SeqPlaces
  <2> QED BY <2>1, <2>2, <2>3
<1>7. ToSet(s) = {Head(s)} \cup ToSet(Tail(s))
  BY <1>6
<1> QED BY <1>2, <1>3, <1>4, <1>5, <1>7

-----------------------------------------------------------------------------
(* Results among the records *)

\* Records that are none add none.
LEMMA OthersAddNone ==
  ASSUME NEW s, NEW t, IsSeq(s), IsSeq(t), \A i \in 1 .. Len(t) : t[i].rec # "result"
  PROVE  Results(s \o t) = Results(s) /\ \A n \in Results(s) : (s \o t)[n] = s[n]
<1>1. ASSUME NEW n \in Results(s \o t) PROVE n \in Results(s)
  <2>1. n \in 1 .. Len(s \o t) /\ (s \o t)[n].rec = "result"
    BY DEF Results
  <2>2. CASE n \in 1 .. Len(s)
    BY <2>1, <2>2, ConcatPlaces DEF Results
  <2>3. CASE \E j \in 1 .. Len(t) : n = Len(s) + j
    BY <2>1, <2>3, ConcatPlaces
  <2> QED BY <2>1, <2>2, <2>3, ConcatPlaces
<1>2. ASSUME NEW n \in Results(s) PROVE n \in Results(s \o t) /\ (s \o t)[n] = s[n]
  <2>1. n \in 1 .. Len(s) /\ s[n].rec = "result"
    BY DEF Results
  <2>2. n \in 1 .. Len(s \o t) /\ (s \o t)[n] = s[n]
    BY <2>1, ConcatPlaces
  <2> QED BY <2>1, <2>2 DEF Results
<1> QED BY <1>1, <1>2

\* A reply is one result, before what it entails.
LEMMA ReplyAddsOne ==
  ASSUME NEW s, NEW t, IsSeq(s), IsSeq(t), Results(s) = {},
         Len(t) >= 1, t[1].rec = "result", \A i \in 2 .. Len(t) : t[i].rec # "result"
  PROVE  /\ Len(s) + 1 \in 1 .. Len(s \o t)
         /\ Results(s \o t) = {Len(s) + 1}
         /\ (s \o t)[Len(s) + 1] = t[1]
<1>1. Len(s) \in Nat /\ Len(t) \in Nat /\ Len(s \o t) = Len(s) + Len(t) /\ 1 \in 1 .. Len(t)
  BY ConcatPlaces
<1>2. (s \o t)[Len(s) + 1] = t[1] /\ Len(s) + 1 \in 1 .. Len(s \o t)
  BY <1>1, ConcatPlaces
<1>3. ASSUME NEW n \in Results(s \o t) PROVE n = Len(s) + 1
  <2>1. n \in 1 .. Len(s \o t) /\ (s \o t)[n].rec = "result"
    BY DEF Results
  <2>2. CASE n \in 1 .. Len(s)
    <3>1. n \in Results(s)
      BY <2>1, <2>2, ConcatPlaces DEF Results
    <3> QED BY <3>1
  <2>3. CASE \E j \in 1 .. Len(t) : n = Len(s) + j
    <3>1. PICK j \in 1 .. Len(t) : n = Len(s) + j
      BY <2>3
    <3>2. (s \o t)[n] = t[j]
      BY <3>1, ConcatPlaces
    <3>3. j = 1 \/ j \in 2 .. Len(t)
      BY <1>1
    <3> QED BY <2>1, <3>1, <3>2, <3>3
  <2> QED BY <2>1, <2>2, <2>3, ConcatPlaces
<1>4. Len(s) + 1 \in Results(s \o t)
  BY <1>2 DEF Results
<1> QED BY <1>2, <1>3, <1>4

\* The first record is received: a result is kept if it is another, and gone if it is this.
LEMMA TailOfRecords ==
  ASSUME NEW s, IsSeq(s), s # << >>
  PROVE  /\ Results(s) = {} => Head(s).rec # "result" /\ Results(Tail(s)) = {}
         /\ \A n \in 1 .. Len(s) :
              Results(s) = {n} =>
                IF Head(s).rec = "result" THEN n = 1 /\ Results(Tail(s)) = {}
                ELSE /\ n - 1 \in 1 .. Len(Tail(s)) /\ Results(Tail(s)) = {n - 1}
                     /\ Tail(s)[n - 1] = s[n]
<1>1. /\ Len(s) \in Nat \ {0} /\ Len(Tail(s)) = Len(s) - 1 /\ Head(s) = s[1]
      /\ \A i \in 1 .. Len(Tail(s)) : i + 1 \in 2 .. Len(s) /\ Tail(s)[i] = s[i + 1]
      /\ \A i \in 2 .. Len(s) : i - 1 \in 1 .. Len(Tail(s)) /\ Tail(s)[i - 1] = s[i]
  BY TailPlaces
<1>2. 1 \in Results(s) <=> Head(s).rec = "result"
  BY <1>1 DEF Results
<1>3. ASSUME NEW i \in Results(Tail(s)) PROVE i + 1 \in Results(s) /\ i + 1 # 1 /\ i \in Nat
  <2>1. i \in 1 .. Len(Tail(s)) /\ Tail(s)[i].rec = "result"
    BY DEF Results
  <2>2. i + 1 \in 2 .. Len(s) /\ s[i + 1].rec = "result"
    BY <1>1, <2>1
  <2>3. i + 1 \in 1 .. Len(s) /\ i + 1 # 1
    BY <1>1, <2>2
  <2> QED BY <2>1, <2>2, <2>3 DEF Results
<1>4. Results(s) = {} => Head(s).rec # "result" /\ Results(Tail(s)) = {}
  BY <1>2, <1>3
<1>5. ASSUME NEW n \in 1 .. Len(s), Results(s) = {n}
      PROVE  IF Head(s).rec = "result" THEN n = 1 /\ Results(Tail(s)) = {}
             ELSE /\ n - 1 \in 1 .. Len(Tail(s)) /\ Results(Tail(s)) = {n - 1}
                  /\ Tail(s)[n - 1] = s[n]
  <2>1. CASE Head(s).rec = "result"
    BY <1>2, <1>3, <1>5, <2>1
  <2>2. CASE Head(s).rec # "result"
    <3>1. n # 1
      BY <1>2, <1>5, <2>2
    <3>2. n \in 2 .. Len(s)
      BY <1>1, <3>1
    <3>3. n - 1 \in 1 .. Len(Tail(s)) /\ Tail(s)[n - 1] = s[n]
      BY <1>1, <3>2
    <3>4. s[n].rec = "result"
      BY <1>5 DEF Results
    <3>5. n - 1 \in Results(Tail(s))
      BY <3>3, <3>4 DEF Results
    <3>6. \A i \in Results(Tail(s)) : i = n - 1
      BY <1>3, <1>5
    <3> QED BY <2>2, <3>3, <3>5, <3>6
  <2> QED BY <2>1, <2>2
<1> QED BY <1>4, <1>5

-----------------------------------------------------------------------------
(* What is known of the target *)

\* One more result says nothing of the target.
LEMMA ResultTells ==
  ASSUME NEW s, IsSeq(s), NEW st, NEW tg, Tells(s, st, tg), NEW x, x.rec = "result"
  PROVE  Tells(s \o <<x>>, st, tg)
<1>1. /\ IsSeq(<<x>>) /\ Len(<<x>>) = 1 /\ <<x>>[1] = x
      /\ Len(s) \in Nat /\ Len(s \o <<x>>) = Len(s) + 1
      /\ \A i \in 1 .. Len(s) : (s \o <<x>>)[i] = s[i]
      /\ (s \o <<x>>)[Len(s) + 1] = x
  BY OnePlace, ConcatPlaces
<1>2. CASE st = tg /\ \A n \in 1 .. Len(s) : s[n].rec = "result"
  <2>1. ASSUME NEW n \in 1 .. Len(s \o <<x>>) PROVE (s \o <<x>>)[n].rec = "result"
    <3>1. n \in 1 .. Len(s) \/ n = Len(s) + 1
      BY <1>1
    <3> QED BY <1>1, <1>2, <3>1
  <2> QED BY <1>2, <2>1 DEF Tells
<1>3. CASE \E n \in 1 .. Len(s) : s[n].rec = tg /\ \A m \in n + 1 .. Len(s) : s[m].rec = "result"
  <2>1. PICK n \in 1 .. Len(s) : s[n].rec = tg /\ \A m \in n + 1 .. Len(s) : s[m].rec = "result"
    BY <1>3
  <2>2. n \in 1 .. Len(s \o <<x>>) /\ (s \o <<x>>)[n].rec = tg
    BY <1>1, <2>1
  <2>3. ASSUME NEW m \in n + 1 .. Len(s \o <<x>>) PROVE (s \o <<x>>)[m].rec = "result"
    <3>1. (m \in n + 1 .. Len(s) /\ m \in 1 .. Len(s)) \/ m = Len(s) + 1
      BY <1>1
    <3> QED BY <1>1, <2>1, <3>1
  <2> QED BY <2>2, <2>3 DEF Tells
<1> QED BY <1>2, <1>3 DEF Tells

\* A record of what the target does now says it all.
LEMMA LastTells ==
  ASSUME NEW s, IsSeq(s), NEW x, NEW st
  PROVE  Tells(s \o <<x>>, st, x.rec)
<1>1. /\ IsSeq(<<x>>) /\ Len(<<x>>) = 1 /\ <<x>>[1] = x
      /\ Len(s) \in Nat /\ Len(s \o <<x>>) = Len(s) + 1
      /\ (s \o <<x>>)[Len(s) + 1] = x
  BY OnePlace, ConcatPlaces
<1>2. Len(s) + 1 \in 1 .. Len(s \o <<x>>) /\ \A m \in (Len(s) + 1) + 1 .. Len(s \o <<x>>) : FALSE
  BY <1>1
<1> QED BY <1>1, <1>2 DEF Tells

\* A record is received: its news is the status from now on.
LEMMA TailTells ==
  ASSUME NEW s, IsSeq(s), s # << >>, NEW st, NEW tg, Tells(s, st, tg), tg # "result", NEW new,
         IF Head(s).rec = "result" THEN new = st ELSE new = Head(s).rec
  PROVE  Tells(Tail(s), new, tg)
<1>1. /\ Len(s) \in Nat \ {0} /\ Len(Tail(s)) = Len(s) - 1 /\ Head(s) = s[1]
      /\ \A i \in 1 .. Len(Tail(s)) : i + 1 \in 2 .. Len(s) /\ Tail(s)[i] = s[i + 1]
      /\ \A i \in 2 .. Len(s) : i - 1 \in 1 .. Len(Tail(s)) /\ Tail(s)[i - 1] = s[i]
  BY TailPlaces
<1>2. CASE st = tg /\ \A n \in 1 .. Len(s) : s[n].rec = "result"
  <2>1. Head(s).rec = "result"
    BY <1>1, <1>2
  <2>2. \A n \in 1 .. Len(Tail(s)) : Tail(s)[n].rec = "result"
    <3>1. \A i \in 2 .. Len(s) : i \in 1 .. Len(s)
      BY <1>1
    <3> QED BY <1>1, <1>2, <3>1
  <2> QED BY <1>2, <2>1, <2>2 DEF Tells
<1>3. CASE \E n \in 1 .. Len(s) : s[n].rec = tg /\ \A m \in n + 1 .. Len(s) : s[m].rec = "result"
  <2>1. PICK n \in 1 .. Len(s) : s[n].rec = tg /\ \A m \in n + 1 .. Len(s) : s[m].rec = "result"
    BY <1>3
  <2>2. CASE n = 1
    <3>1. new = tg
      BY <1>1, <2>1, <2>2
    <3>2. ASSUME NEW i \in 1 .. Len(Tail(s)) PROVE Tail(s)[i].rec = "result"
      <4>1. i + 1 \in n + 1 .. Len(s) /\ Tail(s)[i] = s[i + 1]
        BY <1>1, <2>2
      <4> QED BY <2>1, <4>1
    <3> QED BY <3>1, <3>2 DEF Tells
  <2>3. CASE n # 1
    <3>1. n - 1 \in 1 .. Len(Tail(s)) /\ Tail(s)[n - 1].rec = tg
      BY <1>1, <2>1, <2>3
    <3>2. ASSUME NEW m \in (n - 1) + 1 .. Len(Tail(s)) PROVE Tail(s)[m].rec = "result"
      <4>1. m \in 1 .. Len(Tail(s)) /\ m + 1 \in n + 1 .. Len(s)
        BY <1>1
      <4> QED BY <1>1, <2>1, <4>1
    <3> QED BY <3>1, <3>2 DEF Tells
  <2> QED BY <2>2, <2>3
<1> QED BY <1>2, <1>3 DEF Tells

\* If the status is not right the record that will set it right is under way.
LEMMA TellsOfIt ==
  ASSUME NEW s, NEW st, NEW tg, Tells(s, st, tg), st # tg
  PROVE  \E n \in 1 .. Len(s) : s[n].rec = tg
BY DEF Tells

-----------------------------------------------------------------------------
(* What the adapter does with the channel *)

LEMMA PendingIsNone == Pending.rec = "none" /\ ~Pending.ok /\ Idle.op = "none" /\ Idle.who = 0
BY DEF Pending, Failed, Done, Idle, Command

\* A command that is sent waits in the queue.
LEMMA SendKeeps ==
  ASSUME SeqInv, TurnInv, BookInv, Tells(out, status, target),
         NEW cmds, IsSeq(cmds), Send(cmds),
         UNCHANGED <<gdbVars, inp, out, promiseVars, lifeVars, book>>
  PROVE  /\ SeqInv' /\ TurnInv' /\ BookInv' /\ Tells(out, status, target)'
         /\ Answers' = Answers
<1>1. /\ queue' = queue \o cmds
      /\ UNCHANGED <<table, target, inp, out, inflight, tracked, result, gone, closed, ending, late,
                     status, book>>
  BY DEF Send, gdbVars, promiseVars, lifeVars
<1>2. SeqInv'
  BY <1>1, ConcatPlaces DEF SeqInv
<1>3. Answers' = Answers
  BY <1>1 DEF Answers
<1>4. TurnInv'
  BY <1>1 DEF TurnInv, Free, Asked, Replied, Heard
<1>5. BookInv'
  BY <1>1, <1>3 DEF BookInv, Edited
<1>6. Tells(out, status, target)'
  BY <1>1
<1> QED BY <1>2, <1>3, <1>4, <1>5, <1>6

\* A task goes on with the answer to its command; then no command is out.
LEMMA SettledKeeps ==
  ASSUME SeqInv, TurnInv, BookInv, Tells(out, status, target),
         NEW o, NEW who, Settled(o, who)
  PROVE  /\ inflight # Idle /\ inflight.op = o /\ inflight.who = who
         /\ inflight' = Idle /\ inp' = << >> /\ out' = out /\ inp = << >>
         /\ result \in Answers /\ Answers' = {}
         /\ table' = table /\ status' = status /\ target' = target
         /\ table = Edited(result) /\ (result.ok \/ o \in NeedsHalt)
         /\ TurnInv' /\ Tells(out, status, target)'
<1>1. /\ result # Pending /\ inflight.op = o /\ inflight.who = who
      /\ inflight' = Idle /\ result' = Pending
      /\ UNCHANGED <<table, target, inp, out, tracked, gone, closed, ending, late, status>>
  BY DEF Settled, gdbVars, lifeVars
<1>2. Heard
  BY <1>1 DEF TurnInv, Free, Asked, Replied
<1>3. result \in Answers
  BY <1>1 DEF Answers
<1>4. Answers' = {}
  BY <1>1, <1>2 DEF Answers, Heard
<1>5. Free'
  BY <1>1, <1>2 DEF Free, Heard
<1>6. TurnInv'
  BY <1>1, <1>5 DEF TurnInv
<1>7. inp = << >> /\ inflight # Idle
  BY <1>2 DEF Heard
<1>8. table = Edited(result) /\ (result.ok \/ o \in NeedsHalt)
  BY <1>1, <1>3 DEF BookInv
<1> QED BY <1>1, <1>3, <1>4, <1>6, <1>7, <1>8

\* The record is right again when it is changed as the answer says.
LEMMA BookIsRight ==
  ASSUME Answers' = {}, table' = book'
  PROVE  BookInv'
BY DEF BookInv

\* An answer to a command that does not edit leaves nothing to be recorded.
LEMMA NothingEdited ==
  ASSUME inflight.op \notin Editing
  PROVE  Edited(result) = book
BY DEF Edited, Editing

\* gdb reads the command in flight.
LEMMA ReadKeeps ==
  ASSUME SeqInv, TurnInv, NEW o, GdbReads(o)
  PROVE  /\ Asked /\ inflight.op = o /\ Head(inp) = inflight /\ inp' = << >>
         /\ inflight' = inflight /\ queue' = queue /\ status' = status
         /\ Answers = {}
<1>1. /\ inp # << >> /\ Head(inp).op = o /\ inp' = Tail(inp)
      /\ UNCHANGED <<queue, inflight, tracked, result, gone, closed, ending, status, late>>
  BY DEF GdbReads, sendVars, promiseVars, lifeVars
<1>2. Asked
  BY <1>1 DEF TurnInv, Free, Replied, Heard
<1>3. Head(inp) = inflight /\ Tail(inp) = << >>
  BY <1>2 DEF Asked
<1>4. Answers = {}
  BY <1>2 DEF Answers, Asked
<1> QED BY <1>1, <1>2, <1>3, <1>4

\* It answers, and may go on to tell what the target does.
LEMMA ReplyKeeps ==
  ASSUME SeqInv, TurnInv, NEW o, GdbReads(o), NEW t, IsSeq(t), Reply(t),
         Len(t) >= 1, t[1].rec = "result", \A i \in 2 .. Len(t) : t[i].rec # "result"
  PROVE  SeqInv' /\ TurnInv' /\ Answers' = {t[1]} /\ inflight' # Idle
<1>1. /\ Asked /\ inp' = << >> /\ inflight' = inflight /\ queue' = queue
  BY ReadKeeps
<1>2. UNCHANGED <<inflight, tracked, result, gone, closed, ending, late>>
  BY DEF GdbReads, sendVars, promiseVars, lifeVars
<1>3. out' = out \o t /\ IsSeq(out) /\ Results(out) = {}
  BY <1>1 DEF Reply, SeqInv, Asked
<1>4. /\ Len(out) + 1 \in 1 .. Len(out')
      /\ Results(out') = {Len(out) + 1}
      /\ out'[Len(out) + 1] = t[1]
  BY <1>3, ReplyAddsOne
<1>5. SeqInv'
  BY <1>1, <1>3, ConcatPlaces, EmptyPlaces DEF SeqInv
<1>6. Replied'
  BY <1>1, <1>2, <1>4 DEF Asked, Replied
<1>7. TurnInv'
  BY <1>2, <1>6 DEF TurnInv
<1>8. Answers' = {t[1]}
  BY <1>2, <1>4, <1>1 DEF Answers, Asked
<1> QED BY <1>1, <1>5, <1>7, <1>8 DEF Asked

\* A record of the target is received: the answers stay what they are.
LEMMA NewsKeeps ==
  ASSUME SeqInv, TurnInv, Tells(out, status, target), target # "result",
         NEW new \in {"running", "stopped"}, ReceiveAsync(new, new)
  PROVE  /\ IsSeq(out') /\ IsSeq(inp') /\ TurnInv' /\ Tells(out, status, target)'
         /\ Answers' = Answers
<1>1. /\ out # << >> /\ Head(out).rec = new /\ out' = Tail(out) /\ status' = new /\ IsSeq(out)
      /\ UNCHANGED <<target, inp, inflight, tracked, result, gone, closed, ending, late>>
  BY DEF ReceiveAsync, gdbVars, promiseVars, SeqInv
<1>2. Head(out).rec # "result" /\ IsSeq(out')
  BY <1>1, TailPlaces
<1>3. Tells(out, status, target)'
  BY <1>1, <1>2, TailTells
<1>4. CASE Results(out) = {}
  <2>1. Results(out') = {}
    BY <1>1, <1>4, TailOfRecords
  <2>2. Answers' = Answers
    BY <1>1, <1>4, <2>1 DEF Answers
  <2>3. TurnInv'
    BY <1>1, <1>4, <2>1 DEF TurnInv, Free, Asked, Replied, Heard
  <2> QED BY <1>1, <1>2, <1>3, <2>2, <2>3 DEF SeqInv
<1>5. CASE Results(out) # {}
  <2>1. Replied
    BY <1>5 DEF TurnInv, Free, Asked, Heard
  <2>2. PICK n \in 1 .. Len(out) : Results(out) = {n}
    BY <2>1 DEF Replied
  <2>3. n - 1 \in 1 .. Len(out') /\ Results(out') = {n - 1} /\ out'[n - 1] = out[n]
    BY <1>1, <1>2, <2>2, TailOfRecords
  <2>4. Replied'
    BY <1>1, <2>1, <2>3 DEF Replied
  <2>5. TurnInv'
    BY <1>1, <2>4 DEF TurnInv
  <2>6. Answers' = Answers
    BY <1>1, <2>2, <2>3 DEF Answers
  <2> QED BY <1>1, <1>2, <1>3, <2>5, <2>6 DEF SeqInv
<1> QED BY <1>4, <1>5

\* The answer is received.
LEMMA ResultKeeps ==
  ASSUME SeqInv, TurnInv, Tells(out, status, target), target # "result", ReceiveResult
  PROVE  /\ SeqInv' /\ TurnInv' /\ Tells(out, status, target)'
         /\ Answers' = Answers /\ inflight' = inflight
<1>1. /\ out # << >> /\ Head(out).rec = "result" /\ out' = Tail(out) /\ IsSeq(out)
      /\ late = 0
      /\ UNCHANGED <<target, status, inp, queue, inflight, gone, closed, ending>>
  BY DEF ReceiveResult, gdbVars, SeqInv, TurnInv
<1>2. Replied
  <2>1. Results(out) # {}
    BY <1>1, TailOfRecords
  <2> QED BY <2>1 DEF TurnInv, Free, Asked, Heard
<1>3. result' = Head(out) /\ tracked' = FALSE /\ late' = 0
  BY <1>1, <1>2 DEF ReceiveResult, Replied
<1>4. PICK n \in 1 .. Len(out) : Results(out) = {n}
  BY <1>2 DEF Replied
<1>5. n = 1 /\ Results(out') = {} /\ IsSeq(out') /\ Head(out) = out[1]
  BY <1>1, <1>4, TailOfRecords, TailPlaces
<1>6. Heard'
  BY <1>1, <1>2, <1>3, <1>5 DEF Replied, Heard
<1>7. TurnInv'
  BY <1>1, <1>3, <1>6 DEF TurnInv
<1>8. result' # Pending
  BY <1>1, <1>3, PendingIsNone
<1>9. Answers = {Head(out)}
  BY <1>2, <1>4, <1>5 DEF Answers, Replied
<1>10. Answers' = {Head(out)}
  BY <1>3, <1>5, <1>8 DEF Answers
<1>11. Tells(out, status, target)'
  BY <1>1, TailTells
<1>12. SeqInv'
  BY <1>1, <1>5 DEF SeqInv
<1> QED BY <1>1, <1>7, <1>9, <1>10, <1>11, <1>12

\* The next command is written to gdb.
LEMMA NextIsSent ==
  ASSUME SeqInv, TurnInv, Tells(out, status, target), EditInv, SendNext
  PROVE  /\ SeqInv' /\ TurnInv' /\ Tells(out, status, target)'
         /\ Answers = {} /\ Answers' = {} /\ inflight = Idle
         /\ queue # << >> /\ inflight' = Head(queue) /\ queue' = Tail(queue) /\ Head(queue) # Idle
         /\ inp' = <<Head(queue)>> /\ inp = << >>
         /\ UNCHANGED <<table, target, out, status>>
<1>1. /\ inflight = Idle /\ queue # << >> /\ inflight' = Head(queue) /\ queue' = Tail(queue)
      /\ UNCHANGED <<table, target, out, status, gone, closed, ending, late>>
  BY DEF SendNext, gdbVars, lifeVars
<1>2. Free
  BY <1>1 DEF TurnInv, Asked, Replied, Heard
<1>3. Writable /\ tracked' = TRUE
  BY DEF TurnInv, Writable, SendNext
<1>4. inp' = Append(inp, Head(queue)) /\ result' = result
  BY <1>3 DEF SendNext
<1>5. inp' = <<Head(queue)>>
  BY <1>2, <1>4 DEF Free
<1>6. Head(queue) \in ToSet(queue) /\ IsSeq(queue')
  BY <1>1, TailPlaces DEF SeqInv
<1>7. Head(queue) # Idle
  BY <1>6, PendingIsNone DEF EditInv, Placed
<1>8. Asked'
  BY <1>1, <1>2, <1>3, <1>4, <1>5, <1>7 DEF Free, Asked
<1>9. TurnInv'
  BY <1>1, <1>8 DEF TurnInv
<1>10. Answers = {} /\ Answers' = {}
  BY <1>1, <1>2, <1>8 DEF Answers, Free, Asked
<1>11. SeqInv'
  BY <1>1, <1>5, <1>6, OnePlace DEF SeqInv
<1> QED BY <1>1, <1>2, <1>5, <1>7, <1>9, <1>10, <1>11 DEF Free

-----------------------------------------------------------------------------
(* The commands of an operation *)

LEMMA EditsAreFinite ==
  ASSUME NEW s, IsSeq(s)
  PROVE  IsFiniteSet(Edits(s)) /\ Cardinality(Edits(s)) \in Nat
<1>1. Len(s) \in Nat
  BY SeqPlaces
<1>2. IsFiniteSet(1 .. Len(s)) /\ Edits(s) \subseteq 1 .. Len(s)
  BY <1>1, FS_Interval DEF Edits
<1>3. IsFiniteSet(Edits(s))
  BY <1>2, FS_Subset
<1> QED BY <1>3, FS_CardinalityType

\* There are none where no command edits.
LEMMA NoEdits ==
  ASSUME NEW s, IsSeq(s)
  PROVE  Edits(s) = {} <=> \A c \in ToSet(s) : c.op \notin Editing
BY SeqPlaces DEF Edits

\* Other commands that are sent do not count.
LEMMA OthersDoNotCount ==
  ASSUME NEW s, NEW t, IsSeq(s), IsSeq(t), \A c \in ToSet(t) : c.op \notin Editing
  PROVE  Edits(s \o t) = Edits(s)
<1>1. \A i \in 1 .. Len(t) : t[i].op \notin Editing
  BY SeqPlaces
<1>2. ASSUME NEW n \in Edits(s \o t) PROVE n \in Edits(s)
  <2>1. n \in 1 .. Len(s \o t) /\ (s \o t)[n].op \in Editing
    BY DEF Edits
  <2>2. CASE n \in 1 .. Len(s)
    BY <2>1, <2>2, ConcatPlaces DEF Edits
  <2>3. CASE \E j \in 1 .. Len(t) : n = Len(s) + j
    BY <1>1, <2>1, <2>3, ConcatPlaces
  <2> QED BY <2>1, <2>2, <2>3, ConcatPlaces
<1>3. ASSUME NEW n \in Edits(s) PROVE n \in Edits(s \o t)
  <2>1. n \in 1 .. Len(s) /\ s[n].op \in Editing
    BY DEF Edits
  <2>2. n \in 1 .. Len(s \o t) /\ (s \o t)[n] = s[n]
    BY <2>1, ConcatPlaces
  <2> QED BY <2>1, <2>2 DEF Edits
<1> QED BY <1>2, <1>3

\* As many as are sent when none was left.
LEMMA AllCount ==
  ASSUME NEW s, NEW t, IsSeq(s), IsSeq(t), Edits(s) = {}, \A c \in ToSet(t) : c.op \in Editing
  PROVE  Cardinality(Edits(s \o t)) = Len(t)
<1>1. /\ Len(s) \in Nat /\ Len(t) \in Nat /\ Len(s \o t) = Len(s) + Len(t)
      /\ \A i \in 1 .. Len(t) : (s \o t)[Len(s) + i] = t[i]
  BY ConcatPlaces
<1>2. \A i \in 1 .. Len(t) : t[i].op \in Editing
  BY SeqPlaces
<1>3. ASSUME NEW n \in Edits(s \o t) PROVE n \in Len(s) + 1 .. Len(s) + Len(t)
  <2>1. n \in 1 .. Len(s \o t) /\ (s \o t)[n].op \in Editing
    BY DEF Edits
  <2>2. CASE n \in 1 .. Len(s)
    <3>1. n \in Edits(s)
      BY <2>1, <2>2, ConcatPlaces DEF Edits
    <3> QED BY <3>1
  <2>3. CASE \E j \in 1 .. Len(t) : n = Len(s) + j
    BY <1>1, <2>3
  <2> QED BY <2>1, <2>2, <2>3, ConcatPlaces
<1>4. ASSUME NEW n \in Len(s) + 1 .. Len(s) + Len(t) PROVE n \in Edits(s \o t)
  <2>1. n - Len(s) \in 1 .. Len(t) /\ n = Len(s) + (n - Len(s)) /\ n \in 1 .. Len(s \o t)
    BY <1>1
  <2>2. (s \o t)[n].op \in Editing
    BY <1>1, <1>2, <2>1
  <2> QED BY <2>1, <2>2 DEF Edits
<1>5. Edits(s \o t) = Len(s) + 1 .. Len(s) + Len(t)
  BY <1>3, <1>4
<1>6. Len(s) + 1 \in Int /\ Len(s) + Len(t) \in Int
  BY <1>1
<1>7. Cardinality(Len(s) + 1 .. Len(s) + Len(t)) =
        IF Len(s) + 1 > Len(s) + Len(t) THEN 0 ELSE Len(s) + Len(t) - (Len(s) + 1) + 1
  BY <1>6, FS_Interval
<1> QED BY <1>1, <1>5, <1>7

\* The first is gone.
LEMMA TailCounts ==
  ASSUME NEW s, IsSeq(s), s # << >>
  PROVE  Cardinality(Edits(s)) =
           Cardinality(Edits(Tail(s))) + (IF Head(s).op \in Editing THEN 1 ELSE 0)
<1>1. /\ Len(s) \in Nat \ {0} /\ Head(s) = s[1] /\ IsSeq(Tail(s))
      /\ \A i \in 1 .. Len(Tail(s)) : i + 1 \in 2 .. Len(s) /\ Tail(s)[i] = s[i + 1]
      /\ \A i \in 2 .. Len(s) : i - 1 \in 1 .. Len(Tail(s)) /\ Tail(s)[i - 1] = s[i]
  BY TailPlaces
<1> DEFINE later == Edits(s) \ {1}
           f     == [n \in Edits(Tail(s)) |-> n + 1]
<1>2. \A n \in Edits(Tail(s)) : n \in Nat /\ n + 1 \in later
  <2>1. SUFFICES ASSUME NEW n \in Edits(Tail(s)) PROVE n \in Nat /\ n + 1 \in later
    OBVIOUS
  <2>2. n \in 1 .. Len(Tail(s)) /\ Tail(s)[n].op \in Editing
    BY DEF Edits
  <2>3. n + 1 \in 2 .. Len(s) /\ s[n + 1].op \in Editing
    BY <1>1, <2>2
  <2>4. n + 1 \in 1 .. Len(s) /\ n + 1 # 1
    BY <1>1, <2>3
  <2> QED BY <2>2, <2>3, <2>4 DEF Edits
<1>3. ASSUME NEW m \in later PROVE m - 1 \in Edits(Tail(s)) /\ f[m - 1] = m
  <2>1. m \in 1 .. Len(s) /\ m # 1 /\ s[m].op \in Editing
    BY DEF Edits
  <2>2. m \in 2 .. Len(s)
    BY <1>1, <2>1
  <2>3. m - 1 \in 1 .. Len(Tail(s)) /\ Tail(s)[m - 1].op \in Editing
    BY <1>1, <2>1, <2>2
  <2>4. m - 1 \in Edits(Tail(s))
    BY <2>3 DEF Edits
  <2> QED BY <2>2, <2>4
<1>4. f \in Bijection(Edits(Tail(s)), later)
  <2>1. f \in [Edits(Tail(s)) -> later]
    BY <1>2
  <2>2. \A a, b \in Edits(Tail(s)) : f[a] = f[b] => a = b
    BY <1>2
  <2>3. \A m \in later : \E n \in Edits(Tail(s)) : f[n] = m
    BY <1>3
  <2> QED BY <2>1, <2>2, <2>3 DEF Bijection, Injection, Surjection, IsInjective
<1>5. Cardinality(later) = Cardinality(Edits(Tail(s)))
  BY <1>1, <1>4, EditsAreFinite, FS_Bijection DEF ExistsBijection
<1>6. Cardinality(later) = IF 1 \in Edits(s) THEN Cardinality(Edits(s)) - 1 ELSE Cardinality(Edits(s))
  BY EditsAreFinite, FS_RemoveElement
<1>7. 1 \in Edits(s) <=> Head(s).op \in Editing
  BY <1>1 DEF Edits
<1>8. Cardinality(Edits(s)) \in Nat
  BY EditsAreFinite
<1> QED BY <1>5, <1>6, <1>7, <1>8

\* As many inserts as breakpoints are wanted.
LEMMA InsertsOfOne ==
  ASSUME NEW r
  PROVE  /\ IsSeq(Inserts(r)) /\ Len(Inserts(r)) = BkptsWanted
         /\ \A c \in ToSet(Inserts(r)) : c.op = "insert" /\ c.who = r
<1>1. BkptsWanted \in Nat
  BY SessionAssumption
<1>2. Inserts(r) \in Seq({Command("insert", r)}) /\ Len(Inserts(r)) = BkptsWanted
  BY <1>1 DEF Inserts
<1>3. IsSeq(Inserts(r))
  BY <1>2 DEF IsSeq
<1>4. \A i \in 1 .. Len(Inserts(r)) : Inserts(r)[i] = Command("insert", r)
  BY <1>2 DEF Inserts
<1>5. Command("insert", r).op = "insert" /\ Command("insert", r).who = r
  BY DEF Command
<1> QED BY <1>2, <1>3, <1>4, <1>5, SeqPlaces

\* The first commands of an operation are one to delete or all its inserts.
LEMMA FirstOfOne ==
  ASSUME NEW r
  PROVE  /\ IsSeq(FirstCommands(r))
         /\ Len(FirstCommands(r)) = IF book # {} THEN 1 ELSE BkptsWanted
         /\ \A c \in ToSet(FirstCommands(r)) :
              /\ c.who = r
              /\ IF book # {} THEN c.op = "delete" /\ c.ids = book ELSE c.op = "insert"
<1>1. CASE book # {}
  <2>1. FirstCommands(r) = <<[Command("delete", r) EXCEPT !.ids = book]>>
    BY <1>1 DEF FirstCommands
  <2>2. [Command("delete", r) EXCEPT !.ids = book] = [op |-> "delete", who |-> r, ids |-> book]
    BY DEF Command
  <2> QED BY <1>1, <2>1, <2>2, OnePlace
<1>2. CASE book = {}
  BY <1>2, InsertsOfOne DEF FirstCommands
<1> QED BY <1>1, <1>2

\* What one request sends alone is all there is to send, and nobody sends nothing.
LEMMA NoneStarted ==
  ASSUME EditInv, Started({})
  PROVE  Send(<< >>) /\ op' = op /\ left' = left
<1>1. PICK order \in SetToSeqs({}) :
        Send(FlattenSeq([i \in DOMAIN order |-> FirstCommands(order[i])]))
  BY DEF Started
<1>2. order \in [1 .. 0 -> {}]
  BY <1>1, FS_EmptySet DEF SetToSeqs
<1>3. [i \in DOMAIN order |-> FirstCommands(order[i])] = << >>
  BY <1>2
<1>4. Send(<< >>)
  BY <1>1, <1>3, EmptyPlaces DEF FlattenSeq
<1>5. op' = op /\ left' = left
  BY DEF Started, EditInv
<1> QED BY <1>4, <1>5

LEMMA OneStarted ==
  ASSUME NEW r, Started({r})
  PROVE  Send(FirstCommands(r))
<1> DEFINE x == FirstCommands(r)
<1>1. PICK order \in SetToSeqs({r}) :
        Send(FlattenSeq([i \in DOMAIN order |-> FirstCommands(order[i])]))
  BY DEF Started
<1>2. order \in [1 .. 1 -> {r}]
  BY <1>1, FS_Singleton DEF SetToSeqs
<1>3. [i \in DOMAIN order |-> FirstCommands(order[i])] = <<x>>
  <2>1. DOMAIN order = 1 .. 1 /\ order[1] = r
    BY <1>2
  <2> QED BY <2>1
<1>4. FlattenSeq(<<x>>) = x
  <2> DEFINE step(g) == [i \in 1 .. Len(<<x>>) |-> IF i = 1 THEN <<x>>[i] ELSE g[i - 1] \o <<x>>[i]]
  <2>1. Len(<<x>>) = 1 /\ <<x>>[1] = x
    OBVIOUS
  <2>2. \A g : step(g) = [i \in 1 .. 1 |-> x]
    BY <2>1
  <2>3. step([i \in 1 .. 1 |-> x]) = [i \in 1 .. 1 |-> x]
    BY <2>2
  <2>4. (CHOOSE g : g = step(g)) = step(CHOOSE g : g = step(g))
    BY <2>3
  <2>5. (CHOOSE g : g = step(g))[1] = x
    BY <2>2, <2>4
  <2> QED BY <2>1, <2>5 DEF FlattenSeq
<1> QED BY <1>1, <1>3, <1>4

-----------------------------------------------------------------------------
(* What a task does to the rest *)

\* What is sent, or nothing.
LEMMA OneCommand ==
  ASSUME NEW o, NEW t
  PROVE  /\ IsSeq(<<Command(o, t)>>)
         /\ ToSet(<<Command(o, t)>>) = {Command(o, t)}
         /\ Command(o, t).op = o /\ Command(o, t).who = t
BY OnePlace DEF Command

LEMMA NoCommand ==
  ASSUME SeqInv, UNCHANGED queue
  PROVE  Send(<< >>) /\ IsSeq(<< >>) /\ ToSet(<< >>) = {}
<1>1. PICK S : queue \in Seq(S)
  BY DEF SeqInv, IsSeq
<1>2. queue \o << >> = queue
  BY <1>1, ConcatEmptySeq
<1> QED BY <1>2, EmptyPlaces DEF Send

\* Requests that set breakpoints are let alone.
LEMMA SetKeeps ==
  ASSUME SetInv, UNCHANGED op,
         \A t \in Tasks : pc'[t] # pc[t] => pc[t] \notin Setting /\ pc'[t] \notin Setting \cup Leaving,
         \A r \in Requests : pc[r] \in Setting /\ current = r => current' = r
  PROVE  SetInv'
<1>0. pc'[0] \notin Setting
  <2>1. 0 \in Tasks
    BY NumbersOfRequests DEF Tasks
  <2> QED BY <2>1 DEF SetInv
<1> SUFFICES ASSUME NEW r \in Requests
             PROVE  SetPlace(r)'
  BY <1>0 DEF SetInv
<1>1. CASE pc'[r] = pc[r]
  BY <1>1 DEF SetInv, SetPlace
<1>2. CASE pc'[r] # pc[r]
  <2>1. pc[r] \notin {"interrupting", "halting", "operating"}
    BY <1>2, NumbersOfRequests DEF Setting
  <2> QED BY <1>2, <2>1, NumbersOfRequests DEF SetInv, SetPlace
<1> QED BY <1>1, <1>2

\* A command that does not edit, of a task that has started.
Plain(c) == c.op \notin Editing \cup {"none"} /\ c.who \in Tasks /\ pc[c.who] # "idle"

\* Commands that do not edit come after those that are there; one that does not may go.
LEMMA EditKeeps ==
  ASSUME SeqInv, EditInv, UNCHANGED bkptVars,
         NEW cmds, IsSeq(cmds), Send(cmds),
         \A c \in ToSet(cmds) : Plain(c)',
         inflight' = inflight \/ (inflight' = Idle /\ inflight.op \notin Editing),
         \A t \in Tasks : pc[t] # "idle" => pc'[t] # "idle"
  PROVE  EditInv'
<1>1. /\ queue' = queue \o cmds /\ IsSeq(queue)
      /\ op' = op /\ left' = left /\ book' = book
  BY DEF Send, SeqInv, bkptVars
<1>2. ToSet(queue') = ToSet(queue) \cup ToSet(cmds) /\ Edits(queue') = Edits(queue)
  <2>1. \A c \in ToSet(cmds) : c.op \notin Editing
    BY DEF Plain
  <2> QED BY <1>1, <2>1, ConcatPlaces, OthersDoNotCount
<1>3. \A c : Placed(c) => Placed(c)'
  BY <1>1 DEF Placed
<1>4. \A c \in ToSet(cmds) : Placed(c)'
  BY DEF Placed, Editing, Plain
<1>5. inflight' # Idle => Placed(inflight)'
  BY <1>3 DEF EditInv
<1>6. (IF inflight'.op \in Editing THEN 1 ELSE 0) = (IF inflight.op \in Editing THEN 1 ELSE 0)
  <2>1. Idle.op \notin Editing
    BY PendingIsNone DEF Editing
  <2> QED BY <2>1
<1>7. \A r \in Requests : Owed(r)' = Owed(r)
  BY <1>1 DEF Owed
<1> QED BY <1>1, <1>2, <1>3, <1>4, <1>5, <1>6, <1>7 DEF EditInv

\* What is sent is added to what may resume the target.
LEMMA ResumesKeeps ==
  ASSUME SeqInv, NEW cmds, IsSeq(cmds), Send(cmds), UNCHANGED inp
  PROVE  /\ Resumes => Resumes'
         /\ (\E c \in ToSet(cmds) : c.op = "continue") => Resumes'
<1>1. ToSet(queue') = ToSet(queue) \cup ToSet(cmds)
  BY ConcatPlaces DEF Send, SeqInv
<1> QED BY <1>1 DEF Resumes

\* Nothing changes that has to do with what the client is told.
LEMMA ViewKeeps ==
  ASSUME ViewInv, UNCHANGED <<status, view, missed, suppress>>, Runs => Runs', Resumes => Resumes',
         \A t \in Tasks : pc[t] \in Muting \cup Reporting => pc'[t] = pc[t],
         \A r \in Requests : pc'[r] = "resuming" => pc[r] = "resuming"
  PROVE  ViewInv'
<1>1. (\E t \in Tasks : pc[t] \in Muting) => \E t \in Tasks : pc'[t] \in Muting
  OBVIOUS
<1>2. (\E t \in Tasks : pc[t] \in Reporting) => \E t \in Tasks : pc'[t] \in Reporting
  OBVIOUS
<1> QED BY <1>1, <1>2 DEF ViewInv

LEMMA BusyKeeps ==
  ASSUME BusyInv, continuing' => continuing, UNCHANGED status, Runs => Runs', Resumes => Resumes',
         \A r \in Requests :
           pc[r] \in {"continuing", "jumping"} /\ ~Accepted(r) => pc'[r] = pc[r] /\ ~Accepted(r)'
  PROVE  BusyInv'
BY DEF BusyInv

-----------------------------------------------------------------------------
(* The handlers: a request starts *)

\* Of a request that waits for gdb to execute a command that does not edit.
LEMMA StartsWell ==
  ASSUME IInv, LiveInv, NEW k, NEW r \in Requests, Taken(k, r),
         NEW o, o \notin Editing \cup {"none"},
         NEW where, where \notin {"idle"} \cup Setting \cup Leaving,
         Waits(r, o, where), UNCHANGED <<bkptVars, view, missed>>
  PROVE  /\ SeqInv' /\ TurnInv' /\ StatusInv' /\ BookInv' /\ SetInv' /\ EditInv'
         /\ status' = status /\ Runs' = Runs /\ (Resumes => Resumes')
         /\ pc[r] = "idle" /\ pc'[r] = where /\ \A t \in Tasks : t # r => pc'[t] = pc[t]
         /\ \A q \in Requests : Accepted(q)' = Accepted(q)
         /\ Command(o, r) \in ToSet(queue')
<1> DEFINE cmds == <<Command(o, r)>>
<1>1. /\ UNCHANGED <<gdbVars, inp, out, promiseVars, lifeVars>>
      /\ Send(cmds) /\ current' = r /\ Goto(r, where)
      /\ IsSeq(cmds) /\ ToSet(cmds) = {Command(o, r)}
      /\ Command(o, r).op = o /\ Command(o, r).who = r
  BY OneCommand DEF Taken, Waits
<1>2. current = 0 /\ pc[r] = "idle"
  BY TakenIsDue
<1>3. pc'[r] = where /\ \A t \in Tasks : t # r => pc'[t] = pc[t]
  BY <1>1, NumbersOfRequests DEF Goto, IInv, SessionTypes
<1>4. SeqInv /\ TurnInv /\ BookInv /\ Tells(out, status, target) /\ SetInv /\ EditInv
  BY DEF LiveInv, StatusInv
<1>5. /\ status' = status /\ target' = target /\ out' = out /\ inp' = inp /\ inflight' = inflight
      /\ book' = book /\ op' = op
  BY <1>1 DEF lifeVars, gdbVars, promiseVars, bkptVars
<1> HIDE DEF cmds
<1>6. /\ SeqInv' /\ TurnInv' /\ BookInv' /\ Tells(out, status, target)'
      /\ Answers' = Answers
  BY <1>1, <1>4, <1>5, SendKeeps
<1>7. StatusInv'
  BY <1>5, <1>6 DEF LiveInv, StatusInv
<1>8. SetInv'
  <2>1. \A q \in Requests : ~(pc[q] \in Setting /\ current = q)
    BY <1>2, NumbersOfRequests
  <2>2. pc[r] \notin Setting
    BY <1>2 DEF Setting
  <2>3. \A q \in Tasks : pc'[q] # pc[q] => q = r
    BY <1>3
  <2> QED BY <1>3, <1>4, <1>5, <2>1, <2>2, <2>3, SetKeeps
<1>9. EditInv'
  <2>1. \A c \in ToSet(cmds) : Plain(c)'
    BY <1>1, <1>3, NumbersOfRequests DEF Plain
  <2>2. \A t \in Tasks : pc[t] # "idle" => pc'[t] # "idle"
    BY <1>3
  <2>3. IsSeq(cmds) /\ Send(cmds) /\ SeqInv /\ EditInv /\ inflight' = inflight /\ UNCHANGED bkptVars
    BY <1>1, <1>4, <1>5 DEF bkptVars
  <2> QED BY <2>1, <2>2, <2>3, EditKeeps
<1>10. Runs' = Runs
  BY <1>5 DEF Runs
<1>11. Resumes => Resumes'
  BY <1>1, <1>4, <1>5, ResumesKeeps
<1>12. \A q \in Requests : Accepted(q)' = Accepted(q)
  BY <1>5, <1>6 DEF Accepted
<1>13. Command(o, r) \in ToSet(queue')
  BY <1>1, <1>4, ConcatPlaces DEF Send, SeqInv
<1> QED BY <1>2, <1>3, <1>5, <1>6, <1>7, <1>8, <1>9, <1>10, <1>11, <1>12, <1>13

\* Nothing happens that matters here.
LEMMA RestKeeps ==
  ASSUME LiveInv, UNCHANGED <<channelVars, pc, current, bkptVars, stateVars>>
  PROVE  LiveInv'
<1>1. UNCHANGED <<gdb, target, halting, table, nextBkpt, inp, out, queue, inflight, tracked, result,
                  gone, closed, ending, status, late, pc, current, op, left, book,
                  continuing, suppress, view, missed>>
  BY DEF channelVars, gdbVars, sendVars, promiseVars, lifeVars, bkptVars, stateVars
<1>2. Answers' = Answers
  BY <1>1 DEF Answers
<1>3. SeqInv' /\ TurnInv' /\ StatusInv' /\ SetInv'
  BY <1>1 DEF LiveInv, SeqInv, TurnInv, Free, Asked, Replied, Heard, StatusInv, SetInv, SetPlace
<1>4. BookInv'
  BY <1>1, <1>2 DEF LiveInv, BookInv, Edited
<1>5. EditInv'
  BY <1>1 DEF LiveInv, EditInv, Placed, Owed
<1>6. ViewInv'
  BY <1>1 DEF LiveInv, ViewInv, Runs, Resumes
<1>7. BusyInv'
  BY <1>1, <1>2 DEF LiveInv, BusyInv, Runs, Resumes, Accepted
<1> QED BY <1>3, <1>4, <1>5, <1>6, <1>7 DEF LiveInv

\* A request that is refused, or answered without a word to gdb.
LEMMA AtOnceStays ==
  ASSUME LiveInv, NEW k, NEW r \in Requests, Taken(k, r), AnsweredAtOnce(r), UNCHANGED stateVars
  PROVE  LiveInv'
<1>1. UNCHANGED <<channelVars, pc, current, bkptVars, stateVars>>
  BY DEF Taken, AnsweredAtOnce, channelVars, gdbVars, sendVars, promiseVars, lifeVars
<1> QED BY <1>1, RestKeeps

LEMMA InspectStays ==
  ASSUME IInv, LiveInv, NEW r \in Requests, Inspect(r)
  PROVE  LiveInv'
<1>1. Taken("inspect", r) /\ UNCHANGED stateVars
  BY DEF Inspect
<1>2. CASE Busy
  BY <1>1, <1>2, AtOnceStays DEF Inspect
<1>3. CASE ~Busy
  <2>1. Waits(r, "read", "reading") /\ UNCHANGED <<bkptVars, view, missed, suppress, continuing>>
    BY <1>1, <1>3 DEF Inspect, stateVars
  <2>2. /\ SeqInv' /\ TurnInv' /\ StatusInv' /\ BookInv' /\ SetInv' /\ EditInv'
        /\ status' = status /\ Runs' = Runs /\ (Resumes => Resumes')
        /\ pc[r] = "idle" /\ pc'[r] = "reading" /\ \A t \in Tasks : t # r => pc'[t] = pc[t]
        /\ \A q \in Requests : Accepted(q)' = Accepted(q)
    BY <1>1, <2>1, StartsWell DEF Editing, Setting, Leaving
  <2>3. ViewInv'
    BY <2>1, <2>2, NumbersOfRequests, ViewKeeps DEF LiveInv, Muting, Reporting
  <2>4. BusyInv'
    BY <2>1, <2>2, NumbersOfRequests, BusyKeeps DEF LiveInv
  <2> QED BY <2>2, <2>3, <2>4 DEF LiveInv
<1> QED BY <1>2, <1>3

\* Of a request that resumes the target, whatever becomes of it.
LEMMA ResumingStays ==
  ASSUME IInv, LiveInv, NEW k, NEW r \in Requests, Taken(k, r),
         NEW o \in {"continue", "jump"}, NEW where \in {"continuing", "jumping"},
         Waits(r, o, where), UNCHANGED <<bkptVars, view, missed, suppress>>
  PROVE  LiveInv'
<1>1. /\ SeqInv' /\ TurnInv' /\ StatusInv' /\ BookInv' /\ SetInv' /\ EditInv'
      /\ status' = status /\ Runs' = Runs /\ (Resumes => Resumes')
      /\ pc[r] = "idle" /\ pc'[r] = where /\ \A t \in Tasks : t # r => pc'[t] = pc[t]
      /\ \A q \in Requests : Accepted(q)' = Accepted(q)
  BY StartsWell DEF Editing, Setting, Leaving
<1>2. ViewInv'
  BY <1>1, NumbersOfRequests, ViewKeeps DEF LiveInv, Muting, Reporting
<1>3. ~Accepted(r)
  <2>1. CASE inflight = Idle
    BY <2>1, PendingIsNone DEF Accepted
  <2>2. CASE inflight # Idle
    <3>1. inflight.who # r
      BY <1>1, <2>2 DEF LiveInv, EditInv, Placed
    <3> QED BY <3>1 DEF Accepted
  <2> QED BY <2>1, <2>2
<1>4. BusyInv'
  BY <1>1, <1>3 DEF BusyInv
<1> QED BY <1>1, <1>2, <1>4 DEF LiveInv

LEMMA ContinueStays ==
  ASSUME IInv, LiveInv, NEW r \in Requests, Continue(r)
  PROVE  LiveInv'
<1>1. Taken("continue", r) /\ UNCHANGED <<configDone, suppress, view, missed>>
  BY DEF Continue
<1>2. CASE AnsweredAtOnce(r) /\ UNCHANGED continuing
  BY <1>1, <1>2, AtOnceStays DEF stateVars
<1>3. CASE Waits(r, "read", "clearing") /\ UNCHANGED <<bkptVars, lapse, continuing>>
  <2>1. UNCHANGED <<bkptVars, view, missed, suppress, continuing>>
    BY <1>1, <1>3
  <2>2. /\ SeqInv' /\ TurnInv' /\ StatusInv' /\ BookInv' /\ SetInv' /\ EditInv'
        /\ status' = status /\ Runs' = Runs /\ (Resumes => Resumes')
        /\ pc[r] = "idle" /\ pc'[r] = "clearing" /\ \A t \in Tasks : t # r => pc'[t] = pc[t]
        /\ \A q \in Requests : Accepted(q)' = Accepted(q)
    BY <1>1, <1>3, <2>1, StartsWell DEF Editing, Setting, Leaving
  <2>3. ViewInv'
    BY <2>1, <2>2, NumbersOfRequests, ViewKeeps DEF LiveInv, Muting, Reporting
  <2>4. BusyInv'
    BY <2>1, <2>2, NumbersOfRequests, BusyKeeps DEF LiveInv
  <2> QED BY <2>2, <2>3, <2>4 DEF LiveInv
<1>4. CASE Waits(r, "continue", "continuing") /\ continuing' = TRUE /\ UNCHANGED <<bkptVars, lapse>>
  BY <1>1, <1>4, ResumingStays
<1> QED BY <1>2, <1>3, <1>4 DEF Continue

LEMMA GotoTargetsStays ==
  ASSUME IInv, LiveInv, NEW r \in Requests, GotoTargets(r)
  PROVE  LiveInv'
BY ResumingStays DEF GotoTargets

LEMMA PauseStays ==
  ASSUME IInv, LiveInv, NEW r \in Requests, Pause(r)
  PROVE  LiveInv'
<1>1. /\ Taken("pause", r) /\ Waits(r, "interrupt", "pausing")
      /\ UNCHANGED <<bkptVars, view, missed, suppress, continuing>>
  BY DEF Pause, stateVars
<1>2. /\ SeqInv' /\ TurnInv' /\ StatusInv' /\ BookInv' /\ SetInv' /\ EditInv'
      /\ status' = status /\ Runs' = Runs /\ (Resumes => Resumes')
      /\ pc[r] = "idle" /\ pc'[r] = "pausing" /\ \A t \in Tasks : t # r => pc'[t] = pc[t]
      /\ \A q \in Requests : Accepted(q)' = Accepted(q)
  BY <1>1, StartsWell DEF Editing, Setting, Leaving
<1>3. ViewInv'
  BY <1>1, <1>2, NumbersOfRequests, ViewKeeps DEF LiveInv, Muting, Reporting
<1>4. BusyInv'
  BY <1>1, <1>2, NumbersOfRequests, BusyKeeps DEF LiveInv
<1> QED BY <1>2, <1>3, <1>4 DEF LiveInv

\* A reset that starts has the stops suppressed and will end in a report.
LEMMA ResetStays ==
  ASSUME IInv, LiveInv, NEW r \in Requests, Reset(r)
  PROVE  LiveInv'
<1>1. /\ Taken("reset", r) /\ Waits(r, "read", "resetting")
      /\ UNCHANGED <<bkptVars, view, missed, continuing>>
  BY DEF Reset
<1>2. /\ SeqInv' /\ TurnInv' /\ StatusInv' /\ BookInv' /\ SetInv' /\ EditInv'
      /\ status' = status /\ Runs' = Runs /\ (Resumes => Resumes')
      /\ pc[r] = "idle" /\ pc'[r] = "resetting" /\ \A t \in Tasks : t # r => pc'[t] = pc[t]
      /\ \A q \in Requests : Accepted(q)' = Accepted(q)
  BY <1>1, StartsWell DEF Editing, Setting, Leaving
<1>3. ViewInv'
  <2>1. \E t \in Tasks : pc'[t] \in Muting /\ pc'[t] \in Reporting
    BY <1>2, NumbersOfRequests DEF Muting, Reporting
  <2>2. \A q \in Requests : pc'[q] = "resuming" => pc[q] = "resuming"
    BY <1>2, NumbersOfRequests
  <2> QED BY <1>1, <1>2, <2>1, <2>2 DEF LiveInv, ViewInv
<1>4. BusyInv'
  BY <1>1, <1>2, NumbersOfRequests, BusyKeeps DEF LiveInv
<1> QED BY <1>2, <1>3, <1>4 DEF LiveInv

\* The launch may go on: what it was armed for is sent, or the target runs already.
LEMMA ConfigurationStays ==
  ASSUME IInv, LiveInv, NEW r \in Requests, ConfigurationDone(r)
  PROVE  LiveInv'
<1> DEFINE armed == {t \in Tasks : pc[t] = "armed"}
<1>1. /\ UNCHANGED <<gdbVars, inp, out, promiseVars, lifeVars>>
      /\ UNCHANGED <<current, bkptVars, suppress, view, missed>>
      /\ SeqInv /\ TurnInv /\ BookInv /\ Tells(out, status, target) /\ SetInv /\ EditInv
  BY DEF Taken, ConfigurationDone, LiveInv, StatusInv
<1>2. /\ status' = status /\ target' = target /\ out' = out /\ inp' = inp /\ inflight' = inflight
      /\ book' = book /\ op' = op
  BY <1>1 DEF lifeVars, gdbVars, promiseVars, bkptVars
<1>3. Runs' = Runs
  BY <1>2 DEF Runs
<1>4. CASE status = "running" \/ armed = {}
  <2>1. /\ pc' = [t \in Tasks |-> IF t \in armed THEN "ended" ELSE pc[t]]
        /\ UNCHANGED <<queue, continuing>>
    BY <1>4 DEF ConfigurationDone
  <2>2. Send(<< >>) /\ IsSeq(<< >>) /\ ToSet(<< >>) = {}
    BY <1>1, <2>1, NoCommand
  <2>3. /\ SeqInv' /\ TurnInv' /\ BookInv' /\ Tells(out, status, target)'
        /\ Answers' = Answers
    BY <1>1, <1>2, <2>2, SendKeeps
  <2>4. \A t \in Tasks : pc'[t] # pc[t] => pc[t] = "armed" /\ pc'[t] = "ended" /\ status = "running"
    BY <1>4, <2>1
  <2>5. SetInv'
    BY <1>1, <1>2, <2>4, NumbersOfRequests, SetKeeps DEF Setting, Leaving
  <2>6. EditInv'
    <3>1. \A t \in Tasks : pc[t] # "idle" => pc'[t] # "idle"
      BY <2>4
    <3> QED BY <1>1, <1>2, <2>2, <3>1, EditKeeps
  <2>7. Resumes' = Resumes
    BY <1>2, <2>1 DEF Resumes
  <2>8. ViewInv'
    <3>1. CASE status = "running"
      <4>1. view = status /\ view' = status' /\ status' = "running" /\ ~missed /\ ~missed'
        BY <1>1, <1>2, <3>1 DEF LiveInv, ViewInv
      <4>2. suppress => \E t \in Tasks : pc'[t] \in Muting
        BY <2>4 DEF LiveInv, ViewInv, Muting
      <4> QED BY <1>1, <1>2, <3>1, <4>1, <4>2 DEF ViewInv
    <3>2. CASE status # "running"
      BY <1>1, <1>2, <1>3, <2>4, <2>7, <3>2, NumbersOfRequests, ViewKeeps DEF LiveInv
    <3> QED BY <3>1, <3>2
  <2>9. BusyInv'
    <3>1. \A q \in Requests : Accepted(q)' = Accepted(q)
      BY <1>2, <2>3 DEF Accepted
    <3>2. \A q \in Requests : pc[q] \in {"continuing", "jumping"} => pc'[q] = pc[q]
      BY <2>4, NumbersOfRequests
    <3> QED BY <1>2, <1>3, <2>1, <2>7, <3>1, <3>2, BusyKeeps DEF LiveInv
  <2>10. StatusInv'
    BY <1>1, <1>2, <2>3 DEF StatusInv, LiveInv
  <2> QED BY <2>3, <2>5, <2>6, <2>8, <2>9, <2>10 DEF LiveInv
<1>5. CASE ~(status = "running" \/ armed = {})
  <2>1. pc' = [t \in Tasks |-> IF t \in armed THEN "kicking" ELSE pc[t]]
    BY <1>5 DEF ConfigurationDone
  <2>2. PICK order \in SetToSeqs(armed) : Send([i \in DOMAIN order |-> Command("continue", order[i])])
    BY <1>5 DEF ConfigurationDone
  <2> DEFINE kicks == [i \in DOMAIN order |-> Command("continue", order[i])]
  <2>3. /\ IsSeq(kicks) /\ ToSet(kicks) # {}
        /\ \A c \in ToSet(kicks) : c.op = "continue" /\ c.who \in armed
    <3>1. IsFiniteSet(armed)
      <4>1. IsFiniteSet(Tasks)
        BY NumbersOfRequests, FS_Interval DEF Tasks
      <4> QED BY <4>1, FS_Subset
    <3>2. Cardinality(armed) \in Nat \ {0}
      BY <1>5, <3>1, FS_CardinalityType, FS_EmptySet
    <3>3. order \in [1 .. Cardinality(armed) -> armed]
      BY DEF SetToSeqs
    <3>4. kicks \in Seq({Command("continue", t) : t \in armed}) /\ Len(kicks) = Cardinality(armed)
      BY <3>2, <3>3
    <3>5. IsSeq(kicks)
      BY <3>4 DEF IsSeq
    <3>6. kicks[1] \in ToSet(kicks)
      BY <3>2, <3>4, <3>5, SeqPlaces
    <3>7. ASSUME NEW c \in ToSet(kicks) PROVE c.op = "continue" /\ c.who \in armed
      <4>1. PICK i \in 1 .. Cardinality(armed) : kicks[i] = c
        BY <3>4, <3>5, SeqPlaces
      <4>2. c = Command("continue", order[i]) /\ order[i] \in armed
        BY <3>3, <4>1
      <4> QED BY <4>2, OneCommand
    <3> QED BY <3>5, <3>6, <3>7
  <2>4. Send(kicks)
    BY <2>2
  <2> HIDE DEF kicks
  <2>5. /\ SeqInv' /\ TurnInv' /\ BookInv' /\ Tells(out, status, target)'
        /\ Answers' = Answers
    BY <1>1, <1>2, <2>3, <2>4, SendKeeps
  <2>6. \A t \in Tasks : IF pc[t] = "armed" THEN pc'[t] = "kicking" ELSE pc'[t] = pc[t]
    BY <2>1
  <2>7. SetInv'
    BY <1>1, <1>2, <2>6, NumbersOfRequests, SetKeeps DEF Setting, Leaving
  <2>8. EditInv'
    <3>1. \A t \in Tasks : pc[t] # "idle" => pc'[t] # "idle"
      BY <2>6
    <3>2. \A c \in ToSet(kicks) : Plain(c)'
      BY <2>3, <2>6 DEF Plain, Editing
    <3>3. UNCHANGED bkptVars
      BY <1>1
    <3> QED BY <1>1, <1>2, <2>3, <2>4, <3>1, <3>2, <3>3, EditKeeps
  <2>9. Resumes'
    BY <1>1, <1>2, <2>3, <2>4, ResumesKeeps
  <2>10. ViewInv'
    <3>1. suppress => \E t \in Tasks : pc'[t] \in Muting
      BY <2>6 DEF LiveInv, ViewInv, Muting
    <3> QED BY <1>1, <1>2, <2>9, <3>1 DEF LiveInv, ViewInv
  <2>11. BusyInv'
    BY <1>2, <1>5, <2>9 DEF BusyInv, LiveInv, StatusInv
  <2>12. StatusInv'
    BY <1>1, <1>2, <2>5 DEF StatusInv, LiveInv
  <2> QED BY <2>5, <2>7, <2>8, <2>10, <2>11, <2>12 DEF LiveInv
<1> QED BY <1>4, <1>5

-----------------------------------------------------------------------------
(* A task goes on *)

\* With the answer to a command that does not edit.
LEMMA SettlesWell ==
  ASSUME IInv, LiveInv, NEW t \in Tasks, NEW o, o \notin Editing, Settled(o, t),
         NEW to, to # "idle", Goto(t, to), UNCHANGED bkptVars,
         view' \in {"running", "stopped"},
         NEW cmds, IsSeq(cmds), Send(cmds),
         \A c \in ToSet(cmds) : c.op \notin Editing \cup {"none"} /\ c.who = t
  PROVE  /\ SeqInv' /\ TurnInv' /\ StatusInv' /\ BookInv' /\ EditInv'
         /\ status' = status /\ target' = target /\ out' = out /\ Runs' = Runs /\ (Resumes => Resumes')
         /\ (\E c \in ToSet(cmds) : c.op = "continue") => Resumes'
         /\ pc'[t] = to /\ \A u \in Tasks : u # t => pc'[u] = pc[u]
         /\ \A q : ~Accepted(q)'
         /\ (result.ok \/ o \in NeedsHalt)
         /\ inflight.op = o /\ inflight.who = t /\ result \in Answers /\ op' = op
<1>1. SeqInv /\ TurnInv /\ BookInv /\ Tells(out, status, target) /\ EditInv
  BY DEF LiveInv, StatusInv
<1>2. /\ inflight # Idle /\ inflight.op = o /\ inflight.who = t
      /\ inflight' = Idle /\ inp' = << >> /\ out' = out /\ inp = << >>
      /\ result \in Answers /\ Answers' = {}
      /\ table' = table /\ status' = status /\ target' = target
      /\ table = Edited(result) /\ (result.ok \/ o \in NeedsHalt)
      /\ TurnInv' /\ Tells(out, status, target)'
  BY <1>1, SettledKeeps
<1>3. op' = op /\ book' = book /\ UNCHANGED bkptVars
  BY DEF bkptVars
<1>4. BookInv'
  BY <1>2, <1>3, NothingEdited, BookIsRight
<1>5. SeqInv'
  <2>1. IsSeq(queue')
    BY <1>1, ConcatPlaces DEF Send, SeqInv
  <2> QED BY <1>1, <1>2, <2>1 DEF SeqInv
<1>6. StatusInv'
  BY <1>2 DEF LiveInv, StatusInv
<1>7. pc'[t] = to /\ \A u \in Tasks : u # t => pc'[u] = pc[u]
  BY DEF Goto, IInv, SessionTypes
<1>8. EditInv'
  <2>1. \A u \in Tasks : pc[u] # "idle" => pc'[u] # "idle"
    BY <1>7
  <2>2. \A c \in ToSet(cmds) : Plain(c)'
    BY <1>7 DEF Plain
  <2> QED BY <1>1, <1>2, <1>3, <2>1, <2>2, EditKeeps
<1>9. Runs' = Runs
  BY <1>2 DEF Runs
<1>10. (Resumes => Resumes') /\ ((\E c \in ToSet(cmds) : c.op = "continue") => Resumes')
  BY <1>1, <1>2, ResumesKeeps
<1>11. \A q : ~Accepted(q)'
  BY <1>2 DEF Accepted
<1> QED BY <1>2, <1>3, <1>4, <1>5, <1>6, <1>7, <1>8, <1>9, <1>10, <1>11

\* One that neither sets breakpoints nor has the client to be told.
LEMMA GoesOnWell ==
  ASSUME IInv, LiveInv, NEW t \in Tasks, NEW o, o \notin Editing, Settled(o, t),
         pc[t] \notin Setting \cup Muting \cup Reporting,
         NEW to, to \notin {"idle"} \cup Setting \cup Leaving, Goto(t, to),
         UNCHANGED <<bkptVars, view, missed, suppress>>,
         \A r \in Requests : r # t /\ current = r => current' = r,
         NEW cmds, IsSeq(cmds), Send(cmds),
         \A c \in ToSet(cmds) : c.op \notin Editing \cup {"none"} /\ c.who = t
  PROVE  /\ SeqInv' /\ TurnInv' /\ StatusInv' /\ BookInv' /\ SetInv' /\ EditInv' /\ ViewInv'
         /\ status' = status /\ Runs' = Runs /\ (Resumes => Resumes')
         /\ pc'[t] = to /\ \A u \in Tasks : u # t => pc'[u] = pc[u]
         /\ \A q : ~Accepted(q)'
<1>1. view' \in {"running", "stopped"} /\ UNCHANGED bkptVars /\ to # "idle"
  BY DEF LiveInv, StatusInv
<1>2. /\ SeqInv' /\ TurnInv' /\ StatusInv' /\ BookInv' /\ EditInv'
      /\ status' = status /\ Runs' = Runs /\ (Resumes => Resumes')
      /\ pc'[t] = to /\ \A u \in Tasks : u # t => pc'[u] = pc[u]
      /\ \A q : ~Accepted(q)'
      /\ op' = op
  BY <1>1, SettlesWell
<1>3. SetInv'
  <2>1. \A u \in Tasks : pc'[u] # pc[u] => pc[u] \notin Setting /\ pc'[u] \notin Setting \cup Leaving
    BY <1>2
  <2>2. \A r \in Requests : pc[r] \in Setting /\ current = r => current' = r
    OBVIOUS
  <2> QED BY <1>2, <2>1, <2>2, SetKeeps DEF LiveInv
<1>4. ViewInv'
  <2>1. \A u \in Tasks : pc[u] \in Muting \cup Reporting => pc'[u] = pc[u]
    BY <1>2
  <2>2. \A r \in Requests : pc'[r] = "resuming" => pc[r] = "resuming"
    BY <1>2, NumbersOfRequests DEF Setting
  <2> QED BY <1>2, <2>1, <2>2, ViewKeeps DEF LiveInv
<1> QED BY <1>2, <1>3, <1>4

\* A request that is answered is current no longer, others that are stay so.
LEMMA AnswerLeaves ==
  ASSUME NEW r, Answer(r)
  PROVE  \A q : q # r /\ current = q => current' = q
BY DEF Answer

\* The commands that end a request and do not resume the target, and the kick.
LEMMA EndsStay ==
  ASSUME IInv, LiveInv, NEW t \in Tasks, NEW o \in {"read", "interrupt", "continue"}, Settled(o, t),
         pc[t] \in {"reading", "pausing", "kicking"}, Goto(t, "ended"),
         UNCHANGED <<queue, bkptVars, stateVars>>,
         \A r \in Requests : r # t /\ current = r => current' = r
  PROVE  LiveInv'
<1>1. Send(<< >>) /\ IsSeq(<< >>) /\ ToSet(<< >>) = {}
  BY NoCommand DEF LiveInv
<1>2. /\ o \notin Editing /\ pc[t] \notin Setting \cup Muting \cup Reporting
      /\ "ended" \notin {"idle"} \cup Setting \cup Leaving
      /\ UNCHANGED <<bkptVars, view, missed, suppress>> /\ continuing' = continuing
      /\ pc[t] \notin {"continuing", "jumping"}
  BY DEF Editing, Setting, Muting, Reporting, Leaving, stateVars
<1>3. /\ SeqInv' /\ TurnInv' /\ StatusInv' /\ BookInv' /\ SetInv' /\ EditInv' /\ ViewInv'
      /\ status' = status /\ Runs' = Runs /\ (Resumes => Resumes')
      /\ pc'[t] = "ended" /\ \A u \in Tasks : u # t => pc'[u] = pc[u]
      /\ \A q : ~Accepted(q)'
  BY <1>1, <1>2, GoesOnWell
<1>4. BusyInv'
  BY <1>2, <1>3, NumbersOfRequests, BusyKeeps DEF LiveInv
<1> QED BY <1>3, <1>4 DEF LiveInv

LEMMA ReadingStays ==
  ASSUME IInv, LiveInv, NEW r \in Requests, Reading(r)
  PROVE  LiveInv'
BY EndsStay, AnswerLeaves, NumbersOfRequests DEF Reading

LEMMA PausingStays ==
  ASSUME IInv, LiveInv, NEW r \in Requests, Pausing(r)
  PROVE  LiveInv'
BY EndsStay, AnswerLeaves, NumbersOfRequests DEF Pausing

LEMMA KickingStays ==
  ASSUME IInv, LiveInv, NEW t \in Tasks, Kicking(t)
  PROVE  LiveInv'
BY EndsStay DEF Kicking, requestVars

LEMMA ClearingStays ==
  ASSUME IInv, LiveInv, NEW r \in Requests, Clearing(r)
  PROVE  LiveInv'
<1>1. /\ Settled("read", r) /\ pc[r] = "clearing" /\ Goto(r, "continuing")
      /\ Send(<<Command("continue", r)>>)
      /\ UNCHANGED <<bkptVars, view, missed, suppress>> /\ current' = current /\ r \in Tasks
  BY NumbersOfRequests DEF Clearing, requestVars
<1>2. /\ pc[r] \notin Setting \cup Muting \cup Reporting
      /\ "continuing" \notin {"idle"} \cup Setting \cup Leaving
      /\ "read" \notin Editing /\ "continue" \notin Editing \cup {"none"}
  BY <1>1 DEF Editing, Setting, Muting, Reporting, Leaving
<1>3. /\ SeqInv' /\ TurnInv' /\ StatusInv' /\ BookInv' /\ SetInv' /\ EditInv' /\ ViewInv'
      /\ pc'[r] = "continuing"
      /\ \A q : ~Accepted(q)'
  BY <1>1, <1>2, OneCommand, GoesOnWell
<1>4. BusyInv'
  BY <1>3 DEF BusyInv
<1> QED BY <1>3, <1>4 DEF LiveInv

\* Of a command to resume the target: it was obeyed, or the client may resume it again.
LEMMA ResumedStays ==
  ASSUME IInv, LiveInv, NEW r \in Requests, NEW o \in {"continue", "jump"}, Settled(o, r),
         pc[r] \in {"continuing", "jumping"}, Goto(r, "ended"), Answer(r),
         UNCHANGED <<queue, bkptVars, suppress, view, missed>>,
         continuing' => continuing /\ result.ok
  PROVE  LiveInv'
<1>1. Send(<< >>) /\ IsSeq(<< >>) /\ ToSet(<< >>) = {}
  BY NoCommand DEF LiveInv
<1>2. /\ o \notin Editing /\ pc[r] \notin Setting \cup Muting \cup Reporting
      /\ "ended" \notin {"idle"} \cup Setting \cup Leaving
      /\ UNCHANGED <<bkptVars, view, missed, suppress>> /\ r \in Tasks
  BY NumbersOfRequests DEF Editing, Setting, Muting, Reporting, Leaving
<1>3. /\ SeqInv' /\ TurnInv' /\ StatusInv' /\ BookInv' /\ SetInv' /\ EditInv' /\ ViewInv'
      /\ status' = status /\ Runs' = Runs /\ (Resumes => Resumes')
      /\ pc'[r] = "ended" /\ \A u \in Tasks : u # r => pc'[u] = pc[u]
      /\ \A q : ~Accepted(q)'
  BY <1>1, <1>2, AnswerLeaves, GoesOnWell
<1>4. result \in Answers /\ inflight.op = o /\ inflight.who = r
  BY SettledKeeps DEF LiveInv, StatusInv
<1>5. BusyInv'
  <2>1. SUFFICES ASSUME continuing' PROVE BusyInv'
    BY DEF BusyInv
  <2>2. Accepted(r) /\ continuing
    BY <1>4, <2>1 DEF Accepted
  <2> QED BY <1>3, <2>2, NumbersOfRequests, BusyKeeps DEF LiveInv
<1> QED BY <1>3, <1>5 DEF LiveInv

LEMMA ContinuingStays ==
  ASSUME IInv, LiveInv, NEW r \in Requests, Continuing(r)
  PROVE  LiveInv'
BY ResumedStays DEF Continuing

\* A jump that fails is past mending.
LEMMA JumpingStays ==
  ASSUME IInv, LiveInv, NEW r \in Requests, Jumping(r), Live'
  PROVE  LiveInv'
<1>1. result.ok /\ continuing' = continuing
  BY DEF Jumping, Live, stateVars
<1> QED BY <1>1, ResumedStays DEF Jumping, stateVars

-----------------------------------------------------------------------------
(* runSessionModeCommands *)

\* A task of the launch or of a reset moves, and no other is let down.
LEMMA ModeSetKeeps ==
  ASSUME IInv, SetInv, UNCHANGED op, NEW t \in Tasks, pc[t] \notin Setting,
         pc'[t] \notin Setting \cup Leaving, \A u \in Tasks : u # t => pc'[u] = pc[u],
         \A r \in Requests : r # t /\ current = r => current' = r
  PROVE  SetInv'
BY SetKeeps

\* A reset that fails is past mending.
LEMMA ResettingStays ==
  ASSUME IInv, LiveInv, NEW r \in Requests, Resetting(r), Live'
  PROVE  LiveInv'
<1>1. result.ok
  BY DEF Resetting, Live
<1>2. /\ Settled("read", r) /\ pc[r] = "resetting" /\ Goto(r, "mode") /\ r \in Tasks
      /\ Send(<<Command("read", r)>>)
      /\ UNCHANGED <<bkptVars, view, missed, suppress, continuing, current>>
  BY <1>1, NumbersOfRequests DEF Resetting, stateVars
<1>3. view' \in {"running", "stopped"} /\ "read" \notin Editing \cup {"none"} /\ UNCHANGED bkptVars
  BY <1>2 DEF LiveInv, StatusInv, Editing
<1>4. /\ SeqInv' /\ TurnInv' /\ StatusInv' /\ BookInv' /\ EditInv'
      /\ status' = status /\ Runs' = Runs /\ (Resumes => Resumes')
      /\ pc'[r] = "mode" /\ \A u \in Tasks : u # r => pc'[u] = pc[u]
      /\ \A q : ~Accepted(q)'
      /\ op' = op
  BY <1>2, <1>3, OneCommand, SettlesWell
<1>5. SetInv'
  BY <1>2, <1>4, ModeSetKeeps DEF LiveInv, Setting, Leaving
<1>6. ViewInv'
  <2>1. \E t \in Tasks : pc'[t] \in Muting /\ pc'[t] \in Reporting
    BY <1>2, <1>4 DEF Muting, Reporting
  <2>2. \A q \in Requests : pc'[q] = "resuming" => pc[q] = "resuming"
    BY <1>4, NumbersOfRequests
  <2> QED BY <1>2, <1>4, <2>1, <2>2 DEF LiveInv, ViewInv
<1>7. BusyInv'
  <2>1. \A q \in Requests : pc[q] \in {"continuing", "jumping"} => pc'[q] = pc[q]
    BY <1>2, <1>4, NumbersOfRequests
  <2> QED BY <1>2, <1>4, <2>1, BusyKeeps DEF LiveInv
<1> QED BY <1>4, <1>5, <1>6, <1>7 DEF LiveInv

\* Of a task that answers, if it is a request.
LEMMA AnswerTaskLeaves ==
  ASSUME NEW t \in Tasks, AnswerTask(t)
  PROVE  \A r \in Requests : r # t /\ current = r => current' = r
BY AnswerLeaves DEF AnswerTask

\* The stops are let through again, and the target runs, or will, or is reported.
LEMMA ModeCommandsStays ==
  ASSUME IInv, LiveInv, NEW t \in Tasks, ModeCommands(t)
  PROVE  LiveInv'
<1>1. /\ Settled("read", t) /\ pc[t] \in {"mode", "attaching"}
      /\ suppress' = FALSE /\ view' = view /\ missed' = missed /\ UNCHANGED bkptVars
      /\ view' \in {"running", "stopped"} /\ "read" \notin Editing
      /\ pc[t] \notin Setting
  BY DEF ModeCommands, LiveInv, StatusInv, Editing, Setting
<1>2. \A q \in Requests : pc[q] \in {"continuing", "jumping"} => q # t
  BY <1>1
\* The command it sends, if any, and where it goes.
<1>3. ASSUME NEW to \in {"flushing", "kicking", "ended", "armed"}, Goto(t, to),
             NEW cmds, IsSeq(cmds), Send(cmds),
             \A c \in ToSet(cmds) : c.op \in {"read", "continue"} /\ c.who = t,
             \A r \in Requests : r # t /\ current = r => current' = r,
             \/ to \in {"flushing", "armed"}
             \/ to = "kicking" /\ \E c \in ToSet(cmds) : c.op = "continue"
             \/ status = "running",
             \/ continuing' = continuing
             \/ status = "stopped" /\ \E c \in ToSet(cmds) : c.op = "continue"
      PROVE  LiveInv'
  <2>1. /\ SeqInv' /\ TurnInv' /\ StatusInv' /\ BookInv' /\ EditInv'
        /\ status' = status /\ Runs' = Runs /\ (Resumes => Resumes')
        /\ (\E c \in ToSet(cmds) : c.op = "continue") => Resumes'
        /\ pc'[t] = to /\ \A u \in Tasks : u # t => pc'[u] = pc[u]
        /\ \A q : ~Accepted(q)'
        /\ op' = op
    <3>1. to # "idle" /\ \A c \in ToSet(cmds) : c.op \notin Editing \cup {"none"} /\ c.who = t
      BY <1>3 DEF Editing
    <3> QED BY <1>1, <1>3, <3>1, SettlesWell
  <2>2. SetInv'
    BY <1>1, <1>3, <2>1, ModeSetKeeps DEF LiveInv, Setting, Leaving
  <2>3. \A q \in Requests : pc'[q] = "resuming" => pc[q] = "resuming"
    BY <1>3, <2>1, NumbersOfRequests
  <2>4. ViewInv'
    <3>1. to \in {"flushing", "armed"} => \E u \in Tasks : pc'[u] \in Reporting
      BY <2>1 DEF Reporting
    <3>2. status = "running" => view = status /\ ~missed
      BY DEF LiveInv, ViewInv
    <3> QED BY <1>1, <1>3, <2>1, <2>3, <3>1, <3>2 DEF LiveInv, ViewInv
  <2>5. BusyInv'
    <3>1. CASE continuing' = continuing
      BY <1>2, <2>1, <3>1, NumbersOfRequests, BusyKeeps DEF LiveInv
    <3>2. CASE status = "stopped" /\ \E c \in ToSet(cmds) : c.op = "continue"
      BY <2>1, <3>2 DEF BusyInv
    <3> QED BY <1>3, <3>1, <3>2
  <2> QED BY <2>1, <2>2, <2>4, <2>5 DEF LiveInv
<1>4. CASE ~RunsOn(t)
  <2>1. Goto(t, "flushing") /\ Send(<<Command("read", t)>>) /\ UNCHANGED <<current, continuing>>
    BY <1>4 DEF ModeCommands
  <2> QED BY <1>3, <2>1, OneCommand
<1>5. CASE RunsOn(t) /\ configDone /\ status # "running"
  <2>1. /\ Goto(t, "kicking") /\ Send(<<Command("continue", t)>>) /\ AnswerTask(t)
        /\ status = "stopped"
    BY <1>5 DEF ModeCommands, LiveInv, StatusInv
  <2>2. \E c \in ToSet(<<Command("continue", t)>>) : c.op = "continue"
    BY OneCommand
  <2> QED BY <1>3, <2>1, <2>2, OneCommand, AnswerTaskLeaves
<1>6. CASE RunsOn(t) /\ ~(configDone /\ status # "running")
  <2>1. /\ Goto(t, IF configDone THEN "ended" ELSE "armed") /\ AnswerTask(t)
        /\ UNCHANGED <<queue, continuing>>
    BY <1>6 DEF ModeCommands
  <2>2. Send(<< >>) /\ IsSeq(<< >>) /\ ToSet(<< >>) = {}
    BY <2>1, NoCommand DEF LiveInv
  <2>3. CASE configDone
    BY <1>3, <1>6, <2>1, <2>2, <2>3, AnswerTaskLeaves
  <2>4. CASE ~configDone
    BY <1>3, <2>1, <2>2, <2>4, AnswerTaskLeaves
  <2> QED BY <2>3, <2>4
<1> QED BY <1>4, <1>5, <1>6

\* The client is told where the target is, unless a stop is to be kept from it.
LEMMA FlushingStays ==
  ASSUME IInv, LiveInv, NEW t \in Tasks, Flushing(t)
  PROVE  LiveInv'
<1>1. /\ Settled("read", t) /\ pc[t] = "flushing" /\ Goto(t, "ended") /\ AnswerTask(t)
      /\ view' = IF status = "running" THEN "running" ELSE IF suppress THEN view ELSE "stopped"
      /\ missed' = (missed /\ suppress)
      /\ UNCHANGED <<queue, continuing, suppress>> /\ UNCHANGED bkptVars
  BY DEF Flushing
<1>2. Send(<< >>) /\ IsSeq(<< >>) /\ ToSet(<< >>) = {}
  BY <1>1, NoCommand DEF LiveInv
<1>3. /\ status \in {"running", "stopped"} /\ view' \in {"running", "stopped"}
      /\ "read" \notin Editing
  BY <1>1 DEF LiveInv, StatusInv, Editing
<1>4. /\ SeqInv' /\ TurnInv' /\ StatusInv' /\ BookInv' /\ EditInv'
      /\ status' = status /\ Runs' = Runs /\ (Resumes => Resumes')
      /\ pc'[t] = "ended" /\ \A u \in Tasks : u # t => pc'[u] = pc[u]
      /\ \A q : ~Accepted(q)'
      /\ op' = op
  BY <1>1, <1>2, <1>3, SettlesWell
<1>5. SetInv'
  BY <1>1, <1>4, AnswerTaskLeaves, ModeSetKeeps DEF LiveInv, Setting, Leaving
<1>6. suppress => \E u \in Tasks : u # t /\ pc[u] \in Muting /\ pc'[u] = pc[u]
  BY <1>1, <1>4 DEF LiveInv, ViewInv, Muting
<1>7. ViewInv'
  <2>1. view' # status => suppress /\ view' = view /\ (~missed' => ~missed)
    <3>1. view' # status => suppress /\ view' = view
      BY <1>1, <1>3
    <3>2. suppress /\ ~missed' => ~missed
      BY <1>1
    <3> QED BY <3>1, <3>2
  <2>2. status = "running" => view' = "running" /\ ~missed'
    BY <1>1 DEF LiveInv, ViewInv
  <2>3. \A q \in Requests : pc'[q] = "resuming" => pc[q] = "resuming"
    BY <1>4, NumbersOfRequests
  <2>4. ASSUME view' # status, ~missed' PROVE Runs' \/ Resumes' \/ \E u \in Tasks : pc'[u] \in Reporting
    <3>1. PICK u \in Tasks : pc[u] \in Muting /\ pc'[u] = pc[u]
      BY <1>6, <2>1, <2>4
    <3>2. CASE pc[u] = "resuming"
      <4>1. u \in Requests
        BY <3>2, NumbersOfRequests DEF LiveInv, SetInv, SetPlace, Setting, Tasks, Requests
      <4>2. Runs \/ Resumes
        BY <2>1, <2>4, <3>2, <4>1 DEF LiveInv, ViewInv
      <4> QED BY <1>4, <4>2
    <3>3. CASE pc[u] # "resuming"
      BY <3>1, <3>3 DEF Muting, Reporting
    <3> QED BY <3>2, <3>3
  <2> QED BY <1>1, <1>4, <1>6, <2>1, <2>2, <2>3, <2>4 DEF LiveInv, ViewInv
<1>8. BusyInv'
  <2>1. \A q \in Requests : pc[q] \in {"continuing", "jumping"} => pc'[q] = pc[q]
    BY <1>1, <1>4, NumbersOfRequests
  <2> QED BY <1>1, <1>4, <2>1, BusyKeeps DEF LiveInv
<1> QED BY <1>4, <1>5, <1>7, <1>8 DEF LiveInv

-----------------------------------------------------------------------------
(* Breakpoints: what a request does before and after its operation *)

\* One at a time.
LEMMA OneSets ==
  ASSUME SetInv, NEW r \in Requests, pc[r] \in Setting
  PROVE  /\ current = r
         /\ \A q \in Requests :
              q # r => pc[q] \notin Setting /\ op[q] \notin {"armed", "deleting", "inserting"}
<1>1. current = r
  BY DEF SetInv, SetPlace
<1>2. \A q \in Requests : q # r => pc[q] \notin Setting
  BY <1>1 DEF SetInv, SetPlace
<1> QED BY <1>1, <1>2 DEF SetInv, SetPlace, Setting

LEMMA NobodySets ==
  ASSUME SetInv, current = 0
  PROVE  \A q \in Requests : pc[q] \notin Setting /\ op[q] \notin {"armed", "deleting", "inserting"}
<1>1. \A q \in Requests : pc[q] \notin Setting
  BY NumbersOfRequests DEF SetInv, SetPlace
<1> QED BY <1>1 DEF SetInv, SetPlace, Setting

\* The target has been interrupted: the stop is still to come, or its operation is over.
LEMMA InterruptingStays ==
  ASSUME IInv, LiveInv, NEW r \in Requests, Interrupting(r)
  PROVE  LiveInv'
<1>1. /\ Settled("interrupt", r) /\ pc[r] = "interrupting" /\ r \in Tasks
      /\ UNCHANGED <<bkptVars, view, missed, suppress, continuing, current>> /\ UNCHANGED bkptVars
      /\ view' \in {"running", "stopped"}
      /\ "interrupt" \notin Editing \cup NeedsHalt
      /\ SetInv
  BY NumbersOfRequests DEF Interrupting, requestVars, stateVars, LiveInv, StatusInv, Editing, NeedsHalt
<1>2. current = r /\ \A q \in Requests : q # r => pc[q] \notin Setting
  BY <1>1, OneSets DEF Setting
<1>3. ASSUME NEW to \in {"halting", "resuming"}, Goto(r, to),
             NEW cmds, IsSeq(cmds), Send(cmds),
             \A c \in ToSet(cmds) : c.op = "continue" /\ c.who = r,
             \/ to = "halting"
             \/ op[r] = "over" /\ \E c \in ToSet(cmds) : c.op = "continue"
      PROVE  LiveInv'
  <2>1. /\ SeqInv' /\ TurnInv' /\ StatusInv' /\ BookInv' /\ EditInv'
        /\ status' = status /\ Runs' = Runs /\ (Resumes => Resumes')
        /\ (\E c \in ToSet(cmds) : c.op = "continue") => Resumes'
        /\ pc'[r] = to /\ \A u \in Tasks : u # r => pc'[u] = pc[u]
        /\ \A q : ~Accepted(q)'
        /\ op' = op
    <3>1. to # "idle" /\ "interrupt" \notin Editing
          /\ \A c \in ToSet(cmds) : c.op \notin Editing \cup {"none"} /\ c.who = r
      BY <1>1, <1>3 DEF Editing
    <3> QED BY <1>1, <1>3, <3>1, SettlesWell
  <2>2. SetInv'
    <3>1. pc'[0] \notin Setting
      BY <1>1, <2>1, NumbersOfRequests DEF SetInv, Tasks
    <3>2. ASSUME NEW q \in Requests
          PROVE  SetPlace(q)'
      <4>1. CASE q = r
        BY <1>1, <1>2, <1>3, <2>1, <4>1 DEF Leaving, SetPlace
      <4>2. CASE q # r
        BY <1>1, <2>1, <4>2, NumbersOfRequests DEF SetInv, SetPlace
      <4> QED BY <4>1, <4>2
    <3> QED BY <3>1, <3>2 DEF SetInv
  <2>3. ViewInv'
    <3>1. pc'[r] \in Muting
      BY <1>3, <2>1 DEF Muting
    <3>2. to = "halting" => pc'[r] \in Reporting
      BY <2>1 DEF Reporting
    <3>3. \A q \in Requests : pc'[q] = "resuming" => q = r
      BY <1>2, <2>1, NumbersOfRequests DEF Setting
    <3> QED BY <1>1, <1>3, <2>1, <3>1, <3>2, <3>3 DEF LiveInv, ViewInv
  <2>4. BusyInv'
    <3>1. \A q \in Requests : pc[q] \in {"continuing", "jumping"} => pc'[q] = pc[q]
      BY <1>1, <2>1, NumbersOfRequests
    <3> QED BY <1>1, <2>1, <3>1, BusyKeeps DEF LiveInv
  <2> QED BY <2>1, <2>2, <2>3, <2>4 DEF LiveInv
<1>4. result.ok
  BY <1>1, SettledKeeps DEF LiveInv, StatusInv
<1>5. CASE op[r] # "over"
  <2>1. Goto(r, "halting") /\ UNCHANGED queue
    BY <1>4, <1>5 DEF Interrupting
  <2>2. Send(<< >>) /\ IsSeq(<< >>) /\ ToSet(<< >>) = {}
    BY <2>1, NoCommand DEF LiveInv
  <2> QED BY <1>3, <2>1, <2>2
<1>6. CASE op[r] = "over"
  <2>1. Goto(r, "resuming") /\ Send(<<Command("continue", r)>>)
    BY <1>6 DEF Interrupting
  <2>2. \E c \in ToSet(<<Command("continue", r)>>) : c.op = "continue"
    BY OneCommand
  <2> QED BY <1>3, <1>6, <2>1, <2>2, OneCommand
<1> QED BY <1>5, <1>6

\* The target was resumed: the request has been answered, and stops are let through.
LEMMA ResumingBackStays ==
  ASSUME IInv, LiveInv, NEW r \in Requests, Resuming(r)
  PROVE  LiveInv'
<1>1. /\ Settled("continue", r) /\ pc[r] = "resuming" /\ r \in Tasks /\ Goto(r, "ended") /\ Answer(r)
      /\ suppress' = FALSE
      /\ UNCHANGED <<queue, view, missed, continuing>> /\ UNCHANGED bkptVars
      /\ view' \in {"running", "stopped"}
      /\ "continue" \notin Editing
      /\ SetInv
  BY NumbersOfRequests DEF Resuming, LiveInv, StatusInv, Editing
<1>2. current = r /\ \A q \in Requests : q # r => pc[q] \notin Setting
  BY <1>1, OneSets DEF Setting
<1>3. Send(<< >>) /\ IsSeq(<< >>) /\ ToSet(<< >>) = {}
  BY <1>1, NoCommand DEF LiveInv
<1>4. /\ SeqInv' /\ TurnInv' /\ StatusInv' /\ BookInv' /\ EditInv'
      /\ status' = status /\ Runs' = Runs /\ (Resumes => Resumes')
      /\ pc'[r] = "ended" /\ \A u \in Tasks : u # r => pc'[u] = pc[u]
      /\ \A q : ~Accepted(q)'
      /\ op' = op
  BY <1>1, <1>3, SettlesWell
<1>5. SetInv'
  <2>1. pc'[0] \notin Setting
    BY <1>1, <1>4, NumbersOfRequests DEF SetInv, Tasks
  <2>2. ASSUME NEW q \in Requests
        PROVE  SetPlace(q)'
    <3>1. CASE q = r
      BY <1>1, <1>4, <3>1 DEF SetInv, SetPlace, Leaving, Setting
    <3>2. CASE q # r
      BY <1>1, <1>2, <1>4, <3>2, NumbersOfRequests DEF SetInv, SetPlace
    <3> QED BY <3>1, <3>2
  <2> QED BY <2>1, <2>2 DEF SetInv
<1>6. ViewInv'
  <2>1. \A q \in Requests : pc'[q] # "resuming"
    BY <1>2, <1>4, NumbersOfRequests DEF Setting
  <2>2. view # status /\ ~missed => Runs \/ Resumes
    BY <1>1 DEF LiveInv, ViewInv
  <2> QED BY <1>1, <1>4, <2>1, <2>2 DEF LiveInv, ViewInv
<1>7. BusyInv'
  <2>1. \A q \in Requests : pc[q] \in {"continuing", "jumping"} => pc'[q] = pc[q]
    BY <1>1, <1>4, NumbersOfRequests
  <2> QED BY <1>1, <1>4, <2>1, BusyKeeps DEF LiveInv
<1> QED BY <1>4, <1>5, <1>6, <1>7 DEF LiveInv

-----------------------------------------------------------------------------
(* Breakpoints: the operation *)

\* An operation that starts sends its first commands when none of another is left.
LEMMA StartedWell ==
  ASSUME SeqInv, EditInv, NEW r \in Requests, Started({r}), UNCHANGED <<book, inflight>>,
         \A q \in Requests : op[q] \notin {"deleting", "inserting"},
         \A t \in Tasks : pc[t] # "idle" => pc'[t] # "idle", pc'[r] # "idle"
  PROVE  /\ EditInv'
         /\ op'[r] \in {"deleting", "inserting"} /\ \A q \in Requests : q # r => op'[q] = op[q]
         /\ Send(FirstCommands(r)) /\ IsSeq(FirstCommands(r))
<1> DEFINE cmds == FirstCommands(r)
<1>1. /\ Send(cmds) /\ IsSeq(cmds) /\ IsSeq(queue)
      /\ Len(cmds) = IF book # {} THEN 1 ELSE BkptsWanted
      /\ \A c \in ToSet(cmds) :
           /\ c.who = r
           /\ IF book # {} THEN c.op = "delete" /\ c.ids = book ELSE c.op = "insert"
  BY OneStarted, FirstOfOne DEF SeqInv
<1>2. /\ op' = [q \in Requests |->
                  IF q \notin {r} THEN op[q] ELSE IF book # {} THEN "deleting" ELSE "inserting"]
      /\ left' = [q \in Requests |-> IF q \in {r} THEN BkptsWanted ELSE left[q]]
  <2>1. Len(Inserts(r)) = BkptsWanted /\ \A q \in {r} : Len(Inserts(q)) = BkptsWanted
    BY InsertsOfOne
  <2> QED BY <2>1 DEF Started
<1> HIDE DEF cmds
<1>3. /\ op'[r] = (IF book # {} THEN "deleting" ELSE "inserting") /\ left'[r] = BkptsWanted
      /\ \A q \in Requests : q # r => op'[q] = op[q] /\ left'[q] = left[q]
  BY <1>2
<1>4. BkptsWanted \in Nat /\ r \in Tasks
  BY SessionAssumption, NumbersOfRequests
<1>5. /\ op' \in [Requests -> {"none", "armed", "deleting", "inserting", "over"}]
      /\ left' \in [Requests -> Int]
  BY <1>2, <1>4 DEF EditInv
<1>6. \A c : Placed(c) => c.op \notin Editing /\ c.op # "none" /\ c.who \in Tasks /\ pc[c.who] # "idle"
  BY DEF Placed, Editing
<1>7. Edits(queue) = {}
  BY <1>1, <1>6, NoEdits DEF EditInv
<1>8. inflight.op \notin Editing
  BY <1>6, PendingIsNone DEF EditInv, Editing
<1>9. \A c : Placed(c) => Placed(c)'
  BY <1>6 DEF Placed, Editing
<1>10. \A c \in ToSet(cmds) : Placed(c)'
  BY <1>1, <1>3, <1>4 DEF Placed
<1>11. /\ \A c \in ToSet(queue') : Placed(c)'
       /\ inflight' # Idle => Placed(inflight)'
  <2>1. ToSet(queue') = ToSet(queue) \cup ToSet(cmds)
    BY <1>1, ConcatPlaces DEF Send
  <2> QED BY <1>9, <1>10, <2>1 DEF EditInv
<1>12. Cardinality(Edits(queue')) = Len(cmds)
  <2>1. \A c \in ToSet(cmds) : c.op \in Editing
    BY <1>1 DEF Editing
  <2> QED BY <1>1, <1>7, <2>1, AllCount DEF Send
<1>13. Owed(r)' = Len(cmds)
  BY <1>1, <1>3 DEF Owed
<1>14. ASSUME NEW q \in Requests, op'[q] \in {"deleting", "inserting"}
       PROVE  Cardinality(Edits(queue')) + (IF inflight'.op \in Editing THEN 1 ELSE 0) = Owed(q)'
  <2>1. q = r
    BY <1>3, <1>14
  <2>2. Len(cmds) \in Nat
    BY <1>1, <1>4
  <2> QED BY <1>8, <1>12, <1>13, <2>1, <2>2
<1>15. \A q \in Requests : op'[q] = "deleting" => left'[q] = BkptsWanted
  BY <1>3
<1> QED BY <1>1, <1>3, <1>5, <1>11, <1>14, <1>15 DEF EditInv, cmds

\* A request that sets breakpoints interrupts a target that runs, or starts at once.
LEMMA SetBreakpointsStays ==
  ASSUME IInv, LiveInv, NEW r \in Requests, SetBreakpoints(r)
  PROVE  LiveInv'
<1>1. /\ UNCHANGED <<gdbVars, inp, out, promiseVars, lifeVars>>
      /\ current = 0 /\ current' = r /\ suppress' = (status = "running")
      /\ UNCHANGED <<book, continuing, view, missed>>
      /\ SeqInv /\ TurnInv /\ BookInv /\ Tells(out, status, target) /\ SetInv /\ EditInv
      /\ r \in Tasks
  BY NumbersOfRequests DEF Taken, SetBreakpoints, LiveInv, StatusInv
<1>2. pc[r] = "idle"
  BY TakenIsDue DEF SetBreakpoints
<1>3. /\ status' = status /\ target' = target /\ out' = out /\ inp' = inp /\ inflight' = inflight
  BY <1>1 DEF lifeVars, gdbVars, promiseVars
<1>4. \A q \in Requests : pc[q] \notin Setting /\ op[q] \notin {"armed", "deleting", "inserting"}
  BY <1>1, NobodySets
<1>5. Runs' = Runs
  BY <1>3 DEF Runs
\* What both have in common.
<1>6. ASSUME NEW cmds, IsSeq(cmds), Send(cmds),
             NEW where \in {"interrupting", "operating"}, Goto(r, where),
             \A q \in Requests : q # r => op'[q] = op[q],
             \/ where = "interrupting" /\ op'[r] = "armed" /\ status = "running"
             \/ where = "operating" /\ op'[r] \in {"deleting", "inserting"} /\ status # "running"
      PROVE  SeqInv' /\ TurnInv' /\ StatusInv' /\ BookInv' /\ SetInv' /\ ViewInv' /\ BusyInv'
  <2>1. /\ SeqInv' /\ TurnInv' /\ BookInv' /\ Tells(out, status, target)'
        /\ Answers' = Answers
    BY <1>1, <1>3, <1>6, SendKeeps
  <2>2. StatusInv'
    BY <1>1, <1>3, <2>1 DEF StatusInv, LiveInv
  <2>3. pc'[r] = where /\ \A t \in Tasks : t # r => pc'[t] = pc[t]
    BY <1>1, <1>6 DEF Goto, IInv, SessionTypes
  <2>4. SetInv'
    <3>1. pc'[0] \notin Setting
      BY <1>1, <2>3, NumbersOfRequests DEF SetInv, Tasks
    <3>2. ASSUME NEW q \in Requests
          PROVE  SetPlace(q)'
      <4>1. CASE q = r
        BY <1>1, <1>6, <2>3, <4>1 DEF Leaving, SetPlace
      <4>2. CASE q # r
        <5>1. pc'[q] = pc[q] /\ op'[q] = op[q]
          BY <1>6, <2>3, <4>2, NumbersOfRequests
        <5> QED BY <1>1, <1>4, <5>1 DEF SetInv, SetPlace
      <4> QED BY <4>1, <4>2
    <3> QED BY <3>1, <3>2 DEF SetInv
  <2>5. Resumes => Resumes'
    BY <1>1, <1>3, <1>6, ResumesKeeps
  <2>6. ViewInv'
    <3>1. \A q \in Requests : pc'[q] # "resuming"
      BY <1>4, <1>6, <2>3, NumbersOfRequests DEF Setting
    <3>2. suppress' => pc'[r] \in Muting
      BY <1>1, <1>6, <2>3 DEF Muting
    <3>3. (\E t \in Tasks : pc[t] \in Reporting) => \E t \in Tasks : pc'[t] \in Reporting
      BY <1>2, <2>3 DEF Reporting
    <3>4. view' = view /\ status' = status
      BY <1>1, <1>3
    <3> QED BY <1>1, <1>5, <2>5, <3>1, <3>2, <3>3, <3>4 DEF LiveInv, ViewInv
  <2>7. BusyInv'
    <3>1. \A q \in Requests : pc[q] \in {"continuing", "jumping"} => pc'[q] = pc[q]
      BY <1>2, <2>3, NumbersOfRequests
    <3>2. \A q \in Requests : Accepted(q)' = Accepted(q)
      BY <1>3, <2>1 DEF Accepted
    <3> QED BY <1>1, <1>3, <1>5, <2>5, <3>1, <3>2, BusyKeeps DEF LiveInv
  <2> QED BY <2>1, <2>2, <2>4, <2>6, <2>7
<1>7. CASE status = "running"
  <2> DEFINE cmds == <<Command("interrupt", r)>>
  <2>1. /\ op' = [op EXCEPT ![r] = "armed"] /\ left' = left /\ Send(cmds) /\ Goto(r, "interrupting")
    BY <1>7 DEF SetBreakpoints
  <2>2. /\ op'[r] = "armed" /\ \A q \in Requests : q # r => op'[q] = op[q]
        /\ op' \in [Requests -> {"none", "armed", "deleting", "inserting", "over"}]
    BY <1>1, <2>1 DEF EditInv
  <2>3. pc'[r] = "interrupting" /\ \A t \in Tasks : t # r => pc'[t] = pc[t]
    BY <1>1, <2>1 DEF Goto, IInv, SessionTypes
  <2>4. /\ IsSeq(cmds) /\ ToSet(cmds) = {Command("interrupt", r)}
        /\ Command("interrupt", r).op = "interrupt" /\ Command("interrupt", r).who = r
    BY OneCommand
  <2> HIDE DEF cmds
  <2>5. EditInv'
    <3>1. \A c : Placed(c) => Placed(c)'
      <4>1. \A c : Placed(c) => c.op \notin Editing
        BY <1>4 DEF Placed, Editing
      <4>2. \A t \in Tasks : pc[t] # "idle" => pc'[t] # "idle"
        BY <2>3
      <4> QED BY <4>1, <4>2 DEF Placed, Editing
    <3>2. \A c \in ToSet(cmds) : Placed(c)'
      BY <1>1, <2>3, <2>4 DEF Placed
    <3>3. ToSet(queue') = ToSet(queue) \cup ToSet(cmds)
      BY <1>1, <2>1, <2>4, ConcatPlaces DEF Send, SeqInv
    <3>4. \A q \in Requests : op'[q] \notin {"deleting", "inserting"}
      BY <1>4, <2>2
    <3>5. inflight' # Idle => Placed(inflight)'
      BY <1>1, <1>3, <3>1 DEF EditInv
    <3>6. \A c \in ToSet(queue') : Placed(c)'
      BY <1>1, <3>1, <3>2, <3>3 DEF EditInv
    <3> QED BY <1>1, <2>1, <2>2, <3>4, <3>5, <3>6 DEF EditInv
  <2> QED BY <1>6, <1>7, <2>1, <2>2, <2>4, <2>5 DEF LiveInv
<1>8. CASE status # "running"
  <2>1. Started({r}) /\ Goto(r, "operating")
    BY <1>8 DEF SetBreakpoints
  <2>2. pc'[r] = "operating" /\ \A t \in Tasks : t # r => pc'[t] = pc[t]
    BY <1>1, <2>1 DEF Goto, IInv, SessionTypes
  <2>3. /\ EditInv'
        /\ op'[r] \in {"deleting", "inserting"} /\ \A q \in Requests : q # r => op'[q] = op[q]
        /\ Send(FirstCommands(r)) /\ IsSeq(FirstCommands(r))
    BY <1>1, <1>3, <1>4, <2>1, <2>2, StartedWell
  <2> QED BY <1>6, <1>8, <2>1, <2>3 DEF LiveInv
<1> QED BY <1>7, <1>8

-----------------------------------------------------------------------------
(* Records of the target *)

\* A record that says something else is received.
LEMMA RunsKeeps ==
  ASSUME NEW s, IsSeq(s), s # << >>, Head(s).rec # "running",
         NEW n \in 1 .. Len(s), s[n].rec = "running"
  PROVE  \E m \in 1 .. Len(Tail(s)) : Tail(s)[m].rec = "running"
<1>1. /\ Len(s) \in Nat \ {0} /\ Head(s) = s[1]
      /\ \A i \in 2 .. Len(s) : i - 1 \in 1 .. Len(Tail(s)) /\ Tail(s)[i - 1] = s[i]
  BY TailPlaces
<1>2. n \in 2 .. Len(s)
  BY <1>1
<1> QED BY <1>1, <1>2

\* Operations that wait for the stop start.  While a handler resumes the target a stop that
\* is suppressed is missed; for any other there is a task that will make up for it.
LEMMA TargetStoppedStays ==
  ASSUME IInv, LiveInv, TargetStopped, Live'
  PROVE  LiveInv'
<1> DEFINE armed == {r \in Requests : op[r] = "armed"}
<1>1. /\ ReceiveAsync("stopped", "stopped")
      /\ view' = IF suppress THEN view ELSE "stopped"
      /\ Started(armed)
      /\ missed' = (suppress /\ \E r \in Requests : pc[r] = "resuming")
      /\ UNCHANGED <<current, pc, book, continuing, suppress>>
      /\ SeqInv /\ TurnInv /\ StatusInv /\ BookInv /\ Tells(out, status, target) /\ SetInv /\ EditInv
  BY DEF TargetStopped, Live, LiveInv, StatusInv, requestVars
<1>2. /\ out # << >> /\ Head(out).rec = "stopped" /\ out' = Tail(out) /\ status' = "stopped"
      /\ UNCHANGED <<target, table, inp, inflight>>
  BY <1>1 DEF ReceiveAsync, gdbVars, promiseVars
<1>3. /\ IsSeq(out') /\ IsSeq(inp') /\ TurnInv' /\ Tells(out, status, target)'
      /\ Answers' = Answers
  <2>1. target # "result"
    BY <1>1 DEF StatusInv
  <2> QED BY <1>1, <2>1, NewsKeeps
<1>4. StatusInv'
  BY <1>1, <1>2, <1>3 DEF StatusInv
<1>5. BookInv'
  BY <1>1, <1>2, <1>3 DEF BookInv, Edited
<1>6. Runs => Runs'
  <2>1. ASSUME Runs PROVE Runs'
    <3>1. PICK n \in 1 .. Len(out) : out[n].rec = "running"
      BY <2>1 DEF Runs
    <3>2. \E m \in 1 .. Len(Tail(out)) : Tail(out)[m].rec = "running"
      BY <1>1, <1>2, <3>1, RunsKeeps DEF SeqInv
    <3> QED BY <1>2, <3>2 DEF Runs
  <2> QED BY <2>1
\* What follows from what is sent.
<1>7. ASSUME NEW cmds, IsSeq(cmds), Send(cmds), EditInv', SetInv'
      PROVE  LiveInv'
  <2>1. SeqInv'
    BY <1>1, <1>3, <1>7, ConcatPlaces DEF SeqInv, Send
  <2>2. Resumes => Resumes'
    BY <1>1, <1>2, <1>7, ResumesKeeps
  <2>3. ViewInv'
    <3>1. CASE ~suppress
      BY <1>1, <1>2, <3>1 DEF ViewInv
    <3>2. CASE suppress
      <4>1. PICK t \in Tasks : pc[t] \in Muting
        BY <3>2 DEF LiveInv, ViewInv
      <4>2. CASE \E r \in Requests : pc[r] = "resuming"
        <5>1. missed'
          BY <1>1, <3>2, <4>2
        <5> QED BY <1>1, <1>2, <4>1, <5>1 DEF ViewInv
      <4>3. CASE ~\E r \in Requests : pc[r] = "resuming"
        <5>1. pc[0] # "resuming" /\ (t = 0 \/ t \in Requests)
          BY <1>1, NumbersOfRequests DEF SetInv, Setting, Tasks, Requests
        <5>2. pc[t] \in Reporting
          BY <4>1, <4>3, <5>1 DEF Muting, Reporting
        <5> QED BY <1>1, <1>2, <4>1, <4>3, <5>2 DEF ViewInv
      <4> QED BY <4>2, <4>3
    <3> QED BY <3>1, <3>2
  <2>4. BusyInv'
    <3>1. \A q \in Requests : Accepted(q)' = Accepted(q)
      BY <1>2, <1>3 DEF Accepted
    <3> QED BY <1>1, <1>2, <1>6, <2>2, <3>1 DEF LiveInv, BusyInv
  <2> QED BY <1>3, <1>4, <1>5, <1>7, <2>1, <2>3, <2>4 DEF LiveInv
<1>8. CASE armed = {}
  <2>1. Send(<< >>) /\ op' = op /\ left' = left
    BY <1>1, <1>8, NoneStarted
  <2>2. EditInv'
    <3>1. UNCHANGED bkptVars
      BY <1>1, <2>1 DEF bkptVars
    <3>2. \A t \in Tasks : pc[t] # "idle" => pc'[t] # "idle"
      BY <1>1
    <3> QED BY <1>1, <1>2, <2>1, <3>1, <3>2, EmptyPlaces, EditKeeps
  <2>3. SetInv'
    BY <1>1, <2>1 DEF SetInv, SetPlace
  <2> QED BY <1>7, <2>1, <2>2, <2>3, EmptyPlaces
<1>9. CASE armed # {}
  <2>1. PICK r \in Requests : op[r] = "armed"
    BY <1>9
  <2>2. pc[r] \in {"interrupting", "halting"} /\ r \in Tasks
    BY <1>1, <2>1, NumbersOfRequests DEF SetInv, SetPlace
  <2>3. \A q \in Requests : q # r => pc[q] \notin Setting /\ op[q] \notin {"armed", "deleting", "inserting"}
    <3>1. pc[r] \in Setting
      BY <2>2 DEF Setting
    <3> QED BY <1>1, <3>1, OneSets
  <2>4. armed = {r}
    BY <2>1, <2>3
  <2>5. /\ EditInv'
        /\ op'[r] \in {"deleting", "inserting"} /\ \A q \in Requests : q # r => op'[q] = op[q]
        /\ Send(FirstCommands(r)) /\ IsSeq(FirstCommands(r))
    <3>1. \A q \in Requests : op[q] \notin {"deleting", "inserting"}
      BY <2>1, <2>3
    <3>2. pc'[r] # "idle" /\ \A t \in Tasks : pc[t] # "idle" => pc'[t] # "idle"
      BY <1>1, <2>2
    <3>3. Started({r}) /\ UNCHANGED <<book, inflight>>
      BY <1>1, <1>2, <2>4
    <3> QED BY <1>1, <3>1, <3>2, <3>3, StartedWell
  <2>6. SetInv'
    <3>1. ASSUME NEW q \in Requests
          PROVE  SetPlace(q)'
      <4>1. CASE q = r
        BY <1>1, <2>2, <2>5, <4>1 DEF SetInv, SetPlace
      <4>2. CASE q # r
        BY <1>1, <2>5, <4>2 DEF SetInv, SetPlace
      <4> QED BY <4>1, <4>2
    <3> QED BY <1>1, <3>1 DEF SetInv, SetPlace
  <2> QED BY <1>7, <2>5, <2>6
<1> QED BY <1>8, <1>9

\* The client is told that the target runs, which is what the session waited for.
LEMMA TargetRunsStays ==
  ASSUME IInv, LiveInv, TargetRuns
  PROVE  LiveInv'
<1>1. /\ ReceiveAsync("running", "running")
      /\ view' = "running" /\ missed' = FALSE /\ continuing' = FALSE
      /\ UNCHANGED <<queue, current, pc, op, left, book, suppress>> /\ UNCHANGED bkptVars
      /\ SeqInv /\ TurnInv /\ StatusInv /\ BookInv /\ Tells(out, status, target) /\ SetInv /\ EditInv
  BY DEF TargetRuns, LiveInv, StatusInv, requestVars, bkptVars
<1>2. /\ status' = "running" /\ UNCHANGED <<target, table, inp, inflight>>
  BY <1>1 DEF ReceiveAsync, gdbVars, promiseVars
<1>3. /\ IsSeq(out') /\ IsSeq(inp') /\ TurnInv' /\ Tells(out, status, target)'
      /\ Answers' = Answers
  <2>1. target # "result"
    BY <1>1 DEF StatusInv
  <2> QED BY <1>1, <2>1, NewsKeeps
<1>4. StatusInv'
  BY <1>1, <1>2, <1>3 DEF StatusInv
<1>5. BookInv'
  BY <1>1, <1>2, <1>3 DEF BookInv, Edited
<1>6. EditInv'
  BY <1>1, <1>2 DEF EditInv, Placed, Owed
<1>7. SetInv'
  BY <1>1 DEF SetInv, SetPlace
<1>8. ViewInv'
  BY <1>1, <1>2 DEF LiveInv, ViewInv
<1>9. BusyInv'
  BY <1>1 DEF BusyInv
<1>10. SeqInv'
  BY <1>1, <1>3 DEF SeqInv
<1> QED BY <1>3, <1>4, <1>5, <1>6, <1>7, <1>8, <1>9, <1>10 DEF LiveInv

-----------------------------------------------------------------------------
(* Breakpoints: the operation goes on and ends *)

\* The operation of r is under way: it is the only one, and its commands the only ones
\* that edit.
LEMMA OneOperates ==
  ASSUME LiveInv, NEW r \in Requests, op[r] \in {"deleting", "inserting"}
  PROVE  /\ pc[r] \in {"interrupting", "halting", "operating"} /\ pc[r] \in Setting
         /\ current = r /\ r \in Tasks
         /\ \A q \in Requests :
              q # r => pc[q] \notin Setting /\ op[q] \notin {"armed", "deleting", "inserting"}
         /\ \A c : Placed(c) /\ c.op \in Editing =>
              /\ c.who = r
              /\ c.op = "delete" => op[r] = "deleting"
              /\ c.op = "insert" => op[r] = "inserting"
<1>1. pc[r] \in {"interrupting", "halting", "operating"} /\ pc[r] \in Setting
  BY DEF LiveInv, SetInv, SetPlace, Setting
<1>2. /\ current = r
      /\ \A q \in Requests :
           q # r => pc[q] \notin Setting /\ op[q] \notin {"armed", "deleting", "inserting"}
  BY <1>1, OneSets DEF LiveInv
<1>3. ASSUME NEW c, Placed(c), c.op \in Editing
      PROVE  c.who = r /\ (c.op = "delete" => op[r] = "deleting") /\ (c.op = "insert" => op[r] = "inserting")
  BY <1>2, <1>3 DEF Placed, Editing
<1> QED BY <1>1, <1>2, <1>3, NumbersOfRequests

\* When none of its commands is left it is over, and what awaits it goes on.
LEMMA ReturnStays ==
  ASSUME IInv, LiveInv, NEW r \in Requests, op[r] \in {"deleting", "inserting"},
         op' = [op EXCEPT ![r] = "over"], Return(r),
         UNCHANGED <<left, book, continuing, view, missed, status, target, out, inp>>,
         Edits(queue) = {}, TurnInv', BookInv',
         inflight' = inflight \/ inflight' = Idle, inflight'.op \notin Editing,
         \A q \in Requests : ~Accepted(q) => ~Accepted(q)'
  PROVE  LiveInv'
<1>1. /\ pc[r] \in {"interrupting", "halting", "operating"} /\ pc[r] \in Setting
      /\ current = r /\ r \in Tasks
      /\ \A q \in Requests :
           q # r => pc[q] \notin Setting /\ op[q] \notin {"armed", "deleting", "inserting"}
  BY OneOperates
<1>2. SeqInv /\ StatusInv /\ SetInv /\ EditInv /\ ViewInv /\ BusyInv
  BY DEF LiveInv
<1>3. /\ op'[r] = "over" /\ \A q \in Requests : q # r => op'[q] = op[q]
      /\ op' \in [Requests -> {"none", "armed", "deleting", "inserting", "over"}]
  BY <1>2 DEF EditInv
<1>4. StatusInv'
  BY <1>2 DEF StatusInv
<1>5. Runs' = Runs
  BY DEF Runs
<1>6. ASSUME NEW cmds, IsSeq(cmds), Send(cmds),
             \A c \in ToSet(cmds) : c.op = "continue" /\ c.who = r,
             pc'[r] # "idle", pc'[r] \notin Leaving,
             \A t \in Tasks : t # r => pc'[t] = pc[t],
             pc'[r] \in Setting => current' = r,
             suppress' = suppress \/ suppress' = FALSE,
             pc'[r] \notin {"continuing", "jumping"},
             \/ pc'[r] = pc[r] /\ suppress' = suppress
             \/ pc[r] = "operating" /\ pc'[r] = "ended" /\ suppress' = FALSE
             \/ pc'[r] = "resuming" /\ \E c \in ToSet(cmds) : c.op = "continue"
      PROVE  LiveInv'
  <2>1. SeqInv' /\ ToSet(queue') = ToSet(queue) \cup ToSet(cmds) /\ Edits(queue') = {}
    <3>1. \A c \in ToSet(cmds) : c.op \notin Editing
      BY <1>6 DEF Editing
    <3> QED BY <1>2, <1>6, <3>1, ConcatPlaces, OthersDoNotCount DEF SeqInv, Send
  <2>2. \A t \in Tasks : pc[t] # "idle" => pc'[t] # "idle"
    BY <1>6
  <2>3. \A c : Placed(c) /\ c.op \notin Editing => Placed(c)'
    BY <2>2 DEF Placed, Editing
  <2>4. EditInv'
    <3>1. \A c \in ToSet(queue) : c.op \notin Editing
      BY <1>2, NoEdits DEF SeqInv
    <3>2. \A c \in ToSet(cmds) : Placed(c)'
      BY <1>1, <1>6 DEF Placed
    <3>3. \A c \in ToSet(queue') : Placed(c)'
      BY <1>2, <2>1, <2>3, <3>1, <3>2 DEF EditInv
    <3>4. inflight' # Idle => Placed(inflight)'
      BY <1>2, <2>3 DEF EditInv
    <3>5. \A q \in Requests : op'[q] \notin {"deleting", "inserting"}
      BY <1>1, <1>3
    <3> QED BY <1>2, <1>3, <3>3, <3>4, <3>5 DEF EditInv
  <2>5. SetInv'
    <3>1. pc'[0] \notin Setting
      BY <1>2, <1>6, NumbersOfRequests DEF SetInv, Tasks
    <3>2. ASSUME NEW q \in Requests
          PROVE  SetPlace(q)'
      <4>1. CASE q = r
        BY <1>3, <1>6, <4>1 DEF SetPlace
      <4>2. CASE q # r
        BY <1>1, <1>2, <1>3, <1>6, <4>2, NumbersOfRequests DEF SetInv, SetPlace
      <4> QED BY <4>1, <4>2
    <3> QED BY <3>1, <3>2 DEF SetInv
  <2>6. /\ Resumes => Resumes'
        /\ (\E c \in ToSet(cmds) : c.op = "continue") => Resumes'
    BY <1>2, <1>6, ResumesKeeps
  <2>7. ViewInv'
    <3>1. \A q \in Requests : q # r => pc'[q] # "resuming"
      BY <1>1, <1>6, NumbersOfRequests DEF Setting
    <3>2. CASE pc'[r] = pc[r] /\ suppress' = suppress
      <4>1. \A t \in Tasks : pc'[t] = pc[t]
        BY <1>6, <3>2
      <4>2. \A q \in Requests : pc'[q] # "resuming"
        BY <1>1, <3>1, <3>2
      <4> QED BY <1>2, <1>5, <2>6, <3>2, <4>1, <4>2 DEF ViewInv
    <3>3. CASE pc[r] = "operating" /\ pc'[r] = "ended" /\ suppress' = FALSE
      <4>1. \A q \in Requests : pc'[q] # "resuming"
        BY <3>1, <3>3
      <4>2. (\E t \in Tasks : pc[t] \in Reporting) => \E t \in Tasks : pc'[t] \in Reporting
        BY <1>6, <3>3 DEF Reporting
      <4> QED BY <1>2, <1>5, <2>6, <3>3, <4>1, <4>2 DEF ViewInv
    <3>4. CASE pc'[r] = "resuming" /\ \E c \in ToSet(cmds) : c.op = "continue"
      <4>1. pc'[r] \in Muting /\ Resumes'
        BY <2>6, <3>4 DEF Muting
      <4> QED BY <1>1, <1>2, <4>1 DEF ViewInv
    <3> QED BY <1>6, <3>2, <3>3, <3>4
  <2>8. BusyInv'
    <3>1. \A q \in Requests : pc[q] \in {"continuing", "jumping"} => pc'[q] = pc[q]
      BY <1>1, <1>6, NumbersOfRequests
    <3> QED BY <1>2, <1>5, <2>6, <3>1, BusyKeeps
  <2> QED BY <1>4, <2>1, <2>4, <2>5, <2>7, <2>8 DEF LiveInv
<1>7. CASE pc[r] = "operating"
  <2>1. Answer(r) /\ suppress' = FALSE /\ Goto(r, "ended") /\ UNCHANGED queue
    BY <1>7 DEF Return
  <2>2. pc'[r] = "ended" /\ \A t \in Tasks : t # r => pc'[t] = pc[t]
    BY <1>1, <2>1 DEF Goto, IInv, SessionTypes
  <2>3. Send(<< >>) /\ IsSeq(<< >>) /\ ToSet(<< >>) = {}
    BY <1>2, <2>1, NoCommand
  <2> QED BY <1>6, <1>7, <2>1, <2>2, <2>3 DEF Leaving, Setting
<1>8. CASE pc[r] = "halting"
  <2>1. Goto(r, "resuming") /\ Send(<<Command("continue", r)>>) /\ UNCHANGED <<current, suppress>>
    BY <1>8 DEF Return
  <2>2. pc'[r] = "resuming" /\ \A t \in Tasks : t # r => pc'[t] = pc[t]
    BY <1>1, <2>1 DEF Goto, IInv, SessionTypes
  <2>3. \E c \in ToSet(<<Command("continue", r)>>) : c.op = "continue"
    BY OneCommand
  <2> QED BY <1>1, <1>6, <2>1, <2>2, <2>3, OneCommand DEF Leaving
<1>9. CASE pc[r] = "interrupting"
  <2>1. UNCHANGED <<current, suppress, pc, queue>>
    BY <1>9 DEF Return
  <2>2. Send(<< >>) /\ IsSeq(<< >>) /\ ToSet(<< >>) = {}
    BY <1>2, <2>1, NoCommand
  <2> QED BY <1>1, <1>6, <1>9, <2>1, <2>2 DEF Leaving
<1> QED BY <1>1, <1>7, <1>8, <1>9

\* The last insert has been heard of.
LEMMA OperationEndsStays ==
  ASSUME IInv, LiveInv, NEW r \in Requests, OperationEnds(r)
  PROVE  LiveInv'
<1>1. /\ op[r] = "inserting" /\ left[r] = 0 /\ op' = [op EXCEPT ![r] = "over"] /\ Return(r)
      /\ UNCHANGED <<gdbVars, inp, out, promiseVars, lifeVars>>
      /\ UNCHANGED <<left, book, continuing, view, missed>>
  BY DEF OperationEnds
<1>2. UNCHANGED <<table, target, status, inflight, tracked, result, gone, closed, ending, late>>
  BY <1>1 DEF gdbVars, promiseVars, lifeVars
<1>3. Answers' = Answers
  BY <1>1, <1>2 DEF Answers
<1>4. TurnInv' /\ BookInv'
  BY <1>1, <1>2, <1>3 DEF LiveInv, TurnInv, Free, Asked, Replied, Heard, BookInv, Edited
<1>5. Edits(queue) = {} /\ inflight.op \notin Editing
  <2>1. /\ Cardinality(Edits(queue)) + (IF inflight.op \in Editing THEN 1 ELSE 0) = 0
    BY <1>1 DEF LiveInv, EditInv, Owed
  <2>2. IsFiniteSet(Edits(queue)) /\ Cardinality(Edits(queue)) \in Nat
    BY EditsAreFinite DEF LiveInv, SeqInv
  <2>3. Cardinality(Edits(queue)) = 0 /\ inflight.op \notin Editing
    BY <2>1, <2>2
  <2> QED BY <2>2, <2>3, FS_EmptySet
<1>6. \A q : Accepted(q)' = Accepted(q)
  BY <1>2, <1>3 DEF Accepted
<1> QED BY <1>1, <1>2, <1>4, <1>5, <1>6, ReturnStays

\* What is recorded has been deleted, and what is asked for is inserted; if gdb has
\* refused, nothing has changed and nothing will.
LEMMA DeletedStays ==
  ASSUME IInv, LiveInv, NEW r \in Requests, Deleted(r)
  PROVE  LiveInv'
<1>1. Settled("delete", r) /\ op[r] = "deleting" /\ UNCHANGED <<left, continuing, view, missed>>
  BY DEF Deleted
<1>2. /\ inflight # Idle /\ inflight.op = "delete" /\ inflight.who = r
      /\ inflight' = Idle /\ inp' = << >> /\ out' = out /\ inp = << >>
      /\ result \in Answers /\ Answers' = {}
      /\ table' = table /\ status' = status /\ target' = target
      /\ table = Edited(result)
      /\ TurnInv' /\ Tells(out, status, target)'
  BY <1>1, SettledKeeps DEF LiveInv, StatusInv
<1>3. /\ SeqInv /\ StatusInv /\ SetInv /\ EditInv /\ ViewInv /\ BusyInv
  BY DEF LiveInv
<1>4. Edits(queue) = {}
  <2>1. Cardinality(Edits(queue)) + 1 = 1
    BY <1>1, <1>2, <1>3 DEF EditInv, Owed, Editing
  <2>2. IsFiniteSet(Edits(queue)) /\ Cardinality(Edits(queue)) \in Nat
    BY <1>3, EditsAreFinite DEF SeqInv
  <2> QED BY <2>1, <2>2, FS_EmptySet
<1>5. \A q : ~Accepted(q)'
  BY <1>2 DEF Accepted
<1>6. CASE ~result.ok
  <2>1. op' = [op EXCEPT ![r] = "over"] /\ Return(r) /\ book' = book
    BY <1>6 DEF Deleted
  <2>2. BookInv'
    BY <1>2, <1>6, <2>1, BookIsRight DEF Edited
  <2>3. Idle.op \notin Editing /\ inp' = inp
    BY <1>2, PendingIsNone DEF Editing
  <2> QED BY <1>1, <1>2, <1>4, <1>5, <2>1, <2>2, <2>3, ReturnStays
<1>7. CASE result.ok
  <2>1. /\ book' = {} /\ op' = [op EXCEPT ![r] = "inserting"] /\ Send(Inserts(r))
        /\ UNCHANGED <<current, suppress, pc>>
    BY <1>7 DEF Deleted
  <2>2. BookInv'
    BY <1>2, <1>7, <2>1, BookIsRight DEF Edited
  <2>3. /\ op'[r] = "inserting" /\ \A q \in Requests : q # r => op'[q] = op[q]
        /\ op' \in [Requests -> {"none", "armed", "deleting", "inserting", "over"}]
    BY <1>3, <2>1 DEF EditInv
  <2>4. /\ pc[r] \in {"interrupting", "halting", "operating"} /\ r \in Tasks
        /\ \A q \in Requests :
             q # r => pc[q] \notin Setting /\ op[q] \notin {"armed", "deleting", "inserting"}
    BY <1>1, OneOperates
  <2>5. /\ IsSeq(Inserts(r)) /\ Len(Inserts(r)) = BkptsWanted
        /\ \A c \in ToSet(Inserts(r)) : c.op = "insert" /\ c.who = r
    BY InsertsOfOne
  <2>6. /\ SeqInv' /\ ToSet(queue') = ToSet(queue) \cup ToSet(Inserts(r))
        /\ Cardinality(Edits(queue')) = BkptsWanted
    <3>1. \A c \in ToSet(Inserts(r)) : c.op \in Editing
      BY <2>5 DEF Editing
    <3>2. IsSeq(queue) /\ queue' = queue \o Inserts(r)
      BY <1>3, <2>1 DEF Send, SeqInv
    <3>3. Cardinality(Edits(queue')) = BkptsWanted
      BY <1>4, <2>5, <3>1, <3>2, AllCount
    <3>4. IsSeq(queue') /\ ToSet(queue') = ToSet(queue) \cup ToSet(Inserts(r))
      BY <2>5, <3>2, ConcatPlaces
    <3>5. IsSeq(inp') /\ IsSeq(out')
      BY <1>2, <1>3, EmptyPlaces DEF SeqInv
    <3> QED BY <3>3, <3>4, <3>5 DEF SeqInv
  <2>7. EditInv'
    <3>1. \A c \in ToSet(queue) : Placed(c)'
      <4>1. \A c \in ToSet(queue) : c.op \notin Editing
        BY <1>3, <1>4, NoEdits DEF SeqInv
      <4> QED BY <1>3, <2>1, <4>1 DEF EditInv, Placed, Editing
    <3>2. \A c \in ToSet(Inserts(r)) : Placed(c)'
      BY <2>1, <2>3, <2>4, <2>5 DEF Placed
    <3>3. \A q \in Requests : op'[q] \in {"deleting", "inserting"} => q = r
      BY <2>3, <2>4
    <3>4. Idle.op \notin Editing
      BY PendingIsNone DEF Editing
    <3>5. Cardinality(Edits(queue')) + (IF inflight'.op \in Editing THEN 1 ELSE 0) = Owed(r)'
      <4>1. Owed(r)' = BkptsWanted /\ BkptsWanted \in Nat
        BY <1>1, <1>3, <2>3, SessionAssumption DEF Owed, EditInv
      <4> QED BY <1>2, <2>6, <3>4, <4>1
    <3>6. left' \in [Requests -> Int]
      BY <1>1, <1>3 DEF EditInv
    <3> QED BY <1>2, <2>3, <2>6, <3>1, <3>2, <3>3, <3>5, <3>6 DEF EditInv
  <2>8. SetInv'
    <3>1. ASSUME NEW q \in Requests
          PROVE  SetPlace(q)'
      <4>1. CASE q = r
        BY <1>3, <2>1, <2>3, <2>4, <4>1 DEF SetInv, SetPlace
      <4>2. CASE q # r
        BY <1>3, <2>1, <2>3, <4>2 DEF SetInv, SetPlace
      <4> QED BY <4>1, <4>2
    <3> QED BY <1>3, <2>1, <3>1 DEF SetInv, SetPlace
  <2>9. Runs' = Runs /\ (Resumes => Resumes')
    BY <1>2, <1>3, <2>1, <2>5, ResumesKeeps DEF Runs
  <2>10. ViewInv'
    BY <1>1, <1>2, <1>3, <2>1, <2>9, ViewKeeps
  <2>11. BusyInv'
    BY <1>1, <1>2, <1>3, <1>5, <2>1, <2>9, BusyKeeps
  <2>12. StatusInv'
    BY <1>1, <1>2, <1>3 DEF StatusInv
  <2> QED BY <1>2, <2>2, <2>6, <2>7, <2>8, <2>10, <2>11, <2>12 DEF LiveInv
<1> QED BY <1>6, <1>7

\* One insert has been heard of.
LEMMA InsertedStays ==
  ASSUME IInv, LiveInv, NEW r \in Requests, Inserted(r)
  PROVE  LiveInv'
<1>1. /\ Settled("insert", r)
      /\ book' = (IF result.ok THEN book \cup {result.id} ELSE book)
      /\ left' = [left EXCEPT ![r] = @ - 1]
      /\ UNCHANGED <<queue, current, pc, op, suppress, continuing, view, missed>>
  BY DEF Inserted, requestVars, stateVars
<1>2. /\ inflight # Idle /\ inflight.op = "insert" /\ inflight.who = r
      /\ inflight' = Idle /\ inp' = << >> /\ out' = out /\ inp = << >>
      /\ result \in Answers /\ Answers' = {}
      /\ table' = table /\ status' = status /\ target' = target
      /\ table = Edited(result)
      /\ TurnInv' /\ Tells(out, status, target)'
  BY <1>1, SettledKeeps DEF LiveInv, StatusInv
<1>3. /\ SeqInv /\ StatusInv /\ SetInv /\ EditInv /\ ViewInv /\ BusyInv
  BY DEF LiveInv
<1>4. BookInv'
  BY <1>1, <1>2, BookIsRight DEF Edited
<1>5. op[r] = "inserting"
  BY <1>2, <1>3 DEF EditInv, Placed
<1>6. /\ \A q \in Requests : q # r => op[q] \notin {"armed", "deleting", "inserting"}
      /\ \A c : Placed(c) /\ c.op \in Editing =>
           c.who = r /\ (c.op = "delete" => op[r] = "deleting")
  BY <1>5, OneOperates
<1>7. EditInv'
  <2>1. \A c : Placed(c) => Placed(c)'
    <3>1. \A c : Placed(c) => c.op # "delete"
      BY <1>5, <1>6 DEF Editing
    <3> QED BY <1>1, <3>1 DEF Placed
  <2>2. Cardinality(Edits(queue)) + 1 = left[r] /\ Cardinality(Edits(queue)) \in Nat
    <3>1. Cardinality(Edits(queue)) \in Nat
      BY <1>3, EditsAreFinite DEF SeqInv
    <3>2. Cardinality(Edits(queue)) + 1 = left[r]
      BY <1>2, <1>3, <1>5 DEF EditInv, Owed, Editing
    <3> QED BY <3>1, <3>2
  <2>3. left' \in [Requests -> Int] /\ left'[r] = left[r] - 1 /\ left[r] \in Int
    BY <1>1, <1>3 DEF EditInv
  <2>4. Idle.op \notin Editing
    BY PendingIsNone DEF Editing
  <2>5. Owed(r)' = left[r] - 1
    BY <1>1, <1>5, <2>3 DEF Owed
  <2>6. Cardinality(Edits(queue')) + (IF inflight'.op \in Editing THEN 1 ELSE 0) = Owed(r)'
    BY <1>1, <1>2, <2>2, <2>3, <2>4, <2>5
  <2>7. \A q \in Requests : op'[q] \in {"deleting", "inserting"} => q = r /\ op'[q] = "inserting"
    BY <1>1, <1>5, <1>6
  <2> QED BY <1>1, <1>2, <1>3, <2>1, <2>3, <2>6, <2>7 DEF EditInv
<1>8. SetInv'
  BY <1>1, <1>3 DEF SetInv, SetPlace
<1>9. Runs' = Runs /\ Resumes' = Resumes
  BY <1>1, <1>2 DEF Runs, Resumes
<1>10. \A q : ~Accepted(q)'
  BY <1>2 DEF Accepted
<1>11. ViewInv'
  BY <1>1, <1>2, <1>3, <1>9, ViewKeeps
<1>12. BusyInv'
  BY <1>1, <1>2, <1>3, <1>9, <1>10, BusyKeeps
<1>13. StatusInv' /\ SeqInv'
  BY <1>1, <1>2, <1>3, EmptyPlaces DEF StatusInv, SeqInv
<1> QED BY <1>2, <1>4, <1>7, <1>8, <1>11, <1>12, <1>13 DEF LiveInv

-----------------------------------------------------------------------------
(* The channel *)

\* The places of the tasks and what they have sent stay: what was to resume the target
\* may have been read if it was obeyed, or the target is heard to run for another reason.
LEMMA ChannelStays ==
  ASSUME LiveInv, UNCHANGED sessionVars, UNCHANGED status,
         SeqInv', TurnInv', StatusInv', BookInv', EditInv',
         Runs => Runs', view # status /\ Resumes => Runs' \/ Resumes',
         status = "stopped" /\ continuing /\ Resumes => Runs' \/ Resumes',
         \A q \in Requests : ~Accepted(q) => Runs' \/ ~Accepted(q)'
  PROVE  LiveInv'
<1>1. UNCHANGED <<current, pc, op, left, book, continuing, suppress, view, missed>>
  BY DEF sessionVars, requestVars, bkptVars, stateVars
<1>2. SetInv'
  BY <1>1 DEF LiveInv, SetInv, SetPlace
<1>3. ViewInv'
  BY <1>1 DEF LiveInv, ViewInv
<1>4. BusyInv'
  BY <1>1 DEF LiveInv, BusyInv
<1> QED BY <1>2, <1>3, <1>4 DEF LiveInv

LEMMA SendNextStays ==
  ASSUME LiveInv, SendNext, UNCHANGED sessionVars
  PROVE  LiveInv'
<1>1. UNCHANGED <<pc, op, left, book, view, missed>>
  BY DEF sessionVars, bkptVars, stateVars
<1>2. SeqInv /\ TurnInv /\ Tells(out, status, target) /\ EditInv /\ BookInv /\ StatusInv
  BY DEF LiveInv, StatusInv
<1>3. /\ SeqInv' /\ TurnInv' /\ Tells(out, status, target)'
      /\ Answers = {} /\ Answers' = {} /\ inflight = Idle
      /\ queue # << >> /\ inflight' = Head(queue) /\ queue' = Tail(queue) /\ Head(queue) # Idle
      /\ inp' = <<Head(queue)>> /\ inp = << >>
      /\ UNCHANGED <<table, target, out, status>>
  BY <1>2, NextIsSent
<1>4. BookInv'
  BY <1>1, <1>2, <1>3 DEF BookInv
<1>5. StatusInv'
  BY <1>1, <1>2, <1>3 DEF StatusInv
<1>6. ToSet(queue) = {Head(queue)} \cup ToSet(queue') /\ IsSeq(queue) /\ IsSeq(queue')
  BY <1>2, <1>3, TailPlaces DEF SeqInv
<1>7. EditInv'
  <2>1. \A c : Placed(c)' = Placed(c)
    BY <1>1 DEF Placed
  <2>2. Cardinality(Edits(queue)) =
          Cardinality(Edits(queue')) + (IF inflight'.op \in Editing THEN 1 ELSE 0)
    BY <1>3, <1>6, TailCounts
  <2>3. Cardinality(Edits(queue)) \in Nat
    BY <1>6, EditsAreFinite
  <2>4. Idle.op \notin Editing
    BY PendingIsNone DEF Editing
  <2>5. Cardinality(Edits(queue)) + (IF inflight.op \in Editing THEN 1 ELSE 0) = Cardinality(Edits(queue))
    BY <1>3, <2>3, <2>4
  <2>6. \A q \in Requests : Owed(q)' = Owed(q)
    BY <1>1 DEF Owed
  <2>7. \A c \in ToSet(queue') : Placed(c)'
    BY <1>2, <1>6, <2>1 DEF EditInv
  <2>8. inflight' # Idle => Placed(inflight)'
    BY <1>2, <1>3, <1>6, <2>1 DEF EditInv
  <2> QED BY <1>1, <1>2, <2>2, <2>5, <2>6, <2>7, <2>8 DEF EditInv
<1>8. Resumes => Resumes'
  <2>1. ToSet(inp') = {Head(queue)} /\ ToSet(inp) = {}
    BY <1>3, OnePlace, EmptyPlaces
  <2> QED BY <1>6, <2>1 DEF Resumes
<1>9. Runs' = Runs
  BY <1>3 DEF Runs
<1>10. \A q : ~Accepted(q)'
  BY <1>3 DEF Accepted
<1> QED BY <1>3, <1>4, <1>5, <1>7, <1>8, <1>9, <1>10, ChannelStays

LEMMA ReceiveResultStays ==
  ASSUME LiveInv, ReceiveResult, UNCHANGED sessionVars
  PROVE  LiveInv'
<1>1. UNCHANGED <<pc, op, left, book, view, missed>>
  BY DEF sessionVars, bkptVars, stateVars
<1>2. SeqInv /\ TurnInv /\ Tells(out, status, target) /\ EditInv /\ BookInv /\ StatusInv
  BY DEF LiveInv, StatusInv
<1>3. target # "result"
  BY <1>2 DEF StatusInv
<1>4. /\ SeqInv' /\ TurnInv' /\ Tells(out, status, target)'
      /\ Answers' = Answers /\ inflight' = inflight
  BY <1>2, <1>3, ResultKeeps
<1>5. /\ UNCHANGED <<queue, inp, table, target, status>>
      /\ out # << >> /\ Head(out).rec = "result" /\ out' = Tail(out)
  BY DEF ReceiveResult, gdbVars
<1>6. BookInv'
  BY <1>1, <1>2, <1>4, <1>5 DEF BookInv, Edited
<1>7. StatusInv'
  BY <1>1, <1>2, <1>4, <1>5 DEF StatusInv
<1>8. EditInv'
  BY <1>1, <1>2, <1>4, <1>5 DEF EditInv, Placed, Owed
<1>9. Resumes' = Resumes
  BY <1>5 DEF Resumes
<1>10. Runs => Runs'
  <2>1. ASSUME Runs PROVE Runs'
    <3>1. PICK n \in 1 .. Len(out) : out[n].rec = "running"
      BY <2>1 DEF Runs
    <3>2. \E m \in 1 .. Len(Tail(out)) : Tail(out)[m].rec = "running"
      BY <1>2, <1>5, <3>1, RunsKeeps DEF SeqInv
    <3> QED BY <1>5, <3>2 DEF Runs
  <2> QED BY <2>1
<1>11. \A q : Accepted(q)' = Accepted(q)
  BY <1>4 DEF Accepted
<1> QED BY <1>4, <1>5, <1>6, <1>7, <1>8, <1>9, <1>10, <1>11, ChannelStays

\* gdb reads the command and answers x, and what is on record is right with that answer.
LEMMA AnsweredStays ==
  ASSUME LiveInv, UNCHANGED sessionVars, NEW o, GdbReads(o),
         NEW t, IsSeq(t), Reply(t), Len(t) >= 1, t[1].rec = "result",
         \A i \in 2 .. Len(t) : t[i].rec # "result",
         target' \in {"running", "stopped"}, Tells(out', status, target'),
         table' = (IF t[1].ok /\ o = "insert" THEN book \cup {t[1].id}
                   ELSE IF t[1].ok /\ o = "delete" THEN {} ELSE book),
         t[1].ok \/ o \in NeedsHalt,
         \/ \E i \in 1 .. Len(t) : t[i].rec = "running"
         \/ o # "continue" /\ ~(t[1].ok /\ o = "jump")
         \/ o = "continue" /\ ~t[1].ok /\ target = "running"
  PROVE  LiveInv'
<1>1. UNCHANGED <<pc, op, left, book, view, missed>>
  BY DEF sessionVars, bkptVars, stateVars
<1>2. SeqInv /\ TurnInv /\ Tells(out, status, target) /\ EditInv /\ BookInv /\ StatusInv
  BY DEF LiveInv, StatusInv
<1>3. /\ Asked /\ inflight.op = o /\ Head(inp) = inflight /\ inp' = << >>
      /\ inflight' = inflight /\ queue' = queue /\ status' = status
      /\ Answers = {}
  BY <1>2, ReadKeeps
<1>4. SeqInv' /\ TurnInv' /\ Answers' = {t[1]}
  BY <1>2, ReplyKeeps
<1>5. StatusInv'
  BY <1>1, <1>2, <1>3 DEF StatusInv
<1>6. BookInv'
  <2>1. table' = Edited(t[1])'
    BY <1>1, <1>3 DEF Edited
  <2> QED BY <1>3, <1>4, <2>1 DEF BookInv
<1>7. EditInv'
  BY <1>1, <1>2, <1>3 DEF EditInv, Placed, Owed
<1>8. /\ IsSeq(out) /\ out' = out \o t
      /\ Len(out) \in Nat /\ Len(t) \in Nat /\ Len(out') = Len(out) + Len(t)
      /\ \A i \in 1 .. Len(out) : out'[i] = out[i]
      /\ \A i \in 1 .. Len(t) : out'[Len(out) + i] = t[i]
  BY <1>2, ConcatPlaces DEF Reply, SeqInv
<1>9. (\E n \in 1 .. Len(out) : out[n].rec = "running") => Runs'
  BY <1>8 DEF Runs
<1>10. (\E i \in 1 .. Len(t) : t[i].rec = "running") => Runs'
  <2>1. ASSUME NEW i \in 1 .. Len(t), t[i].rec = "running" PROVE Runs'
    <3>1. Len(out) + i \in 1 .. Len(out') /\ out'[Len(out) + i].rec = "running"
      BY <1>8, <2>1
    <3> QED BY <3>1 DEF Runs
  <2> QED BY <2>1
<1>11. o # "continue" => (Resumes => Resumes')
  <2>1. inp = <<inflight>> /\ ToSet(inp) = {inflight}
    BY <1>3, OnePlace DEF Asked
  <2> QED BY <1>3, <2>1 DEF Resumes
<1>12. CASE \E i \in 1 .. Len(t) : t[i].rec = "running"
  BY <1>3, <1>4, <1>5, <1>6, <1>7, <1>10, <1>12, ChannelStays
<1>13. CASE o # "continue" /\ ~(t[1].ok /\ o = "jump")
  <2>1. \A q : ~Accepted(q)'
    BY <1>3, <1>4, <1>13 DEF Accepted
  <2>2. Runs => Runs'
    BY <1>9 DEF Runs
  <2> QED BY <1>3, <1>4, <1>5, <1>6, <1>7, <1>11, <1>13, <2>1, <2>2, ChannelStays
<1>14. CASE o = "continue" /\ ~t[1].ok /\ target = "running"
  <2>1. \A q : ~Accepted(q)'
    BY <1>4, <1>14 DEF Accepted
  <2>2. Runs => Runs'
    BY <1>9 DEF Runs
  <2>3. status # "running" => Runs'
    BY <1>2, <1>9, <1>14, TellsOfIt
  <2>4. view # status => status # "running"
    BY DEF LiveInv, ViewInv
  <2> QED BY <1>3, <1>4, <1>5, <1>6, <1>7, <2>1, <2>2, <2>3, <2>4, ChannelStays
<1> QED BY <1>12, <1>13, <1>14

\* The answers there are.
LEMMA Replies ==
  /\ Done.rec = "result" /\ Done.ok
  /\ Failed.rec = "result" /\ ~Failed.ok
  /\ Numbered.rec = "result" /\ Numbered.ok /\ Numbered.id = nextBkpt
  /\ Running.rec = "running" /\ Stopped.rec = "stopped"
BY DEF Done, Failed, Numbered, Running, Stopped

\* Of an answer that is all gdb says.
LEMMA ShortlyAnsweredStays ==
  ASSUME LiveInv, UNCHANGED sessionVars, NEW o, GdbReads(o),
         NEW x, x.rec = "result", Reply(<<x>>), UNCHANGED target,
         table' = (IF x.ok /\ o = "insert" THEN book \cup {x.id}
                   ELSE IF x.ok /\ o = "delete" THEN {} ELSE book),
         x.ok \/ o \in NeedsHalt,
         \/ o \notin {"continue", "jump"}
         \/ o = "jump" /\ ~x.ok
         \/ o = "continue" /\ ~x.ok /\ target = "running"
  PROVE  LiveInv'
<1>1. PICK t : t = <<x>>
  OBVIOUS
<1>2. IsSeq(t) /\ Len(t) = 1 /\ t[1] = x /\ \A i \in 2 .. Len(t) : FALSE
  BY <1>1, OnePlace
<1>3. target' \in {"running", "stopped"} /\ IsSeq(out) /\ Tells(out, status, target)
  BY DEF LiveInv, StatusInv, SeqInv
<1>4. Tells(out', status, target')
  BY <1>3, ResultTells DEF Reply
<1>5. \/ o # "continue" /\ ~(t[1].ok /\ o = "jump")
      \/ o = "continue" /\ ~t[1].ok /\ target = "running"
  BY <1>2
<1>6. Reply(t) /\ Len(t) >= 1
  BY <1>1, <1>2
<1>7. table' = (IF t[1].ok /\ o = "insert" THEN book \cup {t[1].id}
                ELSE IF t[1].ok /\ o = "delete" THEN {} ELSE book)
  BY <1>2
<1> QED BY <1>2, <1>3, <1>4, <1>5, <1>6, <1>7, AnsweredStays

\* The last of two records says it all.
LEMMA SecondTells ==
  ASSUME NEW s, IsSeq(s), NEW t, IsSeq(t), Len(t) = 2, NEW st
  PROVE  Tells(s \o t, st, t[2].rec)
<1>1. 2 \in 1 .. Len(t)
  OBVIOUS
<1>2. Len(s) \in Nat /\ Len(s \o t) = Len(s) + Len(t)
  BY ConcatPlaces
<1>3. (s \o t)[Len(s) + 2] = t[2]
  BY <1>1, ConcatPlaces
<1>4. Len(s) + 2 \in 1 .. Len(s \o t) /\ \A m \in (Len(s) + 2) + 1 .. Len(s \o t) : FALSE
  BY <1>2
<1> QED BY <1>3, <1>4 DEF Tells

\* The target stops, at a breakpoint or because it was interrupted.
LEMMA TargetStopsStays ==
  ASSUME LiveInv, TargetStops, UNCHANGED sessionVars
  PROVE  LiveInv'
<1>1. UNCHANGED <<pc, op, left, book, view, missed>>
  BY DEF sessionVars, bkptVars, stateVars
<1>2. SeqInv /\ TurnInv /\ Tells(out, status, target) /\ EditInv /\ BookInv /\ StatusInv
  BY DEF LiveInv, StatusInv
<1>3. /\ target' = "stopped" /\ out' = out \o <<Stopped>>
      /\ UNCHANGED <<table, inp, queue, inflight, tracked, result, gone, closed, ending, status, late>>
  BY DEF TargetStops, Reply, sendVars, promiseVars, lifeVars
<1>4. IsSeq(<<Stopped>>) /\ \A i \in 1 .. Len(<<Stopped>>) : <<Stopped>>[i].rec # "result"
  <2>1. IsSeq(<<Stopped>>) /\ Len(<<Stopped>>) = 1 /\ <<Stopped>>[1] = Stopped
    BY OnePlace
  <2> QED BY <2>1, Replies
<1>5. Results(out') = Results(out) /\ \A n \in Results(out) : out'[n] = out[n]
  BY <1>2, <1>3, <1>4, OthersAddNone DEF SeqInv
<1>6. Answers' = Answers
  <2>1. {out'[n] : n \in Results(out')} = {out[n] : n \in Results(out)}
    BY <1>5
  <2> QED BY <1>3, <2>1 DEF Answers
<1>7. /\ IsSeq(out) /\ IsSeq(out')
      /\ \A i \in 1 .. Len(out) : i \in 1 .. Len(out') /\ out'[i] = out[i]
  <2>1. IsSeq(out)
    BY <1>2 DEF SeqInv
  <2>2. /\ IsSeq(out') /\ Len(out) \in Nat /\ Len(out') = Len(out) + 1
        /\ \A i \in 1 .. Len(out) : out'[i] = out[i]
    BY <1>3, <2>1, OnePlace, ConcatPlaces
  <2> QED BY <2>1, <2>2
<1>8. TurnInv'
  BY <1>2, <1>3, <1>5, <1>7 DEF TurnInv, Free, Asked, Replied, Heard
<1>9. StatusInv'
  <2>1. Tells(out', status, Stopped.rec)
    BY <1>3, <1>7, LastTells
  <2> QED BY <1>1, <1>2, <1>3, <2>1, Replies DEF StatusInv
<1>10. BookInv'
  BY <1>1, <1>2, <1>3, <1>6 DEF BookInv, Edited
<1>11. EditInv'
  BY <1>1, <1>2, <1>3 DEF EditInv, Placed, Owed
<1>12. SeqInv'
  BY <1>2, <1>3, <1>7 DEF SeqInv
<1>13. (Runs => Runs') /\ Resumes' = Resumes /\ \A q : Accepted(q)' = Accepted(q)
  BY <1>3, <1>6, <1>7 DEF Runs, Resumes, Accepted
<1> QED BY <1>3, <1>8, <1>9, <1>10, <1>11, <1>12, <1>13, ChannelStays

LEMMA GdbStays ==
  ASSUME LiveInv, GdbActs, UNCHANGED sessionVars
  PROVE  LiveInv'
<1>1. UNCHANGED <<pc, op, left, book, view, missed>>
  BY DEF sessionVars, bkptVars, stateVars
<1>2. SeqInv /\ TurnInv /\ Tells(out, status, target) /\ EditInv /\ BookInv /\ StatusInv
  BY DEF LiveInv, StatusInv
<1>3. ASSUME NEW o, GdbReads(o) PROVE table = book /\ inflight.op = o /\ Head(inp) = inflight /\ Placed(inflight)
  <2>1. Asked /\ inflight.op = o /\ Head(inp) = inflight /\ Answers = {}
    BY <1>2, <1>3, ReadKeeps
  <2> QED BY <1>2, <2>1 DEF BookInv, EditInv, Asked
<1>4. CASE GdbRefuses
  <2>1. PICK o \in NeedsHalt : GdbReads(o) /\ (target = "running" \/ o = "jump") /\ Reply(<<Failed>>)
                               /\ UNCHANGED <<target, halting, table, nextBkpt>>
    BY <1>4 DEF GdbRefuses
  <2>2. Failed.rec = "result" /\ ~Failed.ok /\ table' = book
    BY <1>3, <2>1, Replies
  <2>3. target' = target /\ o \in NeedsHalt
    BY <2>1
  <2>4. (o \notin {"continue", "jump"}) \/ (o = "jump" /\ ~Failed.ok)
        \/ (o = "continue" /\ ~Failed.ok /\ target = "running")
    BY <2>1, <2>2
  <2> QED BY <2>1, <2>2, <2>3, <2>4, ShortlyAnsweredStays
<1>5. CASE GdbResumes
  <2>1. PICK o \in {"continue", "jump"} :
          GdbReads(o) /\ target' = "running" /\ Reply(<<Done, Running>>) /\ table' = table
    BY <1>5 DEF GdbResumes
  <2>2. PICK t : t = <<Done, Running>>
    OBVIOUS
  <2>3. IsSeq(t) /\ Len(t) = 2 /\ t[1] = Done /\ t[2] = Running /\ Reply(t)
    BY <2>1, <2>2, TwoPlaces
  <2>4. Tells(out', status, target')
    <3>1. Tells(out \o t, status, t[2].rec)
      BY <1>2, <2>3, SecondTells DEF SeqInv
    <3> QED BY <2>1, <2>3, <3>1, Replies DEF Reply
  <2>5. /\ Len(t) >= 1 /\ t[1].rec = "result" /\ t[1].ok
        /\ \A i \in 2 .. Len(t) : t[i].rec # "result"
        /\ \E i \in 1 .. Len(t) : t[i].rec = "running"
    BY <2>3, Replies
  <2>6. table' = (IF t[1].ok /\ o = "insert" THEN book \cup {t[1].id}
                  ELSE IF t[1].ok /\ o = "delete" THEN {} ELSE book)
    BY <1>3, <2>1
  <2>7. target' \in {"running", "stopped"}
    BY <2>1
  <2> QED BY <2>1, <2>3, <2>4, <2>5, <2>6, <2>7, AnsweredStays
<1>6. CASE GdbInterrupts
  <2>1. GdbReads("interrupt") /\ Reply(<<Done>>) /\ UNCHANGED <<target, table>>
    BY <1>6 DEF GdbInterrupts
  <2>2. Done.rec = "result" /\ Done.ok /\ table' = book
    BY <1>3, <2>1, Replies
  <2> QED BY <2>1, <2>2, ShortlyAnsweredStays
<1>7. CASE GdbInserts
  <2>1. GdbReads("insert") /\ Reply(<<Numbered>>) /\ target' = target /\ table' = table \cup {nextBkpt}
    BY <1>7 DEF GdbInserts
  <2>2. Numbered.rec = "result" /\ Numbered.ok /\ table' = book \cup {Numbered.id}
    BY <1>3, <2>1, Replies
  <2> QED BY <2>1, <2>2, ShortlyAnsweredStays
<1>8. CASE GdbDeletes
  <2>1. GdbReads("delete") /\ Reply(<<Done>>) /\ target' = target /\ table' = table \ Head(inp).ids
    BY <1>8 DEF GdbDeletes
  <2>2. Head(inp).ids = book /\ table = book
    BY <1>3, <2>1 DEF Placed
  <2>3. Done.rec = "result" /\ Done.ok /\ table' = {}
    BY <2>1, <2>2, Replies
  <2> QED BY <2>1, <2>3, ShortlyAnsweredStays
<1>9. CASE GdbAnswers
  <2>1. PICK o \in {"read", "leave"} : GdbReads(o) /\ Reply(<<Done>>) /\ UNCHANGED <<target, table>>
    BY <1>9 DEF GdbAnswers
  <2>2. Done.rec = "result" /\ Done.ok /\ table' = book
    BY <1>3, <2>1, Replies
  <2> QED BY <2>1, <2>2, ShortlyAnsweredStays
<1>10. CASE TargetStops
  BY <1>10, TargetStopsStays
<1> QED BY <1>4, <1>5, <1>6, <1>7, <1>8, <1>9, <1>10 DEF GdbActs

-----------------------------------------------------------------------------
(* Every step *)

\* What is past mending stays so.
LEMMA HandlersDoNotMend ==
  ASSUME NEW r \in Requests, Handle(r), Live'
  PROVE  Live
<1>1. PICK k : Taken(k, r) /\ UNCHANGED lapse
  <2>1. CASE Inspect(r)
    BY <2>1 DEF Inspect, AnsweredAtOnce
  <2>2. CASE Continue(r)
    BY <2>2 DEF Continue, AnsweredAtOnce
  <2>3. CASE GotoTargets(r)
    BY <2>3 DEF GotoTargets
  <2>4. CASE Pause(r)
    BY <2>4 DEF Pause
  <2>5. CASE Reset(r)
    BY <2>5 DEF Reset
  <2>6. CASE ConfigurationDone(r)
    BY <2>6 DEF ConfigurationDone
  <2>7. CASE SetBreakpoints(r)
    BY <2>7 DEF SetBreakpoints
  <2> QED BY <2>1, <2>2, <2>3, <2>4, <2>5, <2>6, <2>7 DEF Handle
<1> QED BY <1>1 DEF Taken, Live, gdbVars

LEMMA SettlingDoesNotMend ==
  ASSUME NEW o, NEW t, Settled(o, t), UNCHANGED exiting, lapse => lapse', Live'
  PROVE  Live
BY DEF Settled, Live, gdbVars

LEMMA TasksDoNotMend ==
  ASSUME Live', \/ \E r \in Requests : GoOn(r)
                \/ \E t \in Tasks : Mode(t)
                \/ TargetStopped \/ TargetRuns
  PROVE  Live
<1>1. ASSUME NEW r \in Requests, GoOn(r) PROVE Live
  <2>1. CASE Reading(r)
    BY <2>1, SettlingDoesNotMend DEF Reading
  <2>2. CASE Pausing(r)
    BY <2>2, SettlingDoesNotMend DEF Pausing
  <2>3. CASE Clearing(r)
    BY <2>3, SettlingDoesNotMend DEF Clearing, requestVars
  <2>4. CASE Continuing(r)
    BY <2>4, SettlingDoesNotMend DEF Continuing
  <2>5. CASE Jumping(r)
    BY <2>5, SettlingDoesNotMend DEF Jumping
  <2>6. CASE Resetting(r)
    BY <2>6, SettlingDoesNotMend DEF Resetting
  <2>7. CASE Interrupting(r)
    BY <2>7, SettlingDoesNotMend DEF Interrupting, requestVars
  <2>8. CASE Deleted(r)
    BY <2>8, SettlingDoesNotMend DEF Deleted
  <2>9. CASE Inserted(r)
    BY <2>9, SettlingDoesNotMend DEF Inserted, requestVars
  <2>10. CASE OperationEnds(r)
    BY <2>10 DEF OperationEnds, Live, gdbVars
  <2>11. CASE Resuming(r)
    BY <2>11, SettlingDoesNotMend DEF Resuming
  <2> QED BY <1>1, <2>1, <2>2, <2>3, <2>4, <2>5, <2>6, <2>7, <2>8, <2>9, <2>10, <2>11 DEF GoOn
<1>2. ASSUME NEW t \in Tasks, Mode(t) PROVE Live
  <2>1. CASE ModeCommands(t)
    BY <2>1, SettlingDoesNotMend DEF ModeCommands
  <2>2. CASE Flushing(t)
    BY <2>2, SettlingDoesNotMend DEF Flushing
  <2>3. CASE Kicking(t)
    BY <2>3, SettlingDoesNotMend DEF Kicking, requestVars
  <2> QED BY <1>2, <2>1, <2>2, <2>3 DEF Mode
<1>3. CASE TargetStopped
  BY <1>3 DEF TargetStopped, ReceiveAsync, Live, requestVars, gdbVars
<1>4. CASE TargetRuns
  BY <1>4 DEF TargetRuns, ReceiveAsync, Live, requestVars, gdbVars
<1> QED BY <1>1, <1>2, <1>3, <1>4

LEMMA ChannelDoesNotMend ==
  ASSUME UNCHANGED sessionVars, Live', Channel \/ TargetStops \/ GdbDies
  PROVE  Live /\ (SendNext \/ ReceiveResult \/ GdbActs \/ TargetStops)
<1>1. ~lapse /\ ~exiting /\ gdb' = "up"
  BY DEF sessionVars, requestVars, Live
<1>2. CASE SeesExit \/ StdoutCloses
  BY <1>1, <1>2 DEF SeesExit, StdoutCloses, gdbVars
<1>3. CASE SendNext \/ ReceiveResult
  BY <1>1, <1>3 DEF SendNext, ReceiveResult, gdbVars, Live
<1>4. CASE GdbActs
  <2>1. gdb' = gdb
    BY <1>4 DEF GdbActs, GdbRefuses, GdbResumes, GdbInterrupts, GdbInserts, GdbDeletes, GdbAnswers,
                GdbReads, TargetStops
  <2> QED BY <1>1, <1>4, <2>1 DEF Live
<1>5. CASE TargetStops
  BY <1>1, <1>5 DEF TargetStops, Live
<1>6. CASE GdbDies
  BY <1>1, <1>6 DEF GdbDies
<1> QED BY <1>2, <1>3, <1>4, <1>5, <1>6 DEF Channel

LEMMA LiveHolds ==
  ASSUME IInv, Live => LiveInv, [DebugNext]_debugVars
  PROVE  (Live => LiveInv)'
<1> SUFFICES ASSUME Live' PROVE LiveInv'
  OBVIOUS
<1>1. CASE UNCHANGED debugVars
  <2>1. UNCHANGED <<channelVars, pc, current, bkptVars, stateVars, lapse, exiting, gdb>>
    BY <1>1 DEF debugVars, sessionVars, requestVars, channelVars, gdbVars
  <2>2. LiveInv
    BY <2>1 DEF Live
  <2> QED BY <2>1, <2>2, RestKeeps
<1>2. ASSUME NEW r \in Requests, Handle(r) PROVE LiveInv'
  <2>1. LiveInv
    BY <1>2, HandlersDoNotMend
  <2> QED BY <1>2, <2>1, InspectStays, ContinueStays, GotoTargetsStays, PauseStays, ResetStays,
             ConfigurationStays, SetBreakpointsStays DEF Handle
<1>3. ASSUME NEW r \in Requests, GoOn(r) PROVE LiveInv'
  <2>1. LiveInv
    BY <1>3, TasksDoNotMend
  <2> QED BY <1>3, <2>1, ReadingStays, PausingStays, ClearingStays, ContinuingStays, JumpingStays,
             ResettingStays, InterruptingStays, DeletedStays, InsertedStays, OperationEndsStays,
             ResumingBackStays DEF GoOn
<1>4. ASSUME NEW t \in Tasks, Mode(t) PROVE LiveInv'
  <2>1. LiveInv
    BY <1>4, TasksDoNotMend
  <2> QED BY <1>4, <2>1, ModeCommandsStays, FlushingStays, KickingStays DEF Mode
<1>5. CASE TargetStopped \/ TargetRuns
  <2>1. LiveInv
    BY <1>5, TasksDoNotMend
  <2> QED BY <1>5, <2>1, TargetStoppedStays, TargetRunsStays
\* A session that goes on has no task that ends it.
<1>6. ASSUME NEW r \in Requests, Finish(r) PROVE LiveInv'
  <2>1. pc[r] \in Leaving
    BY <1>6 DEF Finish, FinishInterrupted, FinishSettles, FinishDeleted, FinishLeft, FinishStopped,
                FinishServer, Leaving
  <2>2. ~lapse /\ ~exiting /\ gdb' = "up"
    BY <1>6 DEF Live, Finish, FinishInterrupted, FinishSettles, FinishDeleted, FinishLeft, FinishStopped,
                FinishServer, requestVars
  <2>3. gdb = "up"
    BY <1>6, <2>2 DEF Finish, FinishInterrupted, FinishSettles, FinishDeleted, FinishLeft, FinishStopped,
                      FinishServer, Settled, gdbVars, channelVars
  <2> QED BY <2>1, <2>2, <2>3 DEF Live, LiveInv, SetInv, SetPlace
<1>7. CASE (Channel \/ TargetStops \/ GdbDies) /\ UNCHANGED sessionVars
  <2>1. LiveInv /\ (SendNext \/ ReceiveResult \/ GdbActs \/ TargetStops)
    BY <1>7, ChannelDoesNotMend
  <2> QED BY <1>7, <2>1, SendNextStays, ReceiveResultStays, GdbStays, TargetStopsStays
<1>8. ASSUME NEW k \in Kinds, Ask(k) PROVE LiveInv'
  <2>1. UNCHANGED <<channelVars, pc, current, bkptVars, stateVars, lapse, exiting, gdb>>
    BY <1>8 DEF Ask, Enqueue, channelVars, gdbVars
  <2>2. LiveInv
    BY <2>1 DEF Live
  <2> QED BY <2>1, <2>2, RestKeeps
<1>9. CASE Disconnect
  BY <1>9 DEF Disconnect, Live
<1>10. CASE Timer
  BY <1>10 DEF Timer, Live
<1> QED BY <1>1, <1>2, <1>3, <1>4, <1>5, <1>6, <1>7, <1>8, <1>9, <1>10 DEF DebugNext, Progress

\* At the start nothing is out but the first command of the launch.
LEMMA LiveAtStart ==
  ASSUME DebugInit
  PROVE  LiveInv
<1>1. /\ target = "stopped" /\ table = {} /\ inp = << >> /\ out = << >>
      /\ ~gone /\ ~closed /\ ~ending /\ status = "stopped" /\ queue = <<Command("read", 0)>>
      /\ inflight = Idle /\ ~tracked /\ result = Pending /\ late = 0
  BY DEF DebugInit, ChannelInit
<1>2. /\ current = 0 /\ op = [r \in Requests |-> "none"] /\ left = [r \in Requests |-> 0] /\ book = {}
      /\ ~continuing /\ view = "running"
  BY DEF DebugInit
<1>3. /\ 0 \in Tasks /\ pc[0] \in {"mode", "attaching"}
      /\ \A r \in Requests : pc[r] = "idle"
  <2>1. PICK first \in {"mode", "attaching"} : pc = [t \in Tasks |-> IF t = 0 THEN first ELSE "idle"]
    BY DEF DebugInit
  <2> QED BY <2>1, NumbersOfRequests DEF Tasks
<1>4. Results(out) = {}
  BY <1>1, EmptyPlaces DEF Results
<1>5. SeqInv
  BY <1>1, EmptyPlaces, OneCommand DEF SeqInv
<1>6. TurnInv
  BY <1>1, <1>4 DEF TurnInv, Free
<1>7. Answers = {}
  BY <1>1, <1>4 DEF Answers
<1>8. BookInv
  BY <1>1, <1>2, <1>7 DEF BookInv
<1>9. StatusInv
  <2>1. Len(out) = 0
    BY <1>1, EmptyPlaces
  <2> QED BY <1>1, <1>2, <2>1 DEF StatusInv, Tells
<1>10. SetInv
  BY <1>2, <1>3 DEF SetInv, SetPlace, Setting, Leaving
<1>11. EditInv
  <2>1. ToSet(queue) = {Command("read", 0)} /\ Command("read", 0).op = "read" /\ Command("read", 0).who = 0
    BY <1>1, OneCommand
  <2>2. \A c \in ToSet(queue) : Placed(c)
    BY <1>3, <2>1 DEF Placed
  <2> QED BY <1>1, <1>2, <2>2 DEF EditInv
<1>12. ViewInv
  BY <1>1, <1>2, <1>3 DEF ViewInv, Muting, Reporting
<1>13. BusyInv
  BY <1>2 DEF BusyInv
<1> QED BY <1>5, <1>6, <1>8, <1>9, <1>10, <1>11, <1>12, <1>13 DEF LiveInv

\* The end of a queue that is at rest.
LEMMA QuietIsEmpty ==
  ASSUME LiveInv, Quiet, ~lapse
  PROVE  Answers = {} /\ Len(out) = 0 /\ ~Runs /\ ~Resumes
<1>1. inflight = Idle /\ queue = << >> /\ inp = << >> /\ out = << >>
  BY DEF Quiet, Calm
<1>2. Len(out) = 0 /\ ToSet(queue) = {} /\ ToSet(inp) = {}
  BY <1>1, EmptyPlaces
<1>3. Free
  BY <1>1 DEF LiveInv, TurnInv, Asked, Replied, Heard
<1>4. Answers = {}
  BY <1>3 DEF Answers, Free
<1> QED BY <1>2, <1>4 DEF Runs, Resumes

-----------------------------------------------------------------------------
\* BreakpointsOnRecord: the numbers breakpoints.ts keeps are those gdb has, when nothing
\* is under way and no command was given up, in every session.
THEOREM BreakpointsStayOnRecord == DebugSpec => []BreakpointsOnRecord
<1>1. DebugInit => IInv /\ (Live => LiveInv)
  BY InitHolds, LiveAtStart
<1>2. IInv /\ (Live => LiveInv) /\ [DebugNext]_debugVars => IInv' /\ (Live => LiveInv)'
  BY NextKeeps, LiveHolds
<1>3. (Live => LiveInv) => BreakpointsOnRecord
  BY QuietIsEmpty DEF BreakpointsOnRecord, Live, LiveInv, BookInv, Quiet
<1> QED BY <1>1, <1>2, <1>3, PTL DEF DebugSpec

\* ViewIsTrue: the client knows where the target is when nothing is under way, although
\* setBreakPointsRequest, a reset and the launch keep stops from it
\* (suppressStoppedEvents), and `continuing' does not outlast the command it stands for
\* (gdb-session.ts).  No other stop is lost to it but one that comes while a request that
\* sets breakpoints resumes the target (`missed').
THEOREM ViewComesTrue == DebugSpec => []ViewIsTrue
<1>1. DebugInit => IInv /\ (Live => LiveInv)
  BY InitHolds, LiveAtStart
<1>2. IInv /\ (Live => LiveInv) /\ [DebugNext]_debugVars => IInv' /\ (Live => LiveInv)'
  BY NextKeeps, LiveHolds
<1>3. ASSUME LiveInv, Quiet, ~lapse
      PROVE  /\ status = target /\ ~continuing
             /\ view = target \/ (missed /\ target = "stopped")
  <2>1. Len(out) = 0 /\ ~Runs /\ ~Resumes /\ \A t \in Tasks : pc[t] \in {"idle", "ended"}
    BY <1>3, QuietIsEmpty DEF Quiet
  <2>2. status = target
    <3>1. Tells(out, status, target)
      BY <1>3 DEF LiveInv, StatusInv
    <3> QED BY <2>1, <3>1 DEF Tells
  <2>3. ~continuing
    BY <1>3, <2>1, NumbersOfRequests DEF LiveInv, BusyInv
  <2>4. CASE ~missed
    <3>1. view = status
      BY <1>3, <2>1, <2>4 DEF LiveInv, ViewInv, Reporting
    <3> QED BY <2>2, <2>3, <3>1
  <2>5. CASE missed
    <3>1. status # "running" /\ status \in {"running", "stopped"}
      BY <1>3, <2>5 DEF LiveInv, ViewInv, StatusInv
    <3> QED BY <2>2, <2>3, <2>5, <3>1
  <2> QED BY <2>4, <2>5
<1>4. (Live => LiveInv) => ViewIsTrue
  BY <1>3 DEF ViewIsTrue, Live, Quiet
<1> QED BY <1>1, <1>2, <1>4, PTL DEF DebugSpec

=============================================================================
