---------------------------- MODULE HelperRttProofs ----------------------------
(***************************************************************************)
(* What the debug helper tells the adapter, for any number of requests,    *)
(* whatever times out, dies or is disposed of: an answer is the answer to  *)
(* the request that gets it, and RTT is given up only where there is none. *)
(* And what becomes of the bytes, once the block is found.                 *)
(*                                                                         *)
(* None is inductive.  The answer a request gets has been on the pipe      *)
(* before, and the request itself in the queues of the helper: AskedInv    *)
(* says what all of them carry.  That the search for RTT is not ended too  *)
(* soon depends on the order of two messages on the pipe (RttInv).  A byte *)
(* is shown or heard in its turn because of where it is in a ring, which   *)
(* is said by how far it is from the end that is read (UpInv, DownInv).    *)
(***************************************************************************)
EXTENDS DisasmHelper, RttBuffer, SequenceTheorems, TLAPS

Questions == {Globals} \cup {Disassemble(q) : q \in Inputs}

Events  == [type : {"RTTFound", "SymbolTableReady", "DisassemblyReady"}, seq : {0}]
Answers == [type : {"answer"}, seq : Asks, body : Questions]

PipeTypes ==
  /\ asks \in Seq(Questions) /\ Len(asks) <= MaxAsks
  /\ phase \in [Asks -> {"new", "table", "sent", "answered", "failed"}]
  /\ reply \in [Asks -> Answers \cup {"none"}]
  /\ pending \subseteq Asks
  /\ toHelper \in Seq(Asks)
  /\ work \in Seq(Asks)
  /\ fromHelper \in Seq(Events \cup Answers)

\* The requests under way have been made; an answer on the pipe, and one that was given,
\* is to what was asked.
AskedInv ==
  /\ \A r \in pending : r <= Len(asks)
  /\ \A i \in 1 .. Len(toHelper) : toHelper[i] <= Len(asks)
  /\ \A i \in 1 .. Len(work) : work[i] <= Len(asks)
  /\ \A i \in 1 .. Len(fromHelper) :
       fromHelper[i].type = "answer" =>
         fromHelper[i].seq <= Len(asks) /\ fromHelper[i].body = asks[fromHelper[i].seq]
  /\ \A r \in Asks :
       /\ phase[r] # "new" => r <= Len(asks)
       /\ phase[r] = "answered" => reply[r].body = asks[r]

\* Until the address of an RTT block is known the search is on, and the adapter will
\* hear of it before it hears that the symbols have been read.
RttInv ==
  hasRtt =>
    /\ rttWait # "missing"
    /\ ~rttAt =>
         /\ rtt = "pending"
         /\ main \in {"dwarf", "loaded"} => \E j \in 1 .. Len(fromHelper) : fromHelper[j].type = "RTTFound"
         /\ \A i \in 1 .. Len(fromHelper) :
              fromHelper[i].type = "SymbolTableReady" => \E j \in 1 .. i - 1 : fromHelper[j].type = "RTTFound"

-----------------------------------------------------------------------------
(* Messages and pipes *)

LEMMA AsksAreNumbers == MaxAsks \in Nat /\ Asks \subseteq Nat
BY HelperAssumption DEF Asks

LEMMA EventsHold ==
  ASSUME NEW e \in {"RTTFound", "SymbolTableReady", "DisassemblyReady"}
  PROVE  Event(e) \in Events \cup Answers /\ Event(e).type = e /\ Event(e).type # "answer"
BY DEF Event, Events

LEMMA AnswersHold ==
  ASSUME NEW r \in Asks, NEW body \in Questions
  PROVE  /\ Answered(r, body) \in Events \cup Answers
         /\ Answered(r, body).type = "answer"
         /\ Answered(r, body).seq = r
         /\ Answered(r, body).body = body
BY DEF Answered, Answers

LEMMA MessagesHold ==
  ASSUME NEW msg \in Events \cup Answers, msg.type = "answer"
  PROVE  msg \in Answers /\ msg.seq \in Asks /\ msg.body \in Questions
<1>1. msg \notin Events
  BY DEF Events
<1>2. msg \in Answers
  BY <1>1
<1> QED BY <1>2 DEF Answers

\* What is taken from the front of a pipe leaves the rest as it was.
LEMMA Took ==
  ASSUME NEW S, NEW s \in Seq(S), s # << >>
  PROVE  /\ Len(s) \in Nat /\ 1 \in 1 .. Len(s)
         /\ Head(s) = s[1] /\ Head(s) \in S
         /\ Tail(s) \in Seq(S)
         /\ Len(Tail(s)) = Len(s) - 1
         /\ \A i \in 1 .. Len(Tail(s)) : i + 1 \in 1 .. Len(s) /\ Tail(s)[i] = s[i + 1]
<1>1. /\ Len(s) \in Nat \ {0} /\ Head(s) = s[1] /\ Head(s) \in S /\ Tail(s) \in Seq(S)
      /\ Len(Tail(s)) = Len(s) - 1
      /\ \A i \in 1 .. Len(Tail(s)) : Tail(s)[i] = s[i + 1]
  BY HeadTailProperties, EmptySeq
<1> QED BY <1>1

\* What is put at the end of a pipe comes after the rest.
LEMMA Wrote ==
  ASSUME NEW S, NEW s \in Seq(S), NEW x \in S
  PROVE  /\ Append(s, x) \in Seq(S)
         /\ Len(s) \in Nat /\ Len(Append(s, x)) = Len(s) + 1
         /\ \A i \in 1 .. Len(Append(s, x)) : i \in 1 .. Len(s) \/ i = Len(s) + 1
         /\ \A i \in 1 .. Len(s) : i \in 1 .. Len(Append(s, x)) /\ Append(s, x)[i] = s[i]
         /\ Append(s, x)[Len(s) + 1] = x
<1>1. /\ Append(s, x) \in Seq(S)
      /\ Len(s) \in Nat /\ Len(Append(s, x)) = Len(s) + 1
      /\ \A i \in 1 .. Len(s) : Append(s, x)[i] = s[i]
      /\ Append(s, x)[Len(s) + 1] = x
  BY AppendProperties, LenProperties
<1> QED BY <1>1

-----------------------------------------------------------------------------
(* Answers *)

QInv == PipeTypes /\ AskedInv

\* A part of AskedInv for each place a request or an answer may be in.
Made(s)  == \A i \in 1 .. Len(s) : s[i] <= Len(asks)
Truthful(s) ==
  \A i \in 1 .. Len(s) :
    s[i].type = "answer" => s[i].seq <= Len(asks) /\ s[i].body = asks[s[i].seq]

\* A message that does not lie keeps the pipe truthful.
LEMMA WritesTruth ==
  ASSUME QInv, NEW msg \in Events \cup Answers, Write(msg),
         msg.type = "answer" => msg.seq <= Len(asks) /\ msg.body = asks[msg.seq]
  PROVE  fromHelper' \in Seq(Events \cup Answers) /\ Truthful(fromHelper')
<1>1. fromHelper' = Append(fromHelper, msg) /\ fromHelper \in Seq(Events \cup Answers)
  BY DEF QInv, PipeTypes, Write
<1>2. Truthful(fromHelper)
  BY DEF QInv, AskedInv, Truthful
<1> HIDE DEF QInv
<1>3. ASSUME NEW i \in 1 .. Len(fromHelper'), fromHelper'[i].type = "answer"
      PROVE  fromHelper'[i].seq <= Len(asks) /\ fromHelper'[i].body = asks[fromHelper'[i].seq]
  <2>1. CASE i \in 1 .. Len(fromHelper)
    BY <1>1, <1>2, <1>3, <2>1, Wrote DEF Truthful
  <2>2. CASE i = Len(fromHelper) + 1
    BY <1>1, <1>3, <2>2, Wrote
  <2> QED BY <1>1, <2>1, <2>2, Wrote
<1> QED BY <1>1, <1>3, Wrote DEF Truthful

\* What the helper does without having read or written anything.
LEMMA QuietKeeps ==
  ASSUME QInv, UNCHANGED <<askVars, toHelper, work>>,
         fromHelper' \in Seq(Events \cup Answers), Truthful(fromHelper')
  PROVE  QInv'
<1>1. UNCHANGED <<asks, phase, reply, pending, toHelper, work>>
  BY DEF askVars
<1>2. PipeTypes'
  BY <1>1 DEF QInv, PipeTypes
<1>3. \A i \in 1 .. Len(fromHelper') :
        fromHelper'[i].type = "answer" =>
          fromHelper'[i].seq <= Len(asks) /\ fromHelper'[i].body = asks[fromHelper'[i].seq]
  BY DEF Truthful
<1>4. AskedInv'
  BY <1>1, <1>3 DEF QInv, AskedInv
<1> QED BY <1>2, <1>4 DEF QInv

\* A step that touches no request and no pipe.
LEMMA StillKeeps ==
  ASSUME QInv, UNCHANGED <<askVars, pipeVars>>
  PROVE  QInv'
<1>1. fromHelper' = fromHelper /\ UNCHANGED <<askVars, toHelper, work>>
  BY DEF pipeVars
<1>2. fromHelper' \in Seq(Events \cup Answers) /\ Truthful(fromHelper')
  BY <1>1 DEF QInv, PipeTypes, AskedInv, Truthful
<1> QED BY <1>1, <1>2, QuietKeeps

\* A request goes to the helper or fails; nothing else of it changes.
LEMMA SendKeeps ==
  ASSUME QInv, NEW r \in Asks, r <= Len(asks), SendAsk(r), UNCHANGED <<asks, reply, work, fromHelper>>
  PROVE  QInv'
<1>0. /\ phase \in [Asks -> {"new", "table", "sent", "answered", "failed"}]
      /\ pending \subseteq Asks /\ toHelper \in Seq(Asks)
  BY DEF QInv, PipeTypes
<1>1. \E to \in {"sent", "failed"} : phase' = [phase EXCEPT ![r] = to]
  BY DEF SendAsk
<1>2. pending' \in {pending, pending \cup {r}} /\ toHelper' \in {toHelper, Append(toHelper, r)}
  BY DEF SendAsk
<1>3. /\ toHelper' \in Seq(Asks)
      /\ \A i \in 1 .. Len(toHelper') : toHelper'[i] <= Len(asks)
  <2>1. CASE toHelper' = toHelper
    BY <2>1 DEF QInv, PipeTypes, AskedInv
  <2>2. CASE toHelper' = Append(toHelper, r)
    <3>1. ASSUME NEW i \in 1 .. Len(toHelper')
          PROVE  toHelper'[i] <= Len(asks)
      <4>1. CASE i \in 1 .. Len(toHelper)
        BY <1>0, <2>2, <4>1, Wrote DEF QInv, AskedInv
      <4>2. CASE i = Len(toHelper) + 1
        BY <1>0, <2>2, <4>2, Wrote
      <4> QED BY <1>0, <2>2, <4>1, <4>2, Wrote
    <3> QED BY <1>0, <2>2, <3>1, Wrote
  <2> QED BY <1>2, <2>1, <2>2
<1>4. PipeTypes'
  BY <1>0, <1>1, <1>2, <1>3 DEF QInv, PipeTypes
<1>5. \A q \in Asks : phase'[q] = phase[q] \/ (q = r /\ phase'[q] # "answered")
  BY <1>0, <1>1
<1>6. AskedInv'
  BY <1>2, <1>3, <1>5 DEF QInv, AskedInv
<1> QED BY <1>4, <1>6 DEF QInv

\* Making a request changes nothing about those made before, whether it is sent at once,
\* fails at once or waits for the symbols.
LEMMA AsksGrow ==
  ASSUME QInv, NEW k \in Questions, NEW r \in Asks, r = Len(asks) + 1, asks' = Append(asks, k),
         UNCHANGED <<reply, work, fromHelper>>,
         pending' \in {pending, pending \cup {r}}, toHelper' \in {toHelper, Append(toHelper, r)},
         NEW to \in {"table", "sent", "failed"}, phase' = [phase EXCEPT ![r] = to]
  PROVE  QInv'
<1>1. /\ asks \in Seq(Questions) /\ asks' \in Seq(Questions)
      /\ Len(asks) \in Nat /\ Len(asks') = r
      /\ \A i \in 1 .. Len(asks) : asks'[i] = asks[i]
  BY Wrote DEF QInv, PipeTypes
<1>2. /\ toHelper \in Seq(Asks) /\ toHelper' \in Seq(Asks)
      /\ \A i \in 1 .. Len(toHelper') : toHelper'[i] = r \/ (i \in 1 .. Len(toHelper) /\ toHelper'[i] = toHelper[i])
  <2>1. toHelper \in Seq(Asks)
    BY DEF QInv, PipeTypes
  <2>2. CASE toHelper' = toHelper
    BY <2>1, <2>2
  <2>3. CASE toHelper' = Append(toHelper, r)
    BY <2>1, <2>3, Wrote
  <2> QED BY <2>1, <2>2, <2>3
<1>3. \A q \in Asks : q <= Len(asks) => q <= Len(asks') /\ asks'[q] = asks[q]
  BY <1>1, AsksAreNumbers DEF Asks
<1>4. r <= Len(asks')
  BY <1>1, AsksAreNumbers
<1>5. PipeTypes'
  BY <1>1, <1>2, AsksAreNumbers DEF QInv, PipeTypes, Asks
<1>6. \A q \in pending' : q <= Len(asks')
  BY <1>3, <1>4 DEF QInv, PipeTypes, AskedInv
<1>7. \A i \in 1 .. Len(work) : work[i] <= Len(asks')
  <2>1. \A i \in 1 .. Len(work) : work[i] \in Asks
    BY ElementOfSeq DEF QInv, PipeTypes
  <2> QED BY <1>3, <2>1 DEF QInv, AskedInv
<1>8. ASSUME NEW i \in 1 .. Len(toHelper')
      PROVE  toHelper'[i] <= Len(asks')
  <2>1. CASE toHelper'[i] = r
    BY <1>4, <2>1
  <2>2. CASE i \in 1 .. Len(toHelper) /\ toHelper'[i] = toHelper[i]
    <3>1. toHelper[i] \in Asks
      BY <1>2, <2>2, ElementOfSeq
    <3> QED BY <1>3, <2>2, <3>1 DEF QInv, AskedInv
  <2> QED BY <1>2, <2>1, <2>2
<1>9. ASSUME NEW i \in 1 .. Len(fromHelper), fromHelper[i].type = "answer"
      PROVE  fromHelper[i].seq <= Len(asks') /\ fromHelper[i].body = asks'[fromHelper[i].seq]
  <2>1. fromHelper[i] \in Events \cup Answers
    BY ElementOfSeq DEF QInv, PipeTypes
  <2>2. fromHelper[i].seq \in Asks
    BY <1>9, <2>1, MessagesHold
  <2> QED BY <1>3, <1>9, <2>2 DEF QInv, AskedInv
<1>10. ASSUME NEW q \in Asks
       PROVE  /\ phase'[q] # "new" => q <= Len(asks')
              /\ phase'[q] = "answered" => reply[q].body = asks'[q]
  <2>1. CASE q = r
    BY <1>4, <2>1 DEF QInv, PipeTypes
  <2>2. CASE q # r
    <3>1. phase'[q] = phase[q]
      BY <2>2 DEF QInv, PipeTypes
    <3>2. phase[q] = "answered" => phase[q] # "new"
      OBVIOUS
    <3> QED BY <1>3, <3>1, <3>2 DEF QInv, AskedInv
  <2> QED BY <2>1, <2>2
<1>11. AskedInv'
  BY <1>6, <1>7, <1>8, <1>9, <1>10 DEF AskedInv
<1> QED BY <1>5, <1>11 DEF QInv

LEMMA InitAnswers == DisasmInit => QInv
<1> SUFFICES ASSUME DisasmInit PROVE QInv
  OBVIOUS
<1>1. /\ asks = << >> /\ toHelper = << >> /\ work = << >> /\ fromHelper = << >> /\ pending = {}
      /\ phase = [r \in Asks |-> "new"] /\ reply = [r \in Asks |-> "none"]
  BY DEF DisasmInit
<1>2. \A i \in 1 .. Len(<< >>) : FALSE
  BY EmptySeq
<1>3. PipeTypes
  <2>1. /\ << >> \in Seq(Questions) /\ << >> \in Seq(Asks) /\ << >> \in Seq(Events \cup Answers)
        /\ Len(<< >>) <= MaxAsks
    BY EmptySeq, AsksAreNumbers
  <2> QED BY <1>1, <2>1 DEF PipeTypes
<1>4. AskedInv
  BY <1>1, <1>2 DEF AskedInv
<1> QED BY <1>3, <1>4 DEF QInv

\* The adapter makes its requests and takes what it is sent.
LEMMA AdapterKeepsAnswers ==
  ASSUME QInv,
         \/ \E k \in Questions : AskHelper(k)
         \/ \E r \in Asks : SymbolsThere(r) \/ SymbolsLate(r) \/ RequestTimesOut(r)
         \/ Receive
         \/ RttSettles \/ HelperExits \/ Dispose
  PROVE  QInv'
<1>1. ASSUME NEW k \in Questions, AskHelper(k)
      PROVE  QInv'
  <2>1. PICK r \in Asks : r = Len(asks) + 1
    BY <1>1 DEF AskHelper
  <2>2. asks' = Append(asks, k) /\ UNCHANGED <<reply, work, fromHelper>>
    BY <1>1 DEF AskHelper
  <2>3. PICK to \in {"table", "sent", "failed"} : phase' = [phase EXCEPT ![r] = to]
    BY <1>1, <2>1 DEF AskHelper, SendAsk
  <2>4. pending' \in {pending, pending \cup {r}} /\ toHelper' \in {toHelper, Append(toHelper, r)}
    BY <1>1, <2>1 DEF AskHelper, SendAsk
  <2> QED BY <2>1, <2>2, <2>3, <2>4, AsksGrow
<1>2. ASSUME NEW r \in Asks, SymbolsThere(r)
      PROVE  QInv'
  <2>1. r <= Len(asks)
    BY <1>2 DEF SymbolsThere, QInv, AskedInv
  <2> QED BY <1>2, <2>1, SendKeeps DEF SymbolsThere
\* A request that is given up can only lose its entry.
<1>3. ASSUME NEW r \in Asks, SymbolsLate(r) \/ RequestTimesOut(r)
      PROVE  QInv'
  <2>1. /\ phase' = [phase EXCEPT ![r] = "failed"]
        /\ pending' \subseteq pending
        /\ UNCHANGED <<asks, reply, toHelper, work, fromHelper>>
        /\ phase[r] # "new"
    BY <1>3 DEF SymbolsLate, RequestTimesOut, pipeVars
  <2>2. PipeTypes'
    BY <2>1 DEF QInv, PipeTypes
  <2>3. \A q \in Asks : phase'[q] = phase[q] \/ (q = r /\ phase'[q] = "failed")
    BY <2>1 DEF QInv, PipeTypes
  <2>4. AskedInv'
    BY <2>1, <2>3 DEF QInv, AskedInv
  <2> QED BY <2>2, <2>4 DEF QInv
<1>4. CASE Receive
  <2> DEFINE msg == Head(fromHelper)
  <2>1. /\ fromHelper # << >> /\ fromHelper' = Tail(fromHelper)
        /\ UNCHANGED <<asks, toHelper, work>>
        /\ HandleAnswer(msg) \/ HandleEvent(msg)
    BY <1>4 DEF Receive
  <2>2. /\ fromHelper \in Seq(Events \cup Answers) /\ asks \in Seq(Questions)
        /\ phase \in [Asks -> {"new", "table", "sent", "answered", "failed"}]
        /\ reply \in [Asks -> Answers \cup {"none"}]
        /\ pending \subseteq Asks
    BY DEF QInv, PipeTypes
  <2>3. /\ 1 \in 1 .. Len(fromHelper) /\ msg = fromHelper[1] /\ msg \in Events \cup Answers
        /\ fromHelper' \in Seq(Events \cup Answers)
        /\ \A i \in 1 .. Len(fromHelper') : i + 1 \in 1 .. Len(fromHelper) /\ fromHelper'[i] = fromHelper[i + 1]
    BY <2>1, <2>2, Took
  <2>4. msg.type = "answer" => msg.seq <= Len(asks) /\ msg.body = asks[msg.seq]
    BY <2>3 DEF QInv, AskedInv
  <2>5. Truthful(fromHelper')
    <3>1. Truthful(fromHelper)
      BY DEF QInv, AskedInv, Truthful
    <3> QED BY <2>3, <3>1 DEF Truthful
  <2> HIDE DEF msg
  <2>6. CASE UNCHANGED <<phase, reply, pending>>
    BY <2>1, <2>3, <2>5, <2>6, QuietKeeps DEF askVars
  <2>7. CASE ~UNCHANGED <<phase, reply, pending>>
    <3>1. /\ msg.type = "answer" /\ msg.seq \in pending
          /\ phase' = [phase EXCEPT ![msg.seq] = "answered"]
          /\ reply' = [reply EXCEPT ![msg.seq] = msg]
          /\ pending' = pending \ {msg.seq}
      BY <2>1, <2>7 DEF HandleAnswer, HandleEvent
    <3>2. msg \in Answers /\ msg.seq \in Asks
      BY <2>3, <3>1, MessagesHold
    <3>3. PipeTypes'
      BY <2>1, <2>2, <2>3, <3>1, <3>2 DEF QInv, PipeTypes
    <3>4. \A q \in Asks : IF q = msg.seq THEN phase'[q] = "answered" /\ reply'[q] = msg
                                         ELSE phase'[q] = phase[q] /\ reply'[q] = reply[q]
      BY <2>2, <3>1, <3>2
    <3>5. ASSUME NEW q \in Asks
          PROVE  /\ phase'[q] # "new" => q <= Len(asks)
                 /\ phase'[q] = "answered" => reply'[q].body = asks[q]
      <4>1. CASE q = msg.seq
        BY <2>4, <3>1, <3>4, <4>1
      <4>2. CASE q # msg.seq
        BY <3>4, <4>2 DEF QInv, AskedInv
      <4> QED BY <4>1, <4>2
    <3>6. \A i \in 1 .. Len(fromHelper') :
            fromHelper'[i].type = "answer" =>
              fromHelper'[i].seq <= Len(asks) /\ fromHelper'[i].body = asks[fromHelper'[i].seq]
      BY <2>5 DEF Truthful
    <3>7. AskedInv'
      BY <2>1, <3>1, <3>5, <3>6 DEF QInv, AskedInv
    <3> QED BY <3>3, <3>7 DEF QInv
  <2> QED BY <2>6, <2>7
<1>5. CASE RttSettles \/ HelperExits
  BY <1>5, StillKeeps DEF RttSettles, HelperExits
<1>6. CASE Dispose
  <2>1. pending' = {} /\ UNCHANGED <<asks, phase, reply, toHelper, work, fromHelper>>
    BY <1>6 DEF Dispose, pipeVars
  <2> QED BY <2>1 DEF QInv, PipeTypes, AskedInv
<1> QED BY <1>1, <1>2, <1>3, <1>4, <1>5, <1>6

\* A request read from a pipe has been made.
LEMMA ReadsWhatWasAsked ==
  ASSUME QInv, NEW s \in Seq(Asks), s # << >>, Made(s)
  PROVE  /\ Head(s) \in Asks /\ Head(s) <= Len(asks) /\ asks[Head(s)] \in Questions
         /\ Tail(s) \in Seq(Asks) /\ Made(Tail(s))
<1>1. /\ Head(s) \in Asks /\ Head(s) <= Len(asks)
      /\ Tail(s) \in Seq(Asks) /\ Made(Tail(s))
  BY Took DEF Made
<1>2. asks \in Seq(Questions)
  BY DEF QInv, PipeTypes
<1>3. Head(s) \in 1 .. Len(asks)
  BY <1>1, <1>2, LenProperties DEF Asks
<1> QED BY <1>1, <1>2, <1>3, ElementOfSeq

\* The two threads of the helper pass requests on and answer them.
LEMMA HelperKeepsAnswers ==
  ASSUME QInv, MainStep \/ WorkerStep \/ HelperDies
  PROVE  QInv'
<1>0. /\ asks \in Seq(Questions) /\ toHelper \in Seq(Asks) /\ work \in Seq(Asks)
      /\ fromHelper \in Seq(Events \cup Answers)
  BY DEF QInv, PipeTypes
<1>1. Truthful(fromHelper)
  BY DEF QInv, AskedInv, Truthful
<1>3. Made(toHelper) /\ Made(work)
  BY DEF QInv, AskedInv, Made
\* An event is written.
<1>4. ASSUME NEW e \in {"RTTFound", "SymbolTableReady", "DisassemblyReady"}, Write(Event(e)),
             UNCHANGED <<askVars, toHelper, work>>
      PROVE  QInv'
  BY <1>4, EventsHold, WritesTruth, QuietKeeps
\* An answer is written.
<1>5. ASSUME NEW r \in Asks, r <= Len(asks), asks[r] \in Questions, Write(Answered(r, asks[r]))
      PROVE  fromHelper' \in Seq(Events \cup Answers) /\ Truthful(fromHelper')
  BY <1>5, AnswersHold, WritesTruth
\* Only the pipes change.
<1>6. ASSUME UNCHANGED askVars, toHelper' \in Seq(Asks), Made(toHelper'), work' \in Seq(Asks), Made(work'),
             fromHelper' \in Seq(Events \cup Answers), Truthful(fromHelper')
      PROVE  QInv'
  <2>1. UNCHANGED <<asks, phase, reply, pending>>
    BY <1>6 DEF askVars
  <2>2. PipeTypes'
    BY <1>6, <2>1 DEF QInv, PipeTypes
  <2>3. /\ \A i \in 1 .. Len(toHelper') : toHelper'[i] <= Len(asks)
        /\ \A i \in 1 .. Len(work') : work'[i] <= Len(asks)
        /\ \A i \in 1 .. Len(fromHelper') :
             fromHelper'[i].type = "answer" =>
               fromHelper'[i].seq <= Len(asks) /\ fromHelper'[i].body = asks[fromHelper'[i].seq]
    BY <1>6 DEF Made, Truthful
  <2>4. AskedInv'
    BY <2>1, <2>3 DEF QInv, AskedInv
  <2> QED BY <2>2, <2>4 DEF QInv
<1>7. << >> \in Seq(Asks) /\ Made(<< >>)
  BY EmptySeq DEF Made
<1>8. CASE MainFindsSymbols
  <2>1. CASE hasRtt
    BY <1>4, <1>8, <2>1 DEF MainFindsSymbols
  <2>2. CASE ~hasRtt
    BY <1>8, <2>2, StillKeeps DEF MainFindsSymbols, pipeVars
  <2> QED BY <2>1, <2>2
<1>9. CASE MainLoads \/ WorkerLearns
  BY <1>9, StillKeeps DEF MainLoads, WorkerLearns
<1>10. CASE MainReady
  BY <1>4, <1>10 DEF MainReady
<1>11. CASE MainServes
  <2> DEFINE r == Head(toHelper)
  <2>1. /\ toHelper # << >> /\ toHelper' = Tail(toHelper) /\ UNCHANGED askVars
        /\ \/ Write(Answered(r, asks[r])) /\ UNCHANGED work
           \/ work' \in {work, Append(work, r)} /\ UNCHANGED fromHelper
    BY <1>11 DEF MainServes
  <2>2. /\ r \in Asks /\ r <= Len(asks) /\ asks[r] \in Questions
        /\ toHelper' \in Seq(Asks) /\ Made(toHelper')
    BY <1>0, <1>3, <2>1, ReadsWhatWasAsked
  <2> HIDE DEF r
  <2>3. Append(work, r) \in Seq(Asks) /\ Made(Append(work, r))
    BY <1>0, <1>3, <2>2, Wrote DEF Made
  <2>4. CASE Write(Answered(r, asks[r])) /\ UNCHANGED work
    BY <1>0, <1>3, <1>5, <1>6, <2>1, <2>2, <2>4
  <2>5. CASE work' \in {work, Append(work, r)} /\ UNCHANGED fromHelper
    BY <1>0, <1>1, <1>3, <1>6, <2>1, <2>2, <2>3, <2>5
  <2> QED BY <2>1, <2>4, <2>5
<1>12. CASE WorkerLists
  BY <1>4, <1>12 DEF WorkerLists
<1>13. CASE WorkerFails \/ HelperDies
  <2>1. /\ UNCHANGED <<askVars, fromHelper>> /\ work' = << >>
        /\ toHelper' \in {toHelper, << >>}
    BY <1>13 DEF WorkerFails, HelperDies
  <2> QED BY <1>0, <1>1, <1>3, <1>6, <1>7, <2>1
<1>14. CASE WorkerServes
  <2> DEFINE r == Head(work)
  <2>1. /\ work # << >> /\ work' = Tail(work) /\ UNCHANGED <<askVars, toHelper>>
        /\ Write(Answered(r, asks[r]))
    BY <1>14 DEF WorkerServes
  <2>2. /\ r \in Asks /\ r <= Len(asks) /\ asks[r] \in Questions
        /\ work' \in Seq(Asks) /\ Made(work')
    BY <1>0, <1>3, <2>1, ReadsWhatWasAsked
  <2> HIDE DEF r
  <2> QED BY <1>0, <1>3, <1>5, <1>6, <2>1, <2>2
<1> QED BY <1>8, <1>9, <1>10, <1>11, <1>12, <1>13, <1>14 DEF MainStep, WorkerStep

LEMMA NextKeepsAnswers ==
  ASSUME QInv, [DisasmNext]_disasmVars
  PROVE  QInv'
<1>1. CASE DisasmNext
  BY <1>1, AdapterKeepsAnswers, HelperKeepsAnswers DEF DisasmNext, Questions
<1>2. CASE UNCHANGED disasmVars
  BY <1>2, StillKeeps DEF disasmVars
<1> QED BY <1>1, <1>2

\* For any number of requests and any listing, an answer is given to no other request
\* than the one it answers: handleHelperMessage looks for it by its sequence number, so
\* that one which comes after its request timed out settles nothing.
THEOREM AnswersAreTheirOwn == DisasmSpec => []AnswersOwnRequest
<1>1. DisasmInit => QInv
  BY InitAnswers
<1>2. QInv /\ [DisasmNext]_disasmVars => QInv'
  BY NextKeepsAnswers
<1>3. QInv => AnswersOwnRequest
  <2> SUFFICES ASSUME QInv, NEW r \in 1 .. Len(asks), phase[r] = "answered"
               PROVE  reply[r].body = asks[r]
    BY DEF AnswersOwnRequest
  <2>1. r \in Asks
    <3>1. Len(asks) \in Nat /\ Len(asks) <= MaxAsks
      BY LenProperties DEF QInv, PipeTypes
    <3> QED BY <3>1, AsksAreNumbers DEF Asks
  <2> QED BY <2>1 DEF QInv, AskedInv
<1> QED BY <1>1, <1>2, <1>3, PTL DEF DisasmSpec

-----------------------------------------------------------------------------
(* The search for RTT *)

\* What RttInv says of the pipe: the address comes before the news that all is read, or
\* is not on its way.
Ordered(s) ==
  \A i \in 1 .. Len(s) : s[i].type = "SymbolTableReady" => \E j \in 1 .. i - 1 : s[j].type = "RTTFound"

OnPipe(s) == \E j \in 1 .. Len(s) : s[j].type = "RTTFound"

RInv == fromHelper \in Seq(Events \cup Answers) /\ RttInv

LEMMA RttKeeps ==
  ASSUME RInv, fromHelper' \in Seq(Events \cup Answers), UNCHANGED hasRtt,
         hasRtt => rttWait' # "missing",
         hasRtt /\ ~rttAt' =>
           /\ ~rttAt
           /\ rtt' = rtt
           /\ Ordered(fromHelper) /\ OnPipe(fromHelper) => Ordered(fromHelper') /\ OnPipe(fromHelper')
           /\ Ordered(fromHelper) => Ordered(fromHelper')
           /\ main' \in {"dwarf", "loaded"} => main \in {"dwarf", "loaded"} \/ OnPipe(fromHelper')
  PROVE  RInv'
<1>1. RttInv'
  BY DEF RInv, RttInv, Ordered, OnPipe
<1> QED BY <1>1 DEF RInv

\* Nothing is written, read or found out.
LEMMA RttStill ==
  ASSUME RInv, UNCHANGED <<hasRtt, fromHelper, blockVars>>,
         main' \in {"dwarf", "loaded"} => main \in {"dwarf", "loaded"}
  PROVE  RInv'
BY DEF RInv, RttInv, blockVars

\* What comes after does not change the order of what is there.
LEMMA WritesInOrder ==
  ASSUME RInv, NEW msg \in Events \cup Answers, Write(msg)
  PROVE  /\ fromHelper' \in Seq(Events \cup Answers)
         /\ OnPipe(fromHelper) => OnPipe(fromHelper')
         /\ msg.type = "RTTFound" => OnPipe(fromHelper')
         /\ Ordered(fromHelper) /\ (msg.type = "SymbolTableReady" => OnPipe(fromHelper)) => Ordered(fromHelper')
<1>1. fromHelper' = Append(fromHelper, msg) /\ fromHelper \in Seq(Events \cup Answers)
  BY DEF RInv, Write
<1>2. /\ fromHelper' \in Seq(Events \cup Answers)
      /\ Len(fromHelper) \in Nat /\ Len(fromHelper') = Len(fromHelper) + 1
      /\ \A i \in 1 .. Len(fromHelper) : fromHelper'[i] = fromHelper[i]
      /\ fromHelper'[Len(fromHelper) + 1] = msg
  BY <1>1, Wrote
<1>3. OnPipe(fromHelper) => OnPipe(fromHelper')
  BY <1>2 DEF OnPipe
<1>4. msg.type = "RTTFound" => OnPipe(fromHelper')
  BY <1>2 DEF OnPipe
<1>5. ASSUME Ordered(fromHelper), msg.type = "SymbolTableReady" => OnPipe(fromHelper),
             NEW i \in 1 .. Len(fromHelper'), fromHelper'[i].type = "SymbolTableReady"
      PROVE  \E j \in 1 .. i - 1 : fromHelper'[j].type = "RTTFound"
  <2>1. CASE i \in 1 .. Len(fromHelper)
    <3>1. PICK j \in 1 .. i - 1 : fromHelper[j].type = "RTTFound"
      BY <1>2, <1>5, <2>1 DEF Ordered
    <3> QED BY <1>2, <2>1, <3>1
  <2>2. CASE i = Len(fromHelper) + 1
    <3>1. PICK j \in 1 .. Len(fromHelper) : fromHelper[j].type = "RTTFound"
      BY <1>2, <1>5, <2>2 DEF OnPipe
    <3> QED BY <1>2, <2>2, <3>1
  <2> QED BY <1>2, <2>1, <2>2
<1> QED BY <1>2, <1>3, <1>4, <1>5 DEF Ordered

\* The adapter takes a message: the address, or one that leaves it where it was on the pipe.
LEMMA ReceiveKeepsRtt ==
  ASSUME RInv, Receive
  PROVE  RInv'
<1> DEFINE msg == Head(fromHelper)
<1>1. /\ fromHelper # << >> /\ fromHelper' = Tail(fromHelper)
      /\ HandleAnswer(msg) \/ HandleEvent(msg)
      /\ UNCHANGED <<hasRtt, main>>
  BY DEF Receive, helperVars
<1>2. /\ Len(fromHelper) \in Nat /\ 1 \in 1 .. Len(fromHelper) /\ msg = fromHelper[1] /\ msg \in Events \cup Answers
      /\ fromHelper' \in Seq(Events \cup Answers)
      /\ Len(fromHelper') = Len(fromHelper) - 1
      /\ \A i \in 1 .. Len(fromHelper') : i + 1 \in 1 .. Len(fromHelper) /\ fromHelper'[i] = fromHelper[i + 1]
  BY <1>1, Took DEF RInv
<1>3. Ordered(fromHelper) => msg.type # "SymbolTableReady"
  BY <1>2 DEF Ordered
<1>4. rttWait' = rttWait
  BY <1>1 DEF HandleAnswer, HandleEvent, blockVars
<1> HIDE DEF msg
<1>5. ASSUME hasRtt, ~rttAt'
      PROVE  ~rttAt /\ msg.type # "RTTFound"
  <2>1. CASE HandleAnswer(msg)
    <3>1. rttAt' = rttAt /\ msg.type = "answer"
      BY <2>1 DEF HandleAnswer, blockVars
    <3> QED BY <1>5, <3>1
  <2>2. CASE HandleEvent(msg)
    <3>1. rttAt' = (rttAt \/ msg.type = "RTTFound")
      BY <2>2 DEF HandleEvent
    <3> QED BY <1>5, <3>1, Zenon
  <2> QED BY <1>1, <2>1, <2>2
<1>6. ASSUME hasRtt, ~rttAt'
      PROVE  rtt' = rtt
  <2>1. ~rttAt /\ msg.type # "RTTFound"
    BY <1>5, <1>6
  <2>2. Ordered(fromHelper)
    BY <1>6, <2>1 DEF RInv, RttInv, Ordered
  <2>3. msg.type # "SymbolTableReady"
    BY <1>3, <2>2
  <2>4. CASE HandleAnswer(msg)
    BY <2>4 DEF HandleAnswer, blockVars
  <2>5. CASE HandleEvent(msg)
    <3>1. msg.type # "answer"
      BY <2>5 DEF HandleEvent
    <3>2. msg.type = "DisassemblyReady"
      BY <1>2, <2>1, <2>3, <3>1 DEF Events, Answers
    <3> QED BY <2>5, <3>2 DEF HandleEvent
  <2> QED BY <1>1, <2>4, <2>5
<1>7. ASSUME hasRtt, ~rttAt', OnPipe(fromHelper)
      PROVE  OnPipe(fromHelper')
  <2>1. PICK j \in 1 .. Len(fromHelper) : fromHelper[j].type = "RTTFound"
    BY <1>7 DEF OnPipe
  <2>2. j # 1
    BY <1>2, <1>5, <1>7, <2>1
  <2>3. j - 1 \in 1 .. Len(fromHelper') /\ fromHelper'[j - 1] = fromHelper[j]
    BY <1>2, <2>2
  <2> QED BY <2>1, <2>3 DEF OnPipe
<1>8. ASSUME hasRtt, ~rttAt', Ordered(fromHelper),
             NEW i \in 1 .. Len(fromHelper'), fromHelper'[i].type = "SymbolTableReady"
      PROVE  \E j \in 1 .. i - 1 : fromHelper'[j].type = "RTTFound"
  <2>1. i + 1 \in 1 .. Len(fromHelper) /\ fromHelper[i + 1].type = "SymbolTableReady"
    BY <1>2, <1>8
  <2>2. PICK j \in 1 .. i : fromHelper[j].type = "RTTFound"
    BY <1>8, <2>1 DEF Ordered
  <2>3. j # 1
    BY <1>2, <1>5, <1>8, <2>2
  <2>4. j - 1 \in 1 .. i - 1 /\ fromHelper'[j - 1] = fromHelper[j]
    BY <1>2, <2>2, <2>3
  <2> QED BY <2>2, <2>4
<1>9. hasRtt => rttWait' # "missing"
  BY <1>4 DEF RInv, RttInv
<1>10. hasRtt /\ ~rttAt' /\ Ordered(fromHelper) => Ordered(fromHelper')
  BY <1>8 DEF Ordered
<1> QED BY <1>1, <1>2, <1>5, <1>6, <1>7, <1>9, <1>10, RttKeeps

LEMMA NextKeepsRtt ==
  ASSUME QInv, RInv, [DisasmNext]_disasmVars
  PROVE  RInv'
<1>1. CASE \/ \E k \in {Globals} \cup {Disassemble(q) : q \in Inputs} : AskHelper(k)
           \/ \E r \in Asks : SymbolsThere(r) \/ SymbolsLate(r) \/ RequestTimesOut(r)
           \/ HelperExits \/ Dispose \/ HelperDies \/ MainLoads \/ (MainServes /\ UNCHANGED fromHelper)
           \/ WorkerFails \/ WorkerLearns \/ UNCHANGED disasmVars
  <2>1. UNCHANGED <<hasRtt, fromHelper, blockVars>>
    BY <1>1 DEF AskHelper, SymbolsThere, SymbolsLate, RequestTimesOut, HelperExits, Dispose, HelperDies,
                MainLoads, MainServes, WorkerFails, WorkerLearns, disasmVars, pipeVars
  <2>2. main' \in {"dwarf", "loaded"} => main \in {"dwarf", "loaded"}
    BY <1>1 DEF AskHelper, SymbolsThere, SymbolsLate, RequestTimesOut, HelperExits, Dispose, HelperDies,
                MainLoads, MainServes, WorkerFails, WorkerLearns, disasmVars, helperVars
  <2> QED BY <2>1, <2>2, RttStill
<1>2. CASE Receive
  BY <1>2, ReceiveKeepsRtt
\* It gives up once it has been told that there is none, or after a while.
<1>3. CASE RttSettles
  <2>1. UNCHANGED <<hasRtt, fromHelper, rtt, rttAt, main>>
    BY <1>3 DEF RttSettles, pipeVars, helperVars
  <2>2. hasRtt => rttWait' # "missing"
    BY <1>3 DEF RttSettles, RInv, RttInv
  <2> QED BY <2>1, <2>2 DEF RInv, RttInv
\* The address is written before anything can follow it.
<1>4. CASE MainFindsSymbols
  <2>1. UNCHANGED <<hasRtt, blockVars>>
    BY <1>4 DEF MainFindsSymbols
  <2>2. CASE hasRtt
    <3>1. Write(Event("RTTFound"))
      BY <1>4, <2>2 DEF MainFindsSymbols
    <3>2. /\ fromHelper' \in Seq(Events \cup Answers) /\ OnPipe(fromHelper')
          /\ Ordered(fromHelper) => Ordered(fromHelper')
      BY <3>1, EventsHold, WritesInOrder
    <3> QED BY <2>1, <3>2, RttKeeps DEF RInv, RttInv, blockVars
  <2>3. CASE ~hasRtt
    BY <1>4, <2>1, <2>3 DEF MainFindsSymbols, RInv, RttInv
  <2> QED BY <2>2, <2>3
<1>5. CASE MainReady
  <2>1. /\ main = "loaded" /\ main' = "serving" /\ Write(Event("SymbolTableReady"))
        /\ UNCHANGED <<hasRtt, blockVars>>
    BY <1>5 DEF MainReady
  <2>2. /\ fromHelper' \in Seq(Events \cup Answers)
        /\ OnPipe(fromHelper) => OnPipe(fromHelper')
        /\ Ordered(fromHelper) /\ OnPipe(fromHelper) => Ordered(fromHelper')
    BY <2>1, EventsHold, WritesInOrder
  <2>3. hasRtt /\ ~rttAt => OnPipe(fromHelper)
    BY <2>1 DEF RInv, RttInv, OnPipe
  <2> QED BY <2>1, <2>2, <2>3, RttKeeps DEF RInv, RttInv, blockVars
\* Anything else it writes does not end the search.
<1>6. ASSUME NEW msg \in Events \cup Answers, msg.type # "SymbolTableReady", Write(msg),
             UNCHANGED <<hasRtt, blockVars, main>>
      PROVE  RInv'
  <2>1. /\ fromHelper' \in Seq(Events \cup Answers)
        /\ OnPipe(fromHelper) => OnPipe(fromHelper')
        /\ Ordered(fromHelper) => Ordered(fromHelper')
    BY <1>6, WritesInOrder
  <2> QED BY <1>6, <2>1, RttKeeps DEF RInv, RttInv, blockVars
<1>7. CASE WorkerLists
  BY <1>6, <1>7, EventsHold DEF WorkerLists
<1>8. Made(toHelper) /\ Made(work) /\ toHelper \in Seq(Asks) /\ work \in Seq(Asks)
  BY DEF QInv, PipeTypes, AskedInv, Made
<1>9. CASE MainServes /\ ~UNCHANGED fromHelper
  <2>1. /\ toHelper # << >> /\ Write(Answered(Head(toHelper), asks[Head(toHelper)]))
        /\ UNCHANGED <<hasRtt, blockVars, main>>
    BY <1>9 DEF MainServes, helperVars
  <2>2. Head(toHelper) \in Asks /\ asks[Head(toHelper)] \in Questions
    BY <1>8, <2>1, ReadsWhatWasAsked
  <2> QED BY <1>6, <2>1, <2>2, AnswersHold
<1>10. CASE WorkerServes
  <2>1. /\ work # << >> /\ Write(Answered(Head(work), asks[Head(work)]))
        /\ UNCHANGED <<hasRtt, blockVars, main>>
    BY <1>10 DEF WorkerServes, helperVars
  <2>2. Head(work) \in Asks /\ asks[Head(work)] \in Questions
    BY <1>8, <2>1, ReadsWhatWasAsked
  <2> QED BY <1>6, <2>1, <2>2, AnswersHold
<1> QED BY <1>1, <1>2, <1>3, <1>4, <1>5, <1>7, <1>9, <1>10 DEF DisasmNext, MainStep, WorkerStep

\* RTT is given up for good only for an executable without an RTT block, whichever of the
\* two threads of the helper reports first: main reports the block before it reports the
\* symbols (run.rs), and loadSymbols takes nothing else for the end of the search.
THEOREM RttIsFoundIfThere == DisasmSpec => []RttNotMissed
<1>1. DisasmInit => QInv /\ RInv
  <2> SUFFICES ASSUME DisasmInit PROVE RInv
    BY InitAnswers
  <2>1. /\ fromHelper = << >> /\ rttWait = "waiting" /\ rtt = "pending" /\ main \in {"ended", "symbols"}
    BY DEF DisasmInit
  <2>2. << >> \in Seq(Events \cup Answers) /\ \A i \in 1 .. Len(<< >>) : FALSE
    BY EmptySeq
  <2> QED BY <2>1, <2>2 DEF RInv, RttInv
<1>2. QInv /\ RInv /\ [DisasmNext]_disasmVars => (QInv /\ RInv)'
  BY NextKeepsAnswers, NextKeepsRtt
<1>3. RInv => RttNotMissed
  BY DEF RInv, RttInv, RttNotMissed
<1> QED BY <1>1, <1>2, <1>3, PTL DEF DisasmSpec


-----------------------------------------------------------------------------
(* The built-in RTT: bytes shown and heard in order *)

Where == {"off", "sleep", "hung", "search", "count", "desc", "read", "ack", "drain", "write", "rest", "publish"}
Offsets == [rd : Ring, wr : Ring]

RttTypeOK ==
  /\ ready \in BOOLEAN /\ found \in BOOLEAN /\ counted \in BOOLEAN
  /\ busy \in BOOLEAN /\ astray \in BOOLEAN
  /\ up \in Offsets /\ down \in Offsets
  /\ upMem \in [Ring -> Nat] /\ downMem \in [Ring -> Nat]
  /\ printed \in Nat /\ typed \in Nat /\ sent \in Nat
  /\ heard \in Seq(Nat) /\ shown \in Seq(Nat) /\ queued \in Seq(Nat) /\ wrBuffer \in Seq(Nat)
  /\ pc \in [Actors -> Where]
  /\ desc \in [Actors -> Offsets]
  /\ chunk \in [Actors -> Seq(Nat)]
  /\ last \in [Actors -> BOOLEAN]
  /\ pc[Writer] \in {"off", "drain", "write", "rest", "publish"}

\* The positions of a ring, without the modulus: how far it is from one to another, and
\* which is so far from one.
Distance(from, to) == IF from <= to THEN to - from ELSE Size - from + to
At(from, i)     == IF from + i < Size THEN from + i ELSE from + i - Size

\* Nothing happens to the rings before the control block has been found, and it is not
\* found before it has been set up.
FoundInv ==
  /\ found => ready
  /\ counted => found
  /\ astray => "astray" \in lapse
  /\ ~found => \A a \in Actors : AtRest(a) \/ pc[a] = "search"
  /\ ~ready => /\ printed = 0 /\ shown = << >> /\ up.rd = up.wr
               /\ heard = << >> /\ sent = 0 /\ down.rd = down.wr

\* What the firmware has printed and the adapter has not taken, and what a loop is about
\* to read, or has read and shown.
Unread == Distance(up.rd, up.wr)
Taken  == printed - Unread

Reading(a) ==
  /\ Len(shown) = Taken
  /\ desc[a].rd = up.rd /\ desc[a].wr # up.rd
  /\ Distance(up.rd, desc[a].wr) <= Unread

Acking(a) ==
  \E n \in 1 .. Unread :
    /\ Len(shown) = Taken + n
    /\ desc[a].rd = At(up.rd, n)
    /\ n + Distance(desc[a].rd, desc[a].wr) <= Unread

Alone == \A a, b \in Loops : ~AtRest(a) /\ ~AtRest(b) => a = b

UpInv ==
  {"overlap", "mute", "astray"} \cap lapse = {} =>
    /\ Taken \in Nat
    /\ \A i \in 0 .. Unread - 1 : upMem[At(up.rd, i)] = Taken + i + 1
    /\ Alone
    /\ shown = Counted(Len(shown))
    /\ (\A a \in Loops : pc[a] # "ack") => Len(shown) = Taken
    /\ \A a \in Loops : (pc[a] = "read" => Reading(a)) /\ (pc[a] = "ack" => Acking(a))

\* What is in the ring and the firmware has not read, and what an actor is about to add.
Unheard == Distance(down.rd, down.wr)

Writing(a) == pc[a] \in {"write", "rest", "publish"}

Parcel(a) ==
  /\ chunk[a] = wrBuffer /\ wrBuffer # << >>
  /\ desc[a].wr = down.wr
  /\ Len(wrBuffer) + Unheard <= Size - 1
  /\ pc[a] = "rest" => /\ Len(wrBuffer) > Size - down.wr
                       /\ \A i \in 0 .. Size - down.wr - 1 : downMem[At(down.wr, i)] = wrBuffer[i + 1]
  /\ pc[a] = "publish" => \A i \in 0 .. Len(wrBuffer) - 1 : downMem[At(down.wr, i)] = wrBuffer[i + 1]

OneDrains == \A a, b \in Actors : Draining(a) /\ Draining(b) => a = b

\* What was typed is heard, in the ring, about to be written, or waits, in this order.
Line ==
  /\ \A i \in 1 .. Len(wrBuffer) : wrBuffer[i] = sent + i
  /\ \A i \in 1 .. Len(queued) : queued[i] = sent + Len(wrBuffer) + i
  /\ typed = sent + Len(wrBuffer) + Len(queued)

DownRing ==
  /\ heard = Counted(Len(heard))
  /\ sent = Len(heard) + Unheard
  /\ \A i \in 0 .. Unheard - 1 : downMem[At(down.rd, i)] = Len(heard) + i + 1

DownInv ==
  /\ pc[Writer] # "off" => busy
  /\ lapse = {} => OneDrains /\ Line /\ DownRing /\ \A a \in Actors : Writing(a) => Parcel(a)

RttIInv == RttTypeOK /\ FoundInv /\ UpInv /\ DownInv

-----------------------------------------------------------------------------
(* Rings *)

LEMMA RingSize ==
  /\ Size \in Nat /\ Size > 0 /\ Chunk \in Nat /\ Chunk > 0 /\ Start \in Ring
  /\ Writer \in Actors /\ Writer \notin Loops /\ Loops \subseteq Actors
  /\ Actors = Loops \cup {Writer}
  /\ Nothing \in Offsets
BY RttAssumption DEF Ring, Writer, Actors, Loops, Nothing, Offsets

\* A sum below twice the size wraps at most once.
LEMMA Wraps ==
  ASSUME NEW i \in Ring, NEW n \in 0 .. Size
  PROVE  (i + n) % Size = At(i, n) /\ At(i, n) \in Ring
<1>1. Size \in Nat /\ Size > 0 /\ i + n \in 0 .. 2 * Size - 1
  BY RingSize DEF Ring
<1>2. ASSUME NEW x \in 0 .. 2 * Size - 1
      PROVE  x % Size = IF x < Size THEN x ELSE x - Size
  BY <1>1
<1> QED BY <1>1, <1>2 DEF At, Ring

LEMMA Distances ==
  ASSUME NEW i \in Ring, NEW j \in Ring
  PROVE  /\ Distance(i, j) \in 0 .. Size - 1
         /\ At(i, Distance(i, j)) = j
         /\ Distance(i, j) = 0 <=> i = j
BY RingSize DEF Ring, Distance, At

LEMMA Places ==
  ASSUME NEW i \in Ring, NEW n \in 0 .. Size - 1
  PROVE  /\ At(i, n) \in Ring /\ Distance(i, At(i, n)) = n /\ At(i, 0) = i
         /\ \A m \in 0 .. Size - 1 : At(i, m) = At(i, n) => m = n
         /\ \A m \in 0 .. Size - 1 - n : At(At(i, n), m) = At(i, n + m)
BY RingSize DEF Ring, Distance, At

\* Past a place before the other end, the rest of the way is left.
LEMMA RestOfWay ==
  ASSUME NEW i \in Ring, NEW j \in Ring, NEW n \in 0 .. Distance(i, j)
  PROVE  Distance(At(i, n), j) = Distance(i, j) - n
BY RingSize DEF Ring, Distance, At

\* The other end moves on into the room that is left.
LEMMA LongerWay ==
  ASSUME NEW i \in Ring, NEW j \in Ring, NEW n \in Nat, Distance(i, j) + n <= Size - 1
  PROVE  Distance(i, At(j, n)) = Distance(i, j) + n /\ At(j, n) = At(i, Distance(i, j) + n)
BY RingSize DEF Ring, Distance, At

\* What is added behind the contents stays off them, up to the end of the ring and from
\* its beginning.
LEMMA Apart ==
  ASSUME NEW r \in Ring, NEW k \in 0 .. Size - 1, NEW m \in Nat, m + k <= Size - 1,
         NEW i \in 0 .. k - 1
  PROVE  LET w == At(r, k)
         IN  /\ At(r, i) \in Ring
             /\ \A n \in Nat : n <= m /\ n <= Size - w => At(r, i) \notin w .. w + n - 1
             /\ m > Size - w => ~(At(r, i) < m - (Size - w))
BY RingSize DEF Ring, At

LEMMA UpToEnd ==
  ASSUME NEW w \in Ring, NEW n \in Nat, n <= Size - w, NEW i \in 0 .. n - 1
  PROVE  At(w, i) = w + i /\ At(w, i) \in Ring /\ At(w, i) \in w .. w + n - 1
BY RingSize DEF Ring, At

LEMMA FromStart ==
  ASSUME NEW w \in Ring, NEW i \in Nat, i >= Size - w, i < Size
  PROVE  At(w, i) = i - (Size - w) /\ At(w, i) \in Ring /\ At(w, i) \in Nat
BY RingSize DEF Ring, At

-----------------------------------------------------------------------------
(* Sequences of numbers that count *)

LEMMA CountedFacts ==
  ASSUME NEW n \in Nat
  PROVE  Counted(n) \in Seq(Nat) /\ Len(Counted(n)) = n /\ \A i \in 1 .. n : Counted(n)[i] = i
<1>1. Counted(n) \in [1 .. n -> Nat]
  BY DEF Counted
<1> QED BY <1>1, SeqDef, LenProperties DEF Counted

LEMMA IsCounted ==
  ASSUME NEW s \in Seq(Nat), \A i \in 1 .. Len(s) : s[i] = i
  PROVE  s = Counted(Len(s))
BY LenProperties DEF Counted

LEMMA CountedOn ==
  ASSUME NEW s \in Seq(Nat), s = Counted(Len(s)), NEW t \in Seq(Nat),
         \A i \in 1 .. Len(t) : t[i] = Len(s) + i
  PROVE  s \o t \in Seq(Nat) /\ s \o t = Counted(Len(s \o t)) /\ Len(s \o t) = Len(s) + Len(t)
<1>1. /\ s \o t \in Seq(Nat) /\ Len(s) \in Nat /\ Len(t) \in Nat /\ Len(s \o t) = Len(s) + Len(t)
      /\ \A i \in 1 .. Len(s) + Len(t) : (s \o t)[i] = IF i <= Len(s) THEN s[i] ELSE t[i - Len(s)]
  BY ConcatProperties, LenProperties
<1>2. \A i \in 1 .. Len(s) : s[i] = i
  BY <1>1, CountedFacts
<1>3. ASSUME NEW i \in 1 .. Len(s \o t)
      PROVE  (s \o t)[i] = i
  <2>1. CASE i <= Len(s)
    BY <1>1, <1>2, <2>1
  <2>2. CASE ~(i <= Len(s))
    <3>1. i - Len(s) \in 1 .. Len(t)
      BY <1>1, <2>2
    <3> QED BY <1>1, <2>2, <3>1
  <2> QED BY <2>1, <2>2
<1> QED BY <1>1, <1>3, IsCounted

-----------------------------------------------------------------------------
(* What most steps leave alone *)

\* One actor moves on, and neither of the loops that read takes anything.
LEMMA UpKept ==
  ASSUME RttTypeOK, UpInv, UNCHANGED <<up, upMem, printed, shown>>, lapse \subseteq lapse',
         NEW a \in Actors,
         \A b \in Actors : b # a => pc'[b] = pc[b] /\ desc'[b] = desc[b],
         \/ pc'[a] = pc[a] /\ desc'[a] = desc[a]
         \/ /\ pc[a] = "ack" => "mute" \in lapse'
            /\ pc'[a] \notin {"read", "ack"}
            /\ \/ a = Writer \/ "overlap" \in lapse'
               \/ ~AtRest(a) \/ AtRest(a)'
               \/ \A b \in Loops \ {a} : AtRest(b)
  PROVE  UpInv'
<1> SUFFICES ASSUME {"overlap", "mute", "astray"} \cap lapse' = {}
             PROVE  UpInv!2'
  BY DEF UpInv
<1>1. UpInv!2
  BY DEF UpInv
<1>2. Unread' = Unread /\ Taken' = Taken
  BY DEF Unread, Taken, Distance
<1>3. \A b \in Loops : b \in Actors /\ b # Writer
  BY RingSize
<1>4. Alone'
  BY <1>1, <1>3 DEF Alone, AtRest
<1>5. \A b \in Loops : pc'[b] \in {"read", "ack"} => pc'[b] = pc[b] /\ desc'[b] = desc[b]
  BY <1>3
<1>6. \A b \in Loops : pc[b] = "ack" => pc'[b] = "ack"
  BY <1>3
<1>7. \A b \in Loops : (pc'[b] = "read" => Reading(b)') /\ (pc'[b] = "ack" => Acking(b)')
  BY <1>1, <1>2, <1>5 DEF Reading, Acking, Distance, At
<1> QED BY <1>1, <1>2, <1>4, <1>6, <1>7 DEF At

LEMMA DownKept ==
  ASSUME RttTypeOK, DownInv, UNCHANGED <<down, downMem, heard, sent, typed, queued, wrBuffer>>,
         lapse \subseteq lapse', NEW a \in Actors,
         \A b \in Actors : b # a => pc'[b] = pc[b] /\ desc'[b] = desc[b] /\ chunk'[b] = chunk[b],
         \/ pc'[a] = pc[a] /\ desc'[a] = desc[a] /\ chunk'[a] = chunk[a]
         \/ /\ ~Writing(a)'
            /\ \/ "drains" \in lapse'
               \/ Draining(a)' => Draining(a)
               \/ \A b \in Actors \ {a} : ~Draining(b),
         pc'[Writer] # "off" => busy'
  PROVE  DownInv'
<1> SUFFICES ASSUME lapse' = {}
             PROVE  (OneDrains /\ Line /\ DownRing /\ \A b \in Actors : Writing(b) => Parcel(b))'
  BY DEF DownInv
<1>1. OneDrains /\ Line /\ DownRing /\ \A b \in Actors : Writing(b) => Parcel(b)
  BY DEF DownInv
<1>2. OneDrains'
  BY <1>1 DEF OneDrains, Draining, Writing
<1>3. Unheard' = Unheard
  BY DEF Unheard, Distance
<1>4. Line' /\ DownRing'
  BY <1>1, <1>3 DEF Line, DownRing, At
<1>5. \A b \in Actors : Writing(b)' => Parcel(b)'
  BY <1>1, <1>3 DEF Writing, Parcel, At
<1> QED BY <1>2, <1>4, <1>5

\* Only an actor's place changes, or that of none.
Unmoved(a) == \A b \in Actors : b # a => pc'[b] = pc[b] /\ desc'[b] = desc[b] /\ chunk'[b] = chunk[b]

LEMMA Ending ==
  ASSUME RttTypeOK, NEW a \in Actors, NEW w \in Where, Ends(a, w), a = Writer => w = "off"
  PROVE  /\ pc' \in [Actors -> Where] /\ desc' \in [Actors -> Offsets]
         /\ chunk' \in [Actors -> Seq(Nat)] /\ last' \in [Actors -> BOOLEAN]
         /\ pc'[a] = w /\ Unmoved(a)
         /\ pc'[Writer] \in {"off", "drain", "write", "rest", "publish"}
<1>1. << >> \in Seq(Nat)
  BY EmptySeq
<1> QED BY <1>1, RingSize DEF RttTypeOK, Ends, Goto, Unmoved

LEMMA Leaving ==
  ASSUME RttTypeOK, NEW a \in Actors, Leaves(a)
  PROVE  /\ pc' \in [Actors -> Where] /\ desc' \in [Actors -> Offsets]
         /\ chunk' \in [Actors -> Seq(Nat)] /\ last' \in [Actors -> BOOLEAN]
         /\ pc'[a] \in {"off", "sleep"} /\ Unmoved(a)
         /\ a = Writer => pc'[a] = "off"
         /\ pc'[Writer] \in {"off", "drain", "write", "rest", "publish"}
<1> DEFINE w == IF a = Writer \/ last[a] THEN "off" ELSE "sleep"
<1>1. w \in Where /\ w \in {"off", "sleep"} /\ (a = Writer => w = "off") /\ Ends(a, w)
  BY DEF Where, Leaves
<1> HIDE DEF w
<1> QED BY <1>1, Ending

LEMMA Going ==
  ASSUME RttTypeOK, NEW a \in Actors, NEW w \in Where, Goto(a, w),
         a = Writer => w \in {"off", "drain", "write", "rest", "publish"}
  PROVE  /\ pc' \in [Actors -> Where] /\ pc'[a] = w /\ \A b \in Actors : b # a => pc'[b] = pc[b]
         /\ pc'[Writer] \in {"off", "drain", "write", "rest", "publish"}
BY RingSize DEF RttTypeOK, Goto

\* A poll begins: another that is under way is a lapse, and so is another drain.
LEMMA Beginning ==
  ASSUME RttTypeOK, NEW a \in Loops, Begins(a), UNCHANGED <<desc, chunk>>
  PROVE  /\ pc' \in [Actors -> Where] /\ last' \in [Actors -> BOOLEAN]
         /\ pc'[a] \in {"off", "sleep", "search", "drain"}
         /\ (pc'[a] = "search" => ~found) /\ (pc'[a] = "drain" => found)
         /\ Unmoved(a) /\ pc'[Writer] = pc[Writer] /\ lapse \subseteq lapse'
         /\ "overlap" \in lapse' \/ pc'[a] \in {"off", "sleep"} \/ \A b \in Loops \ {a} : AtRest(b)
         /\ "drains" \in lapse' \/ pc'[a] # "drain" \/ \A b \in Actors \ {a} : ~Draining(b)
<1> DEFINE stop == status' = "stopped"
           idle == over \/ (found /\ ~counted)
           to == IF ~idle THEN IF found THEN "drain" ELSE "search" ELSE IF over \/ stop THEN "off" ELSE "sleep"
<1>1. /\ last' = [last EXCEPT ![a] = stop /\ ~idle]
      /\ pc' = [pc EXCEPT ![a] = to]
      /\ lapse' = lapse \cup Befalls("overlap", ~idle /\ \E b \in Loops \ {a} : ~AtRest(b))
                        \cup Befalls("drains", ~idle /\ found /\ \E b \in Actors \ {a} : Draining(b))
  BY DEF Begins, Goto
<1>2. /\ "overlap" \in lapse' \/ idle \/ \A b \in Loops \ {a} : AtRest(b)
      /\ "drains" \in lapse' \/ idle \/ ~found \/ \A b \in Actors \ {a} : ~Draining(b)
  BY <1>1 DEF Befalls
<1>3. a \in Actors /\ a # Writer
  BY RingSize
<1>4. /\ to \in {"off", "sleep", "search", "drain"} /\ to \in Where
      /\ idle => to \in {"off", "sleep"}
      /\ (to = "search" => ~found) /\ (to = "drain" => found)
  BY DEF Where
<1>5. last' \in [Actors -> BOOLEAN]
  BY <1>1, <1>3 DEF RttTypeOK
<1> HIDE DEF to, idle
<1>6. pc' \in [Actors -> Where] /\ pc'[a] = to
  BY <1>1, <1>3, <1>4 DEF RttTypeOK
<1>7. Unmoved(a) /\ pc'[Writer] = pc[Writer] /\ lapse \subseteq lapse'
  BY <1>1, <1>3, RingSize DEF RttTypeOK, Unmoved
<1> QED BY <1>2, <1>4, <1>5, <1>6, <1>7

-----------------------------------------------------------------------------
(* The firmware *)

LEMMA UnreadFacts ==
  ASSUME RttTypeOK
  PROVE  /\ up.rd \in Ring /\ up.wr \in Ring /\ down.rd \in Ring /\ down.wr \in Ring
         /\ Unread \in 0 .. Size - 1 /\ Unheard \in 0 .. Size - 1
         /\ Unread \in Nat /\ Unheard \in Nat
         /\ At(up.rd, Unread) = up.wr /\ At(down.rd, Unheard) = down.wr
         /\ Size \in Nat /\ Size > 0
<1>1. up.rd \in Ring /\ up.wr \in Ring /\ down.rd \in Ring /\ down.wr \in Ring
  BY DEF RttTypeOK, Offsets
<1> QED BY <1>1, Distances, RingSize DEF Unread, Unheard

LEMMA SetsUpStep ==
  ASSUME RttIInv, SetsUp
  PROVE  RttIInv'
<1>1. /\ ready' = TRUE /\ up' = Nothing /\ down' = Nothing /\ ~ready /\ ~found
      /\ UNCHANGED <<upMem, printed, downMem, heard, found, pc, desc, chunk, last, shown,
                     typed, queued, wrBuffer, busy, sent, counted, astray, lapse>>
      /\ RttTypeOK /\ FoundInv /\ UpInv /\ DownInv
  BY DEF SetsUp, foundVars, pollVars, typeVars, RttIInv, FoundInv
<1>2. RttTypeOK'
  BY <1>1, RingSize DEF RttTypeOK
<1>3. FoundInv'
  BY <1>1 DEF FoundInv, AtRest
<1>4. /\ printed = 0 /\ shown = << >> /\ heard = << >> /\ sent = 0
      /\ up.rd = up.wr /\ down.rd = down.wr
      /\ \A a \in Actors : AtRest(a) \/ pc[a] = "search"
  BY <1>1 DEF FoundInv
<1>5. Unread = 0 /\ Unheard = 0 /\ Unread' = 0 /\ Unheard' = 0
  <2>1. 0 \in Ring /\ \A i \in Ring : Distance(i, i) = 0
    BY RingSize, Distances DEF Ring
  <2>2. up.rd \in Ring /\ down.rd \in Ring
    BY <1>1, UnreadFacts
  <2> QED BY <1>1, <1>4, <2>1, <2>2 DEF Unread, Unheard, Nothing
<1>6. \A a \in Actors : pc[a] \notin {"read", "ack"} /\ ~Writing(a) /\ ~Draining(a)
  BY <1>4 DEF AtRest, Writing, Draining
<1>7. UpInv'
  <2> SUFFICES ASSUME {"overlap", "mute", "astray"} \cap lapse' = {}
               PROVE  UpInv!2'
    BY DEF UpInv
  <2>1. UpInv!2
    BY <1>1 DEF UpInv
  <2>2. Taken = 0 /\ Taken' = 0
    BY <1>1, <1>4, <1>5 DEF Taken
  <2>3. Alone'
    BY <1>1, <2>1 DEF Alone, AtRest
  <2> QED BY <1>1, <1>5, <1>6, <2>1, <2>2, <2>3, RingSize
<1>8. DownInv'
  <2>1. CASE lapse = {}
    <3>1. OneDrains /\ Line /\ DownRing
      BY <1>1, <2>1 DEF DownInv
    <3>2. OneDrains' /\ Line'
      BY <1>1, <3>1 DEF OneDrains, Draining, Line
    <3>3. DownRing'
      BY <1>1, <1>4, <1>5, <3>1 DEF DownRing
    <3> QED BY <1>1, <1>6, <3>2, <3>3 DEF DownInv, Writing
  <2>2. CASE lapse # {}
    BY <1>1, <2>2 DEF DownInv
  <2> QED BY <2>1, <2>2
<1> QED BY <1>2, <1>3, <1>7, <1>8 DEF RttIInv

\* A byte goes where the ring has room, behind those that are there.
LEMMA PrintsStep ==
  ASSUME RttIInv, Prints
  PROVE  RttIInv'
<1>1. /\ ready /\ (up.wr + 1) % Size # up.rd
      /\ printed' = printed + 1
      /\ upMem' = [upMem EXCEPT ![up.wr] = printed + 1]
      /\ up' = [up EXCEPT !.wr = (up.wr + 1) % Size]
      /\ UNCHANGED <<ready, down, downMem, heard, found, pc, desc, chunk, last, shown,
                     typed, queued, wrBuffer, busy, sent, counted, astray, lapse>>
      /\ RttTypeOK /\ FoundInv /\ UpInv /\ DownInv
  BY DEF Prints, downVars, foundVars, pollVars, typeVars, RttIInv
<1>2. /\ up.rd \in Ring /\ up.wr \in Ring /\ Unread \in 0 .. Size - 1
      /\ At(up.rd, Unread) = up.wr /\ Size \in Nat /\ Size > 0
  BY <1>1, UnreadFacts
<1>3. (up.wr + 1) % Size = At(up.wr, 1) /\ At(up.wr, 1) \in Ring
  BY <1>2, Wraps
<1>4. up'.rd = up.rd /\ up'.wr = At(up.wr, 1) /\ up' \in Offsets
  BY <1>1, <1>2, <1>3 DEF RttTypeOK, Offsets
<1>5. Unread < Size - 1
  BY <1>1, <1>2, <1>3 DEF At, Ring
<1>6. Unread' = Unread + 1
  <2>1. Distance(up.rd, up.wr) + 1 <= Size - 1
    BY <1>2, <1>5 DEF Unread
  <2>2. Distance(up.rd, At(up.wr, 1)) = Unread + 1
    BY <1>2, <2>1, LongerWay DEF Unread
  <2>3. Unread' = Distance(up.rd, At(up.wr, 1))
    BY <1>4 DEF Unread, Distance
  <2> QED BY <2>2, <2>3
<1>7. RttTypeOK'
  <2>1. printed' \in Nat /\ upMem' \in [Ring -> Nat]
    BY <1>1, <1>2, SMTT(30) DEF RttTypeOK
  <2> QED BY <1>1, <1>4, <2>1 DEF RttTypeOK
<1>8. FoundInv'
  BY <1>1 DEF FoundInv, AtRest
<1>9. UpInv'
  <2> SUFFICES ASSUME {"overlap", "mute", "astray"} \cap lapse' = {}
               PROVE  UpInv!2'
    BY DEF UpInv
  <2>1. UpInv!2
    BY <1>1 DEF UpInv
  <2>2. Taken' = Taken
    BY <1>1, <1>2, <1>6 DEF Taken, RttTypeOK
  <2>3. ASSUME NEW i \in 0 .. Unread' - 1
        PROVE  upMem'[At(up'.rd, i)] = Taken + i + 1
    <3>1. At(up.rd, i) \in Ring /\ (At(up.rd, i) = up.wr => i = Unread)
      BY <1>2, <1>5, <1>6, Places
    <3>2. CASE i = Unread
      BY <1>1, <1>2, <1>4, <3>2 DEF RttTypeOK, Taken
    <3>3. CASE i # Unread
      <4>1. i \in 0 .. Unread - 1 /\ At(up.rd, i) # up.wr
        BY <1>2, <1>6, <3>1, <3>3
      <4>2. upMem'[At(up.rd, i)] = upMem[At(up.rd, i)]
        BY <1>1, <3>1, <4>1 DEF RttTypeOK
      <4> QED BY <1>4, <2>1, <4>1, <4>2
    <3> QED BY <3>2, <3>3
  <2>4. Alone'
    BY <1>1, <2>1 DEF Alone, AtRest
  <2>5. ASSUME NEW a \in Loops
        PROVE  /\ pc'[a] = "read" => Reading(a)'
               /\ pc'[a] = "ack" => Acking(a)'
    <3>1. CASE pc[a] = "read"
      <4>1. Distance(up.rd, desc[a].wr) \in 0 .. Size - 1
        BY <1>1, <1>2, Distances, RingSize DEF RttTypeOK, Offsets
      <4> QED BY <1>1, <1>2, <1>4, <1>6, <2>1, <2>2, <3>1, <4>1 DEF Reading, Distance
    <3>2. CASE pc[a] = "ack"
      <4>1. PICK n \in 1 .. Unread : /\ Len(shown) = Taken + n
                                     /\ desc[a].rd = At(up.rd, n)
                                     /\ n + Distance(desc[a].rd, desc[a].wr) <= Unread
        BY <2>1, <3>2 DEF Acking
      <4>2. Distance(desc[a].rd, desc[a].wr) \in 0 .. Size - 1
        BY <1>1, Distances, RingSize DEF RttTypeOK, Offsets
      <4>3. n \in 1 .. Unread' /\ n + Distance(desc[a].rd, desc[a].wr) <= Unread'
        BY <1>2, <1>6, <4>1, <4>2
      <4> QED BY <1>1, <1>4, <2>2, <3>2, <4>1, <4>3 DEF Acking, Distance, At
    <3> QED BY <1>1, <3>1, <3>2
  <2> QED BY <1>1, <2>1, <2>2, <2>3, <2>4, <2>5
<1>10. DownInv'
  BY <1>1, RingSize, DownKept DEF RttTypeOK, DownInv
<1> QED BY <1>7, <1>8, <1>9, <1>10 DEF RttIInv

\* It reads the oldest byte that is there.
LEMMA HearsStep ==
  ASSUME RttIInv, Hears
  PROVE  RttIInv'
<1>1. /\ down.rd # down.wr
      /\ heard' = Append(heard, downMem[down.rd])
      /\ down' = [down EXCEPT !.rd = (down.rd + 1) % Size]
      /\ UNCHANGED <<ready, up, upMem, printed, downMem, found, pc, desc, chunk, last, shown,
                     typed, queued, wrBuffer, busy, sent, counted, astray, lapse>>
      /\ RttTypeOK /\ FoundInv /\ UpInv /\ DownInv
  BY DEF Hears, upVars, foundVars, pollVars, typeVars, RttIInv
<1>2. /\ down.rd \in Ring /\ down.wr \in Ring /\ Unheard \in 0 .. Size - 1
      /\ At(down.rd, Unheard) = down.wr /\ Size \in Nat /\ Size > 0
  BY <1>1, UnreadFacts
<1>3. (down.rd + 1) % Size = At(down.rd, 1) /\ At(down.rd, 1) \in Ring
  BY <1>2, Wraps
<1>4. down'.wr = down.wr /\ down'.rd = At(down.rd, 1) /\ down' \in Offsets
  BY <1>1, <1>2, <1>3 DEF RttTypeOK, Offsets
<1>5. Unheard \in 1 .. Size - 1 /\ Unheard' = Unheard - 1
  <2>1. Unheard # 0
    BY <1>1, <1>2, Distances DEF Unheard
  <2> QED BY <1>2, <1>4, <2>1, RestOfWay DEF Unheard
<1>6. downMem[down.rd] \in Nat /\ heard' \in Seq(Nat) /\ Len(heard') = Len(heard) + 1
      /\ Len(heard) \in Nat /\ (\A i \in 1 .. Len(heard) : heard'[i] = heard[i])
      /\ heard'[Len(heard) + 1] = downMem[down.rd]
  BY <1>1, <1>2, AppendProperties, LenProperties DEF RttTypeOK
<1>7. RttTypeOK'
  BY <1>1, <1>4, <1>6 DEF RttTypeOK
<1>8. FoundInv'
  BY <1>1 DEF FoundInv, AtRest
<1>9. UpInv'
  BY <1>1, RingSize, UpKept
<1>10. DownInv'
  <2>1. CASE lapse = {}
    <3>1. OneDrains /\ Line /\ DownRing /\ \A a \in Actors : Writing(a) => Parcel(a)
      BY <1>1, <2>1 DEF DownInv
    <3>2. OneDrains' /\ Line'
      BY <1>1, <3>1 DEF OneDrains, Draining, Line
    <3>3. downMem[down.rd] = Len(heard) + 1
      BY <1>2, <1>5, <3>1, Places, SMTT(30) DEF DownRing
    <3>4. heard' = Counted(Len(heard'))
      <4>1. \A i \in 1 .. Len(heard) : heard[i] = i
        BY <1>6, <3>1, CountedFacts DEF DownRing
      <4>2. \A i \in 1 .. Len(heard') : heard'[i] = i
        BY <1>6, <3>3, <4>1
      <4> QED BY <1>6, <4>2, IsCounted
    <3>5. ASSUME NEW i \in 0 .. Unheard' - 1
          PROVE  downMem'[At(down'.rd, i)] = Len(heard') + i + 1
      <4>1. At(At(down.rd, 1), i) = At(down.rd, 1 + i) /\ 1 + i \in 0 .. Unheard - 1
        BY <1>2, <1>5, Places, SMTT(30)
      <4> QED BY <1>1, <1>4, <1>6, <3>1, <4>1 DEF DownRing
    <3>6. DownRing'
      BY <1>1, <1>2, <1>5, <1>6, <3>1, <3>4, <3>5 DEF DownRing
    <3>7. \A a \in Actors : Writing(a)' => Parcel(a)'
      <4> SUFFICES ASSUME NEW a \in Actors, Writing(a)
                   PROVE  Parcel(a)'
        BY <1>1 DEF Writing
      <4>1. Parcel(a) /\ Len(wrBuffer) \in Nat
        BY <1>1, <3>1, LenProperties DEF RttTypeOK
      <4>2. Len(wrBuffer) + Unheard' <= Size - 1
        BY <1>2, <1>5, <4>1 DEF Parcel
      <4> QED BY <1>1, <1>4, <4>1, <4>2 DEF Parcel, At
    <3> QED BY <1>1, <3>2, <3>6, <3>7 DEF DownInv
  <2>2. CASE lapse # {}
    BY <1>1, <2>2 DEF DownInv
  <2> QED BY <2>1, <2>2
<1> QED BY <1>7, <1>8, <1>9, <1>10 DEF RttIInv

-----------------------------------------------------------------------------
(* The loops and the rings *)

\* An actor that reads or writes has found the control block, so that it is there.
LEMMA Found ==
  ASSUME FoundInv, NEW a \in Actors, ~AtRest(a), pc[a] # "search"
  PROVE  found /\ ready
BY DEF FoundInv

LEMMA PollsStep ==
  ASSUME RttIInv, NEW a \in Loops, Polls(a)
  PROVE  RttIInv'
<1>1. /\ pc[a] = "sleep" /\ Begins(a)
      /\ UNCHANGED <<ready, up, upMem, printed, down, downMem, heard, found, over, desc, chunk, shown,
                     typed, queued, wrBuffer, busy, sent, counted, astray>>
      /\ RttTypeOK /\ FoundInv /\ UpInv /\ DownInv
      /\ a \in Actors /\ a # Writer
  BY RingSize DEF Polls, upVars, foundVars, downVars, typeVars, RttIInv
<1>2. /\ pc' \in [Actors -> Where] /\ last' \in [Actors -> BOOLEAN]
      /\ pc'[a] \in {"off", "sleep", "search", "drain"}
      /\ (pc'[a] = "search" => ~found) /\ (pc'[a] = "drain" => found)
      /\ Unmoved(a) /\ pc'[Writer] = pc[Writer] /\ lapse \subseteq lapse'
      /\ "overlap" \in lapse' \/ pc'[a] \in {"off", "sleep"} \/ \A b \in Loops \ {a} : AtRest(b)
      /\ "drains" \in lapse' \/ pc'[a] # "drain" \/ \A b \in Actors \ {a} : ~Draining(b)
  BY <1>1, Beginning
<1>3. RttTypeOK'
  BY <1>1, <1>2 DEF RttTypeOK
<1>4. FoundInv'
  BY <1>1, <1>2 DEF FoundInv, AtRest, Unmoved
<1>5. UpInv'
  <2>1. pc'[a] \notin {"read", "ack"} /\ pc[a] # "ack" /\ (pc'[a] \in {"off", "sleep"} => AtRest(a)')
    BY <1>1, <1>2 DEF AtRest
  <2> QED BY <1>1, <1>2, <2>1, UpKept DEF Unmoved
<1>6. DownInv'
  <2>1. ~Writing(a)' /\ (Draining(a)' => pc'[a] = "drain")
    BY <1>2 DEF Writing, Draining
  <2>2. pc'[Writer] # "off" => busy'
    BY <1>1, <1>2 DEF DownInv
  <2> QED BY <1>1, <1>2, <2>1, <2>2, DownKept DEF Unmoved
<1> QED BY <1>3, <1>4, <1>5, <1>6 DEF RttIInv

LEMMA SearchesStep ==
  ASSUME RttIInv, NEW a \in Loops, Searches(a)
  PROVE  RttIInv'
<1>1. /\ pc[a] = "search" /\ found' = ready
      /\ UNCHANGED <<ready, up, upMem, printed, down, downMem, heard, shown,
                     typed, queued, wrBuffer, busy, sent, counted, astray, lapse>>
      /\ RttTypeOK /\ FoundInv /\ UpInv /\ DownInv
      /\ a \in Actors /\ a # Writer
  BY RingSize DEF Searches, upVars, downVars, typeVars, RttIInv
<1>2. /\ pc' \in [Actors -> Where] /\ desc' \in [Actors -> Offsets]
      /\ chunk' \in [Actors -> Seq(Nat)] /\ last' \in [Actors -> BOOLEAN]
      /\ pc'[a] \in {"off", "sleep"} \/ (ready /\ pc'[a] = "count")
      /\ Unmoved(a)
      /\ pc'[Writer] \in {"off", "drain", "write", "rest", "publish"}
      /\ pc'[Writer] = pc[Writer]
  <2>1. CASE ready
    <3>1. Goto(a, "count") /\ UNCHANGED <<desc, chunk, last>> /\ "count" \in Where
      BY <2>1 DEF Searches, Where
    <3>2. /\ pc' \in [Actors -> Where] /\ pc'[a] = "count" /\ \A b \in Actors : b # a => pc'[b] = pc[b]
          /\ pc'[Writer] \in {"off", "drain", "write", "rest", "publish"}
      BY <1>1, <3>1, Going
    <3> QED BY <1>1, <2>1, <3>1, <3>2, RingSize DEF RttTypeOK, Unmoved
  <2>2. CASE ~ready
    <3>1. Leaves(a)
      BY <2>2 DEF Searches
    <3> QED BY <1>1, <3>1, Leaving, RingSize DEF Unmoved
  <2> QED BY <2>1, <2>2
<1>3. RttTypeOK'
  BY <1>1, <1>2 DEF RttTypeOK
<1>4. FoundInv'
  BY <1>1, <1>2 DEF FoundInv, AtRest, Unmoved
<1>5. UpInv'
  BY <1>1, <1>2, UpKept DEF Unmoved, AtRest
<1>6. DownInv'
  <2>1. ~Writing(a)' /\ ~Draining(a)' /\ (pc'[Writer] # "off" => busy')
    BY <1>1, <1>2 DEF Writing, Draining, DownInv
  <2> QED BY <1>1, <1>2, <2>1, DownKept DEF Unmoved
<1> QED BY <1>3, <1>4, <1>5, <1>6 DEF RttIInv

LEMMA CountsStep ==
  ASSUME RttIInv, NEW a \in Loops, Counts(a)
  PROVE  RttIInv'
<1>1. /\ pc[a] = "count" /\ counted' = TRUE /\ Leaves(a)
      /\ UNCHANGED <<ready, up, upMem, printed, down, downMem, heard, found, shown,
                     typed, queued, wrBuffer, busy, sent, astray, lapse>>
      /\ RttTypeOK /\ FoundInv /\ UpInv /\ DownInv
      /\ a \in Actors /\ a # Writer
  BY RingSize DEF Counts, upVars, downVars, typeVars, RttIInv
<1>2. /\ pc' \in [Actors -> Where] /\ desc' \in [Actors -> Offsets]
      /\ chunk' \in [Actors -> Seq(Nat)] /\ last' \in [Actors -> BOOLEAN]
      /\ pc'[a] \in {"off", "sleep"} /\ Unmoved(a)
      /\ pc'[Writer] \in {"off", "drain", "write", "rest", "publish"}
      /\ pc'[Writer] = pc[Writer]
  BY <1>1, Leaving, RingSize DEF Unmoved
<1>3. RttTypeOK'
  BY <1>1, <1>2 DEF RttTypeOK
<1>4. FoundInv'
  <2>1. found /\ ready
    BY <1>1, Found DEF AtRest
  <2> QED BY <1>1, <2>1 DEF FoundInv
<1>5. UpInv'
  BY <1>1, <1>2, UpKept DEF Unmoved, AtRest
<1>6. DownInv'
  <2>1. ~Writing(a)' /\ ~Draining(a)' /\ (pc'[Writer] # "off" => busy')
    BY <1>1, <1>2 DEF Writing, Draining, DownInv
  <2> QED BY <1>1, <1>2, <2>1, DownKept DEF Unmoved
<1> QED BY <1>3, <1>4, <1>5, <1>6 DEF RttIInv

\* What every step of a loop that reads leaves alone of the other ring.
LEMMA ReaderKeeps ==
  ASSUME RttIInv, NEW a \in Loops, pc[a] \in {"desc", "read", "ack"},
         UNCHANGED <<ready, upMem, printed, down, downMem, heard, found,
                     typed, queued, wrBuffer, busy, sent, counted, astray, lapse>>,
         up' \in Offsets, shown' \in Seq(Nat),
         pc' \in [Actors -> Where], desc' \in [Actors -> Offsets],
         chunk' \in [Actors -> Seq(Nat)], last' \in [Actors -> BOOLEAN],
         Unmoved(a), pc'[a] \in {"off", "sleep", "read", "ack"}
  PROVE  RttTypeOK' /\ FoundInv' /\ DownInv'
<1>1. RttTypeOK /\ FoundInv /\ DownInv /\ a \in Actors /\ a # Writer /\ Writer \in Actors
  BY RingSize DEF RttIInv
<1>2. pc'[Writer] = pc[Writer]
  BY <1>1 DEF Unmoved
<1>3. RttTypeOK'
  BY <1>1, <1>2 DEF RttTypeOK
<1>4. found /\ ready
  BY <1>1, Found DEF AtRest
<1>5. FoundInv'
  BY <1>1, <1>4 DEF FoundInv
<1>6. ~Writing(a)' /\ ~Draining(a)' /\ (pc'[Writer] # "off" => busy')
  BY <1>1, <1>2 DEF Writing, Draining, DownInv
<1>7. DownInv'
  BY <1>1, <1>6, DownKept DEF Unmoved
<1> QED BY <1>3, <1>5, <1>7

\* While no two loops poll at once, the others sleep.
LEMMA OthersRest ==
  ASSUME Alone, NEW a \in Loops, ~AtRest(a), Unmoved(a)
  PROVE  Alone' /\ \A b \in Loops : b # a => {pc[b], pc'[b]} \cap {"read", "ack"} = {}
<1>1. \A b \in Loops : b # a => AtRest(b) /\ pc'[b] = pc[b]
  BY RingSize DEF Alone, Unmoved
<1>2. \A b \in Loops : b # a => AtRest(b)'
  BY <1>1 DEF AtRest
<1>3. Alone'
  BY <1>2 DEF Alone
<1> QED BY <1>1, <1>3 DEF AtRest

LEMMA ReadsDescStep ==
  ASSUME RttIInv, NEW a \in Loops, ReadsDesc(a)
  PROVE  RttIInv'
<1>1. /\ pc[a] = "desc"
      /\ UNCHANGED <<ready, up, upMem, printed, down, downMem, heard, found, shown,
                     typed, queued, wrBuffer, busy, sent, counted, astray, lapse>>
      /\ RttTypeOK /\ FoundInv /\ UpInv /\ DownInv
      /\ a \in Actors /\ a # Writer /\ up \in Offsets /\ shown \in Seq(Nat)
  BY RingSize DEF ReadsDesc, upVars, foundVars, downVars, typeVars, RttIInv, RttTypeOK, lifeVars
<1>2. CASE up.rd = up.wr /\ Leaves(a)
  <2>1. /\ pc' \in [Actors -> Where] /\ desc' \in [Actors -> Offsets]
        /\ chunk' \in [Actors -> Seq(Nat)] /\ last' \in [Actors -> BOOLEAN]
        /\ pc'[a] \in {"off", "sleep"} /\ Unmoved(a)
    BY <1>1, <1>2, Leaving
  <2>2. UpInv'
    BY <1>1, <2>1, UpKept DEF Unmoved, AtRest
  <2> QED BY <1>1, <2>1, <2>2, ReaderKeeps DEF RttIInv
<1>3. CASE up.rd # up.wr /\ desc' = [desc EXCEPT ![a] = up] /\ Goto(a, "read") /\ UNCHANGED <<chunk, last>>
  <2>1. /\ pc' \in [Actors -> Where] /\ desc' \in [Actors -> Offsets]
        /\ chunk' \in [Actors -> Seq(Nat)] /\ last' \in [Actors -> BOOLEAN]
        /\ pc'[a] = "read" /\ desc'[a] = up /\ Unmoved(a)
    BY <1>1, <1>3, Going DEF RttTypeOK, Where, Unmoved
  <2>2. UpInv'
    <3> SUFFICES ASSUME {"overlap", "mute", "astray"} \cap lapse' = {}
                 PROVE  UpInv!2'
      BY DEF UpInv
    <3>1. UpInv!2
      BY <1>1 DEF UpInv
    <3>2. Unread' = Unread /\ Taken' = Taken
      BY <1>1 DEF Unread, Taken, Distance
    <3>3. Alone' /\ \A b \in Loops : b # a => {pc[b], pc'[b]} \cap {"read", "ack"} = {}
      BY <1>1, <2>1, <3>1, OthersRest DEF AtRest
    <3>5. Len(shown) = Taken
      BY <1>1, <3>1, <3>3
    <3>6. Reading(a)'
      <4>1. Unread \in 0 .. Size - 1 /\ Distance(up.rd, up.wr) = Unread
        BY <1>1, UnreadFacts DEF Unread
      <4>2. desc'[a].rd = up'.rd /\ desc'[a].wr # up'.rd
        BY <1>1, <1>3, <2>1
      <4>3. Distance(up.rd, desc[a].wr)' <= Unread
        BY <1>1, <2>1, <4>1, RingSize DEF Distance
      <4> QED BY <1>1, <3>2, <3>5, <4>2, <4>3 DEF Reading
    <3>7. \A b \in Loops : (pc'[b] = "read" => Reading(b)') /\ pc'[b] # "ack"
      BY <2>1, <3>3, <3>6
    <3> QED BY <1>1, <3>1, <3>2, <3>3, <3>5, <3>7 DEF At
  <2> QED BY <1>1, <2>1, <2>2, ReaderKeeps DEF RttIInv
<1> QED BY <1>2, <1>3 DEF ReadsDesc

\* It takes no more than there is, and no further than the end of the ring.
LEMMA ChunkFits ==
  ASSUME NEW d \in Offsets
  PROVE  LET n == ChunkLength(d)
         IN  /\ n \in Nat /\ n > 0 /\ d.rd + n <= Size
             /\ d.wr # d.rd => n <= Distance(d.rd, d.wr)
BY RingSize DEF ChunkLength, Offsets, Ring, Distance

LEMMA ReadsChunkStep ==
  ASSUME RttIInv, NEW a \in Loops, ReadsChunk(a)
  PROVE  RttIInv'
<1> DEFINE d == desc[a]
           n == ChunkLength(d)
           bytes == [i \in 1 .. n |-> upMem[d.rd + i - 1]]
<1>1. /\ pc[a] = "read" /\ shown' = shown \o bytes
      /\ desc' = [desc EXCEPT ![a].rd = (d.rd + n) % Size] /\ Goto(a, "ack")
      /\ UNCHANGED <<ready, up, upMem, printed, down, downMem, heard, found, chunk, last,
                     typed, queued, wrBuffer, busy, sent, counted, astray, lapse>>
      /\ RttTypeOK /\ FoundInv /\ UpInv /\ DownInv
      /\ a \in Actors /\ a # Writer /\ up \in Offsets /\ shown \in Seq(Nat)
  BY RingSize DEF ReadsChunk, upVars, foundVars, downVars, typeVars, RttIInv, RttTypeOK
<1>2. /\ d \in Offsets /\ n \in Nat /\ n > 0 /\ d.rd + n <= Size /\ d.rd \in Ring /\ d.wr \in Ring
      /\ d.wr # d.rd => n <= Distance(d.rd, d.wr)
      /\ Size \in Nat
  BY <1>1, ChunkFits, RingSize DEF RttTypeOK, Offsets
<1>3. n \in 0 .. Size /\ (d.rd + n) % Size = At(d.rd, n) /\ At(d.rd, n) \in Ring
  <2>1. n \in 0 .. Size
    BY <1>2 DEF Ring
  <2> QED BY <1>2, <2>1, Wraps
<1> HIDE DEF n, d
<1>4. /\ bytes \in Seq(Nat) /\ Len(bytes) = n
      /\ \A i \in 1 .. n : d.rd + i - 1 \in Ring /\ bytes[i] = upMem[d.rd + i - 1]
  <2>1. \A i \in 1 .. n : d.rd + i - 1 \in Ring
    BY <1>2 DEF Ring
  <2>2. bytes \in [1 .. n -> Nat]
    BY <1>1, <2>1 DEF RttTypeOK
  <2> QED BY <1>2, <2>1, <2>2, SeqDef, LenProperties
<1> HIDE DEF bytes
<1>5. /\ desc' \in [Actors -> Offsets] /\ desc'[a].rd = At(d.rd, n) /\ desc'[a].wr = d.wr
      /\ \A b \in Actors : b # a => desc'[b] = desc[b]
  BY <1>1, <1>2, <1>3 DEF RttTypeOK, Offsets, d
<1>6. /\ pc' \in [Actors -> Where] /\ pc'[a] = "ack" /\ Unmoved(a)
  <2>1. "ack" \in Where
    BY DEF Where
  <2>2. /\ pc' \in [Actors -> Where] /\ pc'[a] = "ack"
        /\ \A b \in Actors : b # a => pc'[b] = pc[b]
    BY <1>1, <2>1, Going
  <2> QED BY <1>1, <1>5, <2>2 DEF Unmoved
<1>7. shown' \in Seq(Nat) /\ Len(shown') = Len(shown) + n /\ Len(shown) \in Nat
  BY <1>1, <1>4, ConcatProperties, LenProperties
<1>8. RttTypeOK' /\ FoundInv' /\ DownInv'
  BY <1>1, <1>5, <1>6, <1>7, ReaderKeeps DEF RttTypeOK
<1>9. UpInv'
  <2> SUFFICES ASSUME {"overlap", "mute", "astray"} \cap lapse' = {}
               PROVE  UpInv!2'
    BY DEF UpInv
  <2>1. UpInv!2
    BY <1>1 DEF UpInv
  <2>2. Unread' = Unread /\ Taken' = Taken /\ Unread \in 0 .. Size - 1
    BY <1>1, UnreadFacts DEF Unread, Taken, Distance
  <2>3. Alone' /\ \A b \in Loops : b # a => {pc[b], pc'[b]} \cap {"read", "ack"} = {}
    BY <1>1, <1>6, <2>1, OthersRest DEF AtRest
  <2>4. /\ Len(shown) = Taken /\ d.rd = up.rd /\ d.wr # up.rd /\ Distance(up.rd, d.wr) <= Unread
        /\ n \in 1 .. Unread /\ n \in 0 .. Distance(d.rd, d.wr) /\ n \in 0 .. Size - 1
    <3>1. Len(shown) = Taken /\ d.rd = up.rd /\ d.wr # up.rd /\ Distance(up.rd, d.wr) <= Unread
      BY <1>1, <2>1 DEF Reading, d
    <3>2. Distance(up.rd, d.wr) \in 0 .. Size - 1
      BY <1>2, <3>1, Distances
    <3> QED BY <1>2, <2>2, <3>1, <3>2
  <2>5. \A i \in 1 .. n : bytes[i] = Len(shown) + i
    <3> SUFFICES ASSUME NEW i \in 1 .. n
                 PROVE  upMem[d.rd + i - 1] = Len(shown) + i
      BY <1>4
    <3>1. i - 1 \in 0 .. Unread - 1 /\ At(up.rd, i - 1) = d.rd + i - 1
      BY <1>2, <1>4, <2>2, <2>4 DEF At, Ring
    <3> QED BY <1>7, <2>1, <2>4, <3>1
  <2>6. shown' = Counted(Len(shown'))
    BY <1>1, <1>4, <2>1, <2>5, CountedOn
  <2>7. Distance(At(d.rd, n), d.wr) = Distance(d.rd, d.wr) - n /\ Distance(d.rd, d.wr) \in Nat
    BY <1>2, <2>4, RestOfWay, Distances
  <2>8. Acking(a)'
    <3>1. /\ Len(shown') = Taken' + n /\ desc'[a].rd = At(up.rd, n)
          /\ n \in 1 .. Unread' /\ n + Distance(desc'[a].rd, desc'[a].wr) <= Unread'
      BY <1>2, <1>5, <1>7, <2>2, <2>4, <2>7
    <3> QED BY <1>1, <3>1 DEF Acking, At, Distance
  <2>9. \A b \in Loops : pc'[b] # "read" /\ (pc'[b] = "ack" => Acking(b)')
    BY <1>6, <2>3, <2>8
  <2> QED BY <1>1, <1>6, <2>1, <2>2, <2>3, <2>6, <2>9 DEF At
<1> QED BY <1>8, <1>9 DEF RttIInv

LEMMA AcksStep ==
  ASSUME RttIInv, NEW a \in Loops, Acks(a)
  PROVE  RttIInv'
<1> DEFINE d == desc[a]
<1>1. /\ pc[a] = "ack" /\ up' = [up EXCEPT !.rd = d.rd]
      /\ UNCHANGED <<ready, upMem, printed, down, downMem, heard, found, shown,
                     typed, queued, wrBuffer, busy, sent, counted, astray, lapse>>
      /\ RttTypeOK /\ FoundInv /\ UpInv /\ DownInv
      /\ a \in Actors /\ a # Writer /\ up \in Offsets /\ shown \in Seq(Nat)
  BY RingSize DEF Acks, downVars, typeVars, foundVars, RttIInv, RttTypeOK
<1>2. /\ d.rd \in Ring /\ d.wr \in Ring /\ up.rd \in Ring /\ up.wr \in Ring
      /\ up' \in Offsets /\ up'.rd = d.rd /\ up'.wr = up.wr
      /\ Size \in Nat
  BY <1>1, RingSize DEF RttTypeOK, Offsets
<1>3. /\ pc' \in [Actors -> Where] /\ desc' \in [Actors -> Offsets]
      /\ chunk' \in [Actors -> Seq(Nat)] /\ last' \in [Actors -> BOOLEAN]
      /\ Unmoved(a)
      /\ \/ pc'[a] \in {"off", "sleep"}
         \/ pc'[a] = "read" /\ desc'[a] = d /\ d.rd # d.wr
  <2>1. CASE Leaves(a)
    BY <1>1, <2>1, Leaving
  <2>2. CASE d.rd # d.wr /\ Goto(a, "read") /\ UNCHANGED <<desc, chunk, last>>
    BY <1>1, <2>2, Going DEF RttTypeOK, Where, Unmoved
  <2> QED BY <2>1, <2>2 DEF Acks
<1>4. RttTypeOK' /\ FoundInv' /\ DownInv'
  BY <1>1, <1>2, <1>3, ReaderKeeps
<1>5. UpInv'
  <2> SUFFICES ASSUME {"overlap", "mute", "astray"} \cap lapse' = {}
               PROVE  UpInv!2'
    BY DEF UpInv
  <2>1. UpInv!2
    BY <1>1 DEF UpInv
  <2>2. PICK n \in 1 .. Unread : /\ Len(shown) = Taken + n
                                 /\ d.rd = At(up.rd, n)
                                 /\ n + Distance(d.rd, d.wr) <= Unread
    BY <1>1, <2>1 DEF Acking
  <2>3. Alone' /\ \A b \in Loops : b # a => {pc[b], pc'[b]} \cap {"read", "ack"} = {}
    BY <1>1, <1>3, <2>1, OthersRest DEF AtRest
  <2>4. Unread \in 0 .. Size - 1 /\ n \in Nat /\ Taken \in Nat /\ printed \in Nat
    BY <1>1, <2>1, UnreadFacts DEF RttTypeOK
  <2>5. Unread' = Unread - n
    <3>1. Distance(At(up.rd, n), up.wr) = Unread - n
      BY <1>2, <2>2, <2>4, RestOfWay DEF Unread
    <3>2. Unread' = Distance(d.rd, up.wr)
      BY <1>2 DEF Unread, Distance
    <3> QED BY <2>2, <3>1, <3>2
  <2>6. Taken' = Taken + n /\ Len(shown') = Taken'
    BY <1>1, <2>2, <2>4, <2>5 DEF Taken
  <2>7. ASSUME NEW i \in 0 .. Unread' - 1
        PROVE  upMem'[At(up'.rd, i)] = Taken' + i + 1
    <3>1. n \in 0 .. Size - 1 /\ i \in 0 .. Size - 1 - n /\ n + i \in 0 .. Unread - 1
      BY <1>2, <2>2, <2>4, <2>5
    <3>2. At(At(up.rd, n), i) = At(up.rd, n + i)
      BY <1>2, <3>1, Places
    <3>3. upMem[At(up.rd, n + i)] = Taken + (n + i) + 1
      BY <2>1, <3>1
    <3> QED BY <1>1, <1>2, <2>2, <2>4, <2>6, <3>1, <3>2, <3>3
  <2>8. pc'[a] = "read" => Reading(a)'
    <3>1. pc'[a] = "read" => desc'[a].rd = up'.rd /\ desc'[a].wr # up'.rd /\ desc'[a] = d
      BY <1>2, <1>3
    <3>2. Distance(d.rd, d.wr) \in Nat
      BY <1>2, <2>4, Distances
    <3>3. Distance(d.rd, d.wr) <= Unread'
      BY <2>2, <2>4, <2>5, <3>2
    <3>4. pc'[a] = "read" => Distance(up'.rd, desc'[a].wr) <= Unread'
      BY <1>2, <3>1, <3>3
    <3> QED BY <2>6, <3>1, <3>4 DEF Reading, Distance
  <2>9. \A b \in Loops : pc'[b] # "ack" /\ (pc'[b] = "read" => Reading(b)')
    BY <1>3, <2>3, <2>8
  <2> QED BY <1>1, <2>1, <2>3, <2>4, <2>6, <2>7, <2>9 DEF At
<1> QED BY <1>4, <1>5 DEF RttIInv

-----------------------------------------------------------------------------
(* What the user types *)

LEMMA Begun ==
  ASSUME NEW S, NEW s \in Seq(S), NEW n \in 0 .. Len(s)
  PROVE  /\ SubSeq(s, 1, n) \in Seq(S) /\ Len(SubSeq(s, 1, n)) = n
         /\ n = Len(s) => SubSeq(s, 1, n) = s
<1>1. Len(s) \in Nat /\ n \in Nat
  BY LenProperties
<1>2. /\ SubSeq(s, 1, n) \in Seq(S) /\ Len(SubSeq(s, 1, n)) = n
      /\ \A i \in 1 .. n : SubSeq(s, 1, n)[i] = s[i]
  <2>1. CASE n = 0
    BY <1>1, <2>1, SubSeqProperties
  <2>2. CASE n # 0
    <3>1. 1 \in 1 .. Len(s) + 1 /\ n \in 1 - 1 .. Len(s)
      BY <1>1
    <3> QED BY <1>1, <3>1, SubSeqProperties
  <2> QED BY <2>1, <2>2
<1>3. n = Len(s) => SubSeq(s, 1, n) = s
  BY <1>2, SeqEqual
<1> QED BY <1>2, <1>3

LEMMA SpaceFits ==
  ASSUME NEW d \in Offsets
  PROVE  /\ Space(d) \in Nat
         /\ \A n \in 1 .. Space(d) : d.rd # (d.wr + n) % Size => n + Distance(d.rd, d.wr) <= Size - 1
<1>1. d.rd \in Ring /\ d.wr \in Ring /\ Size \in Nat /\ Size > 0
  BY RingSize DEF Offsets
<1>2. Space(d) \in 0 .. Size
  BY <1>1 DEF Space, Ring
<1>3. ASSUME NEW n \in 1 .. Space(d), d.rd # (d.wr + n) % Size
      PROVE  n + Distance(d.rd, d.wr) <= Size - 1
  <2>1. (d.wr + n) % Size = At(d.wr, n)
    BY <1>1, <1>2, Wraps
  <2> QED BY <1>1, <1>3, <2>1 DEF Space, Ring, Distance, At
<1> QED BY <1>2, <1>3

\* A round ends, or has a parcel that fits, unless it falls short.
LEMMA Rounds ==
  ASSUME RttTypeOK, NEW a \in Actors, NEW d \in Offsets, NEW buffer \in Seq(Nat), Round(a, d, buffer)
  PROVE  /\ pc' \in [Actors -> Where] /\ desc' \in [Actors -> Offsets]
         /\ chunk' \in [Actors -> Seq(Nat)] /\ last' \in [Actors -> BOOLEAN] /\ busy' \in BOOLEAN
         /\ pc'[Writer] \in {"off", "drain", "write", "rest", "publish"}
         /\ Unmoved(a) /\ lapse \subseteq lapse'
         /\ a # Writer => busy' = busy
         /\ \/ a = Writer /\ pc'[a] = "off"
            \/ a # Writer /\ pc'[a] = "desc"
            \/ /\ pc'[a] = "write" /\ desc'[a] = d /\ busy' = busy /\ buffer # << >>
               /\ \/ "short" \in lapse'
                  \/ chunk'[a] = buffer /\ Len(buffer) + Distance(d.rd, d.wr) <= Size - 1
<1> DEFINE n == IF Space(d) < Len(buffer) THEN Space(d) ELSE Len(buffer)
<1>1. /\ lapse' = lapse \cup Befalls("short", n < Len(buffer) \/ (n > 0 /\ d.rd = (d.wr + n) % Size))
      /\ busy' = (busy /\ ~(n = 0 /\ a = Writer))
      /\ IF n = 0 /\ a = Writer
         THEN Leaves(a)
         ELSE /\ Goto(a, IF n > 0 THEN "write" ELSE "desc")
              /\ desc' = [desc EXCEPT ![a] = IF n > 0 THEN d ELSE Nothing]
              /\ chunk' = [chunk EXCEPT ![a] = SubSeq(buffer, 1, n)]
              /\ UNCHANGED last
  BY DEF Round
<1>2. n \in Nat /\ n <= Len(buffer) /\ Len(buffer) \in Nat /\ n \in 0 .. Len(buffer) /\ n <= Space(d)
      /\ Space(d) \in Nat
  BY SpaceFits, LenProperties
<1> HIDE DEF n
<1>3. /\ SubSeq(buffer, 1, n) \in Seq(Nat) /\ (n = Len(buffer) => SubSeq(buffer, 1, n) = buffer)
  BY <1>2, Begun
<1>4. busy' \in BOOLEAN /\ (~(n = 0 /\ a = Writer) => busy' = busy) /\ lapse \subseteq lapse'
  BY <1>1 DEF RttTypeOK
<1>5. CASE n = 0 /\ a = Writer
  <2>1. Leaves(a)
    BY <1>1, <1>5
  <2> QED BY <1>4, <1>5, <2>1, Leaving
<1>6. CASE n = 0 /\ a # Writer
  <2>1. Goto(a, "desc") /\ "desc" \in Where /\ UNCHANGED last
        /\ desc' = [desc EXCEPT ![a] = Nothing]
        /\ chunk' = [chunk EXCEPT ![a] = SubSeq(buffer, 1, n)]
    BY <1>1, <1>6 DEF Where
  <2>2. /\ pc' \in [Actors -> Where] /\ pc'[a] = "desc" /\ \A b \in Actors : b # a => pc'[b] = pc[b]
        /\ pc'[Writer] \in {"off", "drain", "write", "rest", "publish"}
    BY <1>6, <2>1, Going
  <2>3. desc' \in [Actors -> Offsets] /\ chunk' \in [Actors -> Seq(Nat)] /\ last' \in [Actors -> BOOLEAN]
        /\ Unmoved(a)
    BY <1>3, <2>1, <2>2, RingSize DEF RttTypeOK, Unmoved
  <2> QED BY <1>4, <1>6, <2>2, <2>3
<1>7. CASE n # 0
  <2>1. Goto(a, "write") /\ "write" \in Where /\ UNCHANGED last
        /\ desc' = [desc EXCEPT ![a] = d]
        /\ chunk' = [chunk EXCEPT ![a] = SubSeq(buffer, 1, n)]
    BY <1>1, <1>2, <1>7 DEF Where
  <2>2. /\ pc' \in [Actors -> Where] /\ pc'[a] = "write" /\ \A b \in Actors : b # a => pc'[b] = pc[b]
        /\ pc'[Writer] \in {"off", "drain", "write", "rest", "publish"}
    BY <2>1, Going
  <2>3. desc' \in [Actors -> Offsets] /\ chunk' \in [Actors -> Seq(Nat)] /\ last' \in [Actors -> BOOLEAN]
        /\ Unmoved(a) /\ desc'[a] = d /\ chunk'[a] = SubSeq(buffer, 1, n)
    BY <1>3, <2>1, <2>2, RingSize DEF RttTypeOK, Unmoved
  <2>4. "short" \in lapse' \/ (n = Len(buffer) /\ d.rd # (d.wr + n) % Size)
    BY <1>1, <1>2, <1>7 DEF Befalls
  <2>5. n = Len(buffer) /\ d.rd # (d.wr + n) % Size => n + Distance(d.rd, d.wr) <= Size - 1
    BY <1>2, <1>7, SpaceFits
  <2>6. buffer # << >>
    <3>1. buffer = << >> => Len(buffer) = 0
      OBVIOUS
    <3> QED BY <1>2, <1>7, <3>1
  <2> QED BY <1>3, <1>4, <1>7, <2>2, <2>3, <2>4, <2>5, <2>6
<1> QED BY <1>5, <1>6, <1>7

\* A drain that takes the other ring for its own is a lapse that all is excepted from.
LEMMA AstrayKeeps ==
  ASSUME RttIInv, NEW a \in Actors, Draining(a), astray, RttTypeOK', lapse \subseteq lapse',
         UNCHANGED <<ready, found, counted, astray>>, pc'[Writer] # "off" => busy'
  PROVE  RttIInv'
<1>1. FoundInv /\ "astray" \in lapse
  BY DEF RttIInv, FoundInv
<1>2. found /\ ready
  BY <1>1, Found DEF Draining, AtRest
<1>3. FoundInv'
  BY <1>1, <1>2 DEF FoundInv
<1>4. UpInv' /\ DownInv'
  BY <1>1 DEF UpInv, DownInv
<1> QED BY <1>3, <1>4 DEF RttIInv

LEMMA StrayWrites ==
  ASSUME RttIInv, NEW a \in Actors, Astray(a), Writes(a) \/ WritesRest(a)
  PROVE  RttIInv'
<1>1. /\ pc[a] \in {"write", "rest"} /\ a = Writer /\ astray
      /\ Goto(a, "rest") \/ Goto(a, "publish")
      /\ UNCHANGED <<ready, up, printed, down, downMem, heard, found, desc, chunk, last, shown,
                     typed, queued, wrBuffer, busy, sent, counted, astray, lapse>>
      /\ RttTypeOK /\ DownInv
  BY DEF Writes, WritesRest, Puts, Astray, typeVars, foundVars, RttIInv
<1>2. /\ pc' \in [Actors -> Where]
      /\ pc'[Writer] \in {"off", "drain", "write", "rest", "publish"}
  <2>1. {"rest", "publish"} \subseteq Where
    BY DEF Where
  <2> QED BY <1>1, <2>1, Going
<1>3. upMem' \in [Ring -> Nat]
  <2>1. CASE Writes(a)
    <3> DEFINE d == desc[a]
               room == Size - d.wr
               n == IF Len(chunk[a]) < room THEN Len(chunk[a]) ELSE room
    <3>1. upMem' = [i \in Ring |-> IF i \in d.wr .. d.wr + n - 1 THEN chunk[a][i - d.wr + 1] ELSE upMem[i]]
      BY <1>1, <2>1 DEF Writes, Puts, Astray
    <3>2. d.wr \in Nat /\ chunk[a] \in Seq(Nat) /\ Len(chunk[a]) \in Nat /\ Size \in Nat
          /\ \A i \in 1 .. Len(chunk[a]) : chunk[a][i] \in Nat
      <4>1. d \in Offsets /\ chunk[a] \in Seq(Nat)
        BY <1>1 DEF RttTypeOK
      <4>2. d.wr \in Nat
        BY <4>1, RingSize DEF Offsets, Ring
      <4> HIDE DEF d
      <4> QED BY <4>1, <4>2, RingSize, LenProperties, ElementOfSeq
    <3> HIDE DEF d
    <3>3. n \in Int /\ n <= Len(chunk[a])
      BY <3>2
    <3> HIDE DEF n
    <3>4. ASSUME NEW i \in Ring, i \in d.wr .. d.wr + n - 1
          PROVE  chunk[a][i - d.wr + 1] \in Nat
      <4>1. i \in Nat
        BY RingSize DEF Ring
      <4>2. i - d.wr + 1 \in 1 .. Len(chunk[a])
        BY <3>2, <3>3, <3>4, <4>1
      <4> QED BY <3>2, <4>2
    <3> QED BY <1>1, <3>1, <3>4 DEF RttTypeOK
  <2>2. CASE WritesRest(a)
    <3> DEFINE from == Size - desc[a].wr
               to == IF Len(chunk[a]) < Len(wrBuffer) THEN Len(chunk[a]) ELSE Len(wrBuffer)
               rest == SubSeq(wrBuffer, from + 1, to)
    <3>1. upMem' = [i \in Ring |-> IF i \in 0 .. 0 + Len(rest) - 1 THEN rest[i - 0 + 1] ELSE upMem[i]]
      BY <1>1, <2>2 DEF WritesRest, Puts, Astray
    <3>2. rest \in Seq(Nat)
      <4>1. from \in Nat /\ to \in Nat /\ to <= Len(wrBuffer) /\ wrBuffer \in Seq(Nat) /\ Len(wrBuffer) \in Nat
        <5>1. desc[a] \in Offsets /\ chunk[a] \in Seq(Nat) /\ wrBuffer \in Seq(Nat)
          BY <1>1 DEF RttTypeOK
        <5>2. from \in Nat
          BY <5>1, RingSize DEF Offsets, Ring
        <5>3. Len(chunk[a]) \in Nat /\ Len(wrBuffer) \in Nat
          BY <5>1, LenProperties
        <5> HIDE DEF from
        <5> QED BY <5>1, <5>2, <5>3
      <4> HIDE DEF from, to
      <4>2. ASSUME NEW i \in from + 1 .. to
            PROVE  wrBuffer[i] \in Nat
        <5>1. i \in 1 .. Len(wrBuffer)
          BY <4>1
        <5> QED BY <4>1, <5>1, ElementOfSeq
      <4>3. from + 1 \in Int /\ to \in Int
        BY <4>1
      <4> QED BY <4>2, <4>3, SubSeqProperties
    <3> HIDE DEF rest
    <3>3. ASSUME NEW i \in Ring, i \in 0 .. 0 + Len(rest) - 1
          PROVE  rest[i - 0 + 1] \in Nat
      <4>1. Len(rest) \in Nat /\ i \in Nat
        BY <3>2, LenProperties, RingSize DEF Ring
      <4>2. i - 0 + 1 \in 1 .. Len(rest)
        BY <3>3, <4>1
      <4> QED BY <3>2, <4>2, ElementOfSeq
    <3> QED BY <1>1, <3>1, <3>3 DEF RttTypeOK
  <2> QED BY <2>1, <2>2
<1>4. RttTypeOK'
  BY <1>1, <1>2, <1>3 DEF RttTypeOK
<1>5. Draining(a) /\ (pc'[Writer] # "off" => busy')
  BY <1>1 DEF Draining, DownInv
<1> QED BY <1>1, <1>4, <1>5, AstrayKeeps

\* What a step of a drain leaves alone of the other ring.
LEMMA DrainKeeps ==
  ASSUME RttIInv, NEW a \in Actors, Draining(a), Unmoved(a), lapse \subseteq lapse',
         UNCHANGED <<ready, up, upMem, printed, found, counted, astray, shown>>,
         pc'[a] \notin {"read", "ack"}
  PROVE  FoundInv' /\ UpInv'
<1>1. RttTypeOK /\ FoundInv /\ UpInv
  BY DEF RttIInv
<1>2. found /\ ready /\ ~AtRest(a) /\ pc[a] # "ack"
  BY <1>1, Found DEF Draining, AtRest
<1>3. FoundInv'
  BY <1>1, <1>2 DEF FoundInv
<1>4. UpInv'
  BY <1>1, <1>2, UpKept DEF Unmoved
<1> QED BY <1>3, <1>4

\* While no two drain at once, the others do not.
LEMMA OthersDry ==
  ASSUME OneDrains, NEW a \in Actors, Draining(a), Unmoved(a)
  PROVE  OneDrains' /\ \A b \in Actors : b # a => ~Writing(b) /\ ~Writing(b)'
<1>1. \A b \in Actors : b # a => ~Draining(b) /\ pc'[b] = pc[b]
  BY DEF OneDrains, Unmoved
<1>2. \A b \in Actors : b # a => ~Draining(b)'
  BY <1>1 DEF Draining
<1>3. OneDrains'
  BY <1>2 DEF OneDrains
<1> QED BY <1>1, <1>2, <1>3 DEF Draining, Writing

LEMMA ReadsDownStep ==
  ASSUME RttIInv, NEW a \in Actors, ReadsDown(a)
  PROVE  RttIInv'
<1> DEFINE mine == IF Astray(a) THEN up ELSE down
<1>1. /\ pc[a] = "drain" /\ Round(a, mine, wrBuffer)
      /\ UNCHANGED <<ready, up, upMem, printed, down, downMem, heard, found, shown,
                     typed, queued, wrBuffer, sent, counted, astray>>
      /\ RttTypeOK /\ DownInv /\ down \in Offsets /\ mine \in Offsets /\ wrBuffer \in Seq(Nat) /\ Draining(a)
  BY DEF ReadsDown, upVars, foundVars, downVars, RttIInv, RttTypeOK, Draining
<1>2. /\ pc' \in [Actors -> Where] /\ desc' \in [Actors -> Offsets]
      /\ chunk' \in [Actors -> Seq(Nat)] /\ last' \in [Actors -> BOOLEAN] /\ busy' \in BOOLEAN
      /\ pc'[Writer] \in {"off", "drain", "write", "rest", "publish"}
      /\ Unmoved(a) /\ lapse \subseteq lapse'
      /\ a # Writer => busy' = busy
      /\ \/ a = Writer /\ pc'[a] = "off"
         \/ a # Writer /\ pc'[a] = "desc"
         \/ /\ pc'[a] = "write" /\ desc'[a] = mine /\ busy' = busy /\ wrBuffer # << >>
            /\ \/ "short" \in lapse'
               \/ chunk'[a] = wrBuffer /\ Len(wrBuffer) + Distance(mine.rd, mine.wr) <= Size - 1
  BY <1>1, Rounds
<1>3. RttTypeOK'
  BY <1>1, <1>2 DEF RttTypeOK
<1>4. FoundInv' /\ UpInv'
  BY <1>1, <1>2, DrainKeeps
<1>5. pc'[Writer] # "off" => busy'
  <2>1. pc[Writer] # "off" => busy
    BY <1>1 DEF DownInv
  <2>2. CASE a = Writer
    BY <1>1, <1>2, <2>1, <2>2
  <2>3. CASE a # Writer
    BY <1>2, <2>1, <2>3, RingSize DEF Unmoved
  <2> QED BY <2>2, <2>3
<1>6. ASSUME lapse' = {}
      PROVE  (OneDrains /\ Line /\ DownRing /\ \A b \in Actors : Writing(b) => Parcel(b))'
  <2>1. OneDrains /\ Line /\ DownRing
    BY <1>1, <1>2, <1>6 DEF DownInv
  <2>2. OneDrains' /\ \A b \in Actors : b # a => ~Writing(b)'
    BY <1>1, <1>2, <2>1, OthersDry
  <2>3. Unheard' = Unheard
    BY <1>1 DEF Unheard, Distance
  <2>4. Line' /\ DownRing'
    BY <1>1, <2>1, <2>3 DEF Line, DownRing, At
  <2>5. Writing(a)' => Parcel(a)'
    <3>0. mine = down
      <4>1. ~astray
        BY <1>2, <1>6 DEF RttIInv, FoundInv
      <4> QED BY <4>1 DEF Astray
    <3>1. Writing(a)' => /\ pc'[a] = "write" /\ desc'[a] = down /\ wrBuffer # << >>
                         /\ chunk'[a] = wrBuffer /\ Len(wrBuffer) + Unheard <= Size - 1
      BY <1>2, <1>6, <3>0 DEF Writing, Unheard
    <3> QED BY <1>1, <2>3, <3>1 DEF Parcel
  <2> QED BY <2>2, <2>4, <2>5
<1> QED BY <1>3, <1>4, <1>5, <1>6 DEF RttIInv, DownInv

\* The first part of a parcel goes behind what is in the ring.
LEMMA WritesStep ==
  ASSUME RttIInv, NEW a \in Actors, ~Astray(a), Writes(a)
  PROVE  RttIInv'
<1> DEFINE d == desc[a]
           room == Size - d.wr
           n == IF Len(chunk[a]) < room THEN Len(chunk[a]) ELSE room
           w == IF n < Len(chunk[a]) THEN "rest" ELSE "publish"
<1>1. /\ pc[a] = "write" /\ Goto(a, w)
      /\ downMem' = [i \in Ring |-> IF i \in d.wr .. d.wr + n - 1 THEN chunk[a][i - d.wr + 1] ELSE downMem[i]]
      /\ UNCHANGED <<ready, up, upMem, printed, down, heard, found, shown, desc, chunk, last, busy,
                     typed, queued, wrBuffer, sent, counted, astray, lapse>>
      /\ RttTypeOK /\ DownInv /\ Draining(a) /\ Writing(a)
  BY DEF Writes, Puts, upVars, foundVars, typeVars, RttIInv, Draining, Writing
<1>2. /\ d \in Offsets /\ d.wr \in Ring /\ chunk[a] \in Seq(Nat) /\ Len(chunk[a]) \in Nat
      /\ Size \in Nat /\ Size > 0
      /\ \A i \in 1 .. Len(chunk[a]) : chunk[a][i] \in Nat
  BY <1>1, RingSize, LenProperties, ElementOfSeq DEF RttTypeOK, Offsets
<1>3. n \in Nat /\ n <= Len(chunk[a]) /\ n <= room /\ w \in Where
  BY <1>2 DEF Where, Ring
<1> HIDE DEF n, w
<1>4. /\ pc' \in [Actors -> Where] /\ pc'[a] = w /\ Unmoved(a) /\ pc'[a] \in {"rest", "publish"}
      /\ pc'[Writer] \in {"off", "drain", "write", "rest", "publish"}
  <2>1. w \in {"rest", "publish"}
    BY DEF w
  <2> QED BY <1>1, <1>3, <2>1, Going DEF Unmoved
<1>5. downMem' \in [Ring -> Nat]
  <2> SUFFICES ASSUME NEW i \in Ring, i \in d.wr .. d.wr + n - 1
               PROVE  chunk[a][i - d.wr + 1] \in Nat
    BY <1>1 DEF RttTypeOK
  <2>1. i - d.wr + 1 \in 1 .. Len(chunk[a])
    <3>1. d.wr \in Nat /\ n \in Nat /\ n <= Len(chunk[a]) /\ Len(chunk[a]) \in Nat /\ i \in Nat
      BY <1>2, <1>3 DEF Ring
    <3> HIDE DEF d
    <3> QED BY <3>1
  <2> QED BY <1>2, <2>1
<1>6. RttTypeOK'
  BY <1>1, <1>4, <1>5 DEF RttTypeOK
<1>7. FoundInv' /\ UpInv'
  BY <1>1, <1>4, DrainKeeps
<1>8. pc'[Writer] # "off" => busy'
  <2>1. CASE a = Writer
    BY <1>1, <2>1 DEF DownInv
  <2>2. CASE a # Writer
    BY <1>1, <1>4, <2>2, RingSize DEF DownInv, Unmoved
  <2> QED BY <2>1, <2>2
<1>9. ASSUME lapse' = {}
      PROVE  (OneDrains /\ Line /\ DownRing /\ \A b \in Actors : Writing(b) => Parcel(b))'
  <2>1. OneDrains /\ Line /\ DownRing /\ Parcel(a)
    BY <1>1, <1>9 DEF DownInv
  <2>2. OneDrains' /\ \A b \in Actors : b # a => ~Writing(b)'
    BY <1>1, <1>4, <2>1, OthersDry
  <2>3. /\ Unheard' = Unheard /\ Unheard \in 0 .. Size - 1
        /\ down.rd \in Ring /\ down.wr \in Ring /\ At(down.rd, Unheard) = down.wr
    BY <1>1, UnreadFacts DEF Unheard, Distance
  <2>4. d.wr = down.wr /\ chunk[a] = wrBuffer /\ Len(wrBuffer) + Unheard <= Size - 1
    BY <2>1 DEF Parcel
  <2>5. ASSUME NEW i \in 0 .. Unheard - 1
        PROVE  At(down.rd, i) \in Ring /\ downMem'[At(down.rd, i)] = downMem[At(down.rd, i)]
    <3>1. At(down.rd, i) \in Ring /\ At(down.rd, i) \notin d.wr .. d.wr + n - 1
      BY <1>2, <1>3, <2>3, <2>4, Apart
    <3> QED BY <1>1, <3>1
  <2>6. DownRing'
    BY <1>1, <2>1, <2>3, <2>5 DEF DownRing, At
  <2>7. ASSUME NEW i \in 0 .. n - 1
        PROVE  downMem'[At(down.wr, i)] = wrBuffer[i + 1]
    <3>1. /\ At(down.wr, i) \in Ring /\ At(down.wr, i) \in down.wr .. down.wr + n - 1
          /\ At(down.wr, i) = down.wr + i
      BY <1>3, <2>3, <2>4, UpToEnd
    <3>2. At(down.wr, i) - d.wr + 1 = i + 1
      BY <2>3, <2>4, <3>1 DEF Ring
    <3> QED BY <1>1, <2>4, <3>1, <3>2
  <2>8. pc'[a] = "rest" => n = Size - down.wr /\ Len(wrBuffer) > n
    BY <1>2, <1>4, <2>4 DEF n, w
  <2>9. pc'[a] = "publish" => n = Len(wrBuffer)
    BY <1>2, <1>3, <1>4, <2>4 DEF w
  <2>10. Parcel(a)'
    <3>1. /\ chunk' = chunk /\ wrBuffer' = wrBuffer /\ desc' = desc /\ down' = down
          /\ chunk[a] = wrBuffer /\ wrBuffer # << >> /\ desc[a].wr = down.wr
          /\ Len(wrBuffer) + Unheard <= Size - 1
      BY <1>1, <2>1 DEF Parcel
    <3>2. /\ chunk'[a] = wrBuffer' /\ wrBuffer' # << >> /\ desc'[a].wr = down'.wr
          /\ Len(wrBuffer') + Unheard' <= Size - 1
      BY <2>3, <3>1
    <3>3. pc'[a] = "rest" =>
            /\ Len(wrBuffer') > Size - down'.wr
            /\ \A i \in 0 .. Size - down'.wr - 1 : downMem'[At(down'.wr, i)] = wrBuffer'[i + 1]
      BY <2>7, <2>8, <3>1
    <3>4. pc'[a] = "publish" => \A i \in 0 .. Len(wrBuffer') - 1 : downMem'[At(down'.wr, i)] = wrBuffer'[i + 1]
      BY <2>7, <2>9, <3>1
    <3> QED BY <3>2, <3>3, <3>4 DEF Parcel, At
  <2>11. Line'
    BY <1>1, <2>1 DEF Line
  <2> QED BY <2>2, <2>6, <2>10, <2>11
<1> QED BY <1>6, <1>7, <1>8, <1>9 DEF RttIInv, DownInv

\* The rest of it goes to the beginning of the ring, where the firmware has read.
LEMMA WritesRestStep ==
  ASSUME RttIInv, NEW a \in Actors, ~Astray(a), WritesRest(a)
  PROVE  RttIInv'
<1> DEFINE d == desc[a]
           from == Size - d.wr
           to == IF Len(chunk[a]) < Len(wrBuffer) THEN Len(chunk[a]) ELSE Len(wrBuffer)
           rest == SubSeq(wrBuffer, from + 1, to)
<1>1. /\ pc[a] = "rest" /\ Goto(a, "publish")
      /\ downMem' = [i \in Ring |-> IF i \in 0 .. 0 + Len(rest) - 1 THEN rest[i - 0 + 1] ELSE downMem[i]]
      /\ UNCHANGED <<ready, up, upMem, printed, down, heard, found, shown, desc, chunk, last, busy,
                     typed, queued, wrBuffer, sent, counted, astray, lapse>>
      /\ RttTypeOK /\ DownInv /\ Draining(a) /\ Writing(a)
  BY DEF WritesRest, Puts, upVars, foundVars, typeVars, RttIInv, Draining, Writing
<1>2. /\ d \in Offsets /\ d.wr \in Ring /\ chunk[a] \in Seq(Nat) /\ Len(chunk[a]) \in Nat
      /\ wrBuffer \in Seq(Nat) /\ Len(wrBuffer) \in Nat
      /\ Size \in Nat /\ Size > 0 /\ from \in 1 .. Size /\ to \in Nat /\ to <= Len(wrBuffer)
  <2>1. /\ d \in Offsets /\ chunk[a] \in Seq(Nat) /\ wrBuffer \in Seq(Nat)
    BY <1>1 DEF RttTypeOK
  <2>2. d.wr \in Ring /\ Len(chunk[a]) \in Nat /\ Len(wrBuffer) \in Nat
    BY <2>1, LenProperties DEF Offsets
  <2>3. from \in 1 .. Size
    BY <2>2, RingSize DEF Ring
  <2> QED BY <2>1, <2>2, <2>3, RingSize
<1> HIDE DEF from, to
<1>3. /\ rest \in Seq(Nat) /\ Len(rest) \in Nat
      /\ Len(rest) = IF from + 1 > to THEN 0 ELSE to - from
      /\ \A i \in 1 .. Len(rest) : rest[i] = wrBuffer[from + i] /\ rest[i] \in Nat
  <2>1. ASSUME NEW i \in from + 1 .. to
        PROVE  wrBuffer[i] \in Nat
    <3>1. i \in 1 .. Len(wrBuffer)
      BY <1>2
    <3> QED BY <1>2, <3>1, ElementOfSeq
  <2>2. from + 1 \in Int /\ to \in Int
    BY <1>2
  <2>3. /\ rest \in Seq(Nat) /\ Len(rest) = IF from + 1 <= to THEN to - (from + 1) + 1 ELSE 0
        /\ \A i \in 1 .. to - (from + 1) + 1 : rest[i] = wrBuffer[(from + 1) + i - 1]
    BY <2>1, <2>2, SubSeqProperties
  <2> HIDE DEF rest
  <2>4. ASSUME NEW i \in 1 .. Len(rest)
        PROVE  rest[i] = wrBuffer[from + i] /\ rest[i] \in Nat
    <3>1. i \in 1 .. to - (from + 1) + 1 /\ (from + 1) + i - 1 = from + i
      BY <1>2, <2>3
    <3> QED BY <2>3, <3>1, ElementOfSeq
  <2>5. Len(rest) = IF from + 1 > to THEN 0 ELSE to - from
    BY <1>2, <2>3
  <2> QED BY <2>3, <2>4, <2>5, LenProperties
<1> HIDE DEF rest
<1>30. downMem' = [i \in Ring |-> IF i < Len(rest) THEN rest[i + 1] ELSE downMem[i]]
  <2>1. ASSUME NEW i \in Ring
        PROVE  (i \in 0 .. 0 + Len(rest) - 1 <=> i < Len(rest)) /\ i - 0 + 1 = i + 1
    <3>1. i \in Nat /\ Len(rest) \in Nat
      BY <1>2, <1>3, RingSize DEF Ring
    <3> QED BY <3>1
  <2> QED BY <1>1, <2>1
<1>4. /\ pc' \in [Actors -> Where] /\ pc'[a] = "publish" /\ Unmoved(a)
      /\ pc'[Writer] \in {"off", "drain", "write", "rest", "publish"}
  <2>1. "publish" \in Where
    BY DEF Where
  <2> QED BY <1>1, <2>1, Going DEF Unmoved
<1>5. downMem' \in [Ring -> Nat]
  <2> SUFFICES ASSUME NEW i \in Ring, i < Len(rest)
               PROVE  rest[i + 1] \in Nat
    BY <1>1, <1>30 DEF RttTypeOK
  <2>1. i + 1 \in 1 .. Len(rest)
    <3>1. i \in Nat /\ Len(rest) \in Nat
      BY <1>2, <1>3 DEF Ring
    <3> QED BY <3>1
  <2> QED BY <1>3, <2>1
<1>6. RttTypeOK'
  BY <1>1, <1>4, <1>5 DEF RttTypeOK
<1>7. FoundInv' /\ UpInv'
  BY <1>1, <1>4, DrainKeeps
<1>8. pc'[Writer] # "off" => busy'
  <2>1. CASE a = Writer
    BY <1>1, <2>1 DEF DownInv
  <2>2. CASE a # Writer
    BY <1>1, <1>4, <2>2, RingSize DEF DownInv, Unmoved
  <2> QED BY <2>1, <2>2
<1>9. ASSUME lapse' = {}
      PROVE  (OneDrains /\ Line /\ DownRing /\ \A b \in Actors : Writing(b) => Parcel(b))'
  <2>1. OneDrains /\ Line /\ DownRing /\ Parcel(a)
    BY <1>1, <1>9 DEF DownInv
  <2>2. OneDrains' /\ \A b \in Actors : b # a => ~Writing(b)'
    BY <1>1, <1>4, <2>1, OthersDry
  <2>3. /\ Unheard' = Unheard /\ Unheard \in 0 .. Size - 1
        /\ down.rd \in Ring /\ down.wr \in Ring /\ At(down.rd, Unheard) = down.wr
    BY <1>1, UnreadFacts DEF Unheard, Distance
  <2>4. /\ d.wr = down.wr /\ chunk[a] = wrBuffer /\ Len(wrBuffer) + Unheard <= Size - 1
        /\ Len(wrBuffer) > Size - down.wr
        /\ \A i \in 0 .. Size - down.wr - 1 : downMem[At(down.wr, i)] = wrBuffer[i + 1]
    BY <1>1, <2>1 DEF Parcel
  <2>5. from = Size - down.wr /\ Len(rest) = Len(wrBuffer) - from
    BY <1>2, <1>3, <2>4 DEF from, to
  <2>6. ASSUME NEW i \in 0 .. Unheard - 1
        PROVE  At(down.rd, i) \in Ring /\ downMem'[At(down.rd, i)] = downMem[At(down.rd, i)]
    <3>1. At(down.rd, i) \in Ring /\ ~(At(down.rd, i) < Len(rest))
      BY <1>2, <2>3, <2>4, <2>5, Apart
    <3> QED BY <1>1, <1>30, <3>1
  <2>7. DownRing'
    BY <1>1, <2>1, <2>3, <2>6 DEF DownRing, At
  <2>10. /\ Len(wrBuffer) \in Nat /\ from \in Nat /\ Len(rest) \in Nat /\ down.wr \in Nat
         /\ Len(rest) = Len(wrBuffer) - from /\ Len(rest) <= down.wr
    <3>1. Len(wrBuffer) \in Nat /\ from \in Nat /\ Len(rest) \in Nat /\ down.wr \in Nat
      BY <1>2, <1>3, <2>3 DEF Ring
    <3>2. Unheard \in Nat /\ Size \in Nat
      BY <1>2, <2>3
    <3>3. from = Size - down.wr /\ Len(rest) = Len(wrBuffer) - from /\ Len(wrBuffer) + Unheard <= Size - 1
      BY <2>4, <2>5
    <3> QED BY <3>1, <3>2, <3>3
  <2>8. ASSUME NEW i \in 0 .. Len(wrBuffer) - 1
        PROVE  downMem'[At(down.wr, i)] = wrBuffer[i + 1]
    <3>1. CASE i < from
      <4>1. i \in 0 .. Size - down.wr - 1 /\ from \in Nat /\ from <= Size - down.wr /\ i \in 0 .. from - 1
        BY <1>2, <2>5, <3>1, SMTT(30)
      <4>2. At(down.wr, i) = down.wr + i /\ At(down.wr, i) \in Ring
        BY <2>3, <4>1, UpToEnd
      <4>3. Len(rest) <= down.wr
        BY <2>10
      <4>4. ~(At(down.wr, i) < Len(rest))
        BY <1>3, <2>3, <4>1, <4>2, <4>3 DEF Ring
      <4> QED BY <1>30, <2>4, <4>1, <4>2, <4>4
    <3>2. CASE ~(i < from)
      <4>1. i \in Nat /\ i >= Size - down.wr /\ i < Size /\ from \in Nat
        <5>1. Size \in Nat /\ Unheard \in Nat /\ Len(wrBuffer) \in Nat /\ from \in Nat
          BY <1>2, <2>3, <2>10
        <5>2. from = Size - down.wr /\ Len(wrBuffer) + Unheard <= Size - 1
          BY <2>4, <2>5
        <5> QED BY <3>2, <5>1, <5>2
      <4>2. At(down.wr, i) = i - from /\ At(down.wr, i) \in Ring
        BY <2>3, <2>5, <4>1, FromStart
      <4>3. i - from < Len(rest) /\ i - from + 1 \in 1 .. Len(rest) /\ from + (i - from + 1) = i + 1
        BY <2>10, <3>2
      <4> QED BY <1>3, <1>30, <4>2, <4>3
    <3> QED BY <3>1, <3>2
  <2>9. Parcel(a)'
    BY <1>1, <1>4, <2>1, <2>3, <2>8 DEF Parcel, At
  <2>11. Line'
    BY <1>1, <2>1 DEF Line
  <2> QED BY <2>2, <2>7, <2>9, <2>11
<1> QED BY <1>6, <1>7, <1>8, <1>9 DEF RttIInv, DownInv

LEMMA ModInRing ==
  ASSUME NEW x \in Nat
  PROVE  x % Size \in Ring
BY RingSize DEF Ring

LEMMA LeftOver ==
  ASSUME NEW s \in Seq(Nat), NEW n \in Nat
  PROVE  /\ SubSeq(s, n + 1, Len(s)) \in Seq(Nat)
         /\ n = Len(s) => SubSeq(s, n + 1, Len(s)) = << >>
<1>1. Len(s) \in Nat /\ n + 1 \in Int /\ Len(s) \in Int
  BY LenProperties
<1>2. ASSUME NEW i \in n + 1 .. Len(s)
      PROVE  s[i] \in Nat
  <2>1. i \in 1 .. Len(s)
    BY <1>1
  <2> QED BY <2>1, ElementOfSeq
<1>3. SubSeq(s, n + 1, Len(s)) \in Seq(Nat)
  BY <1>1, <1>2, SubSeqProperties
<1>4. n = Len(s) => Len(s) < n + 1
  BY <1>1
<1> QED BY <1>1, <1>3, <1>4, SubSeqEmpty

LEMMA StrayPublishes ==
  ASSUME RttIInv, NEW a \in Actors, Astray(a), Publishes(a)
  PROVE  RttIInv'
<1> DEFINE d == desc[a]
           n == Len(chunk[a])
           buffer == SubSeq(wrBuffer, n + 1, Len(wrBuffer))
<1>1. /\ pc[a] = "publish" /\ a = Writer /\ astray
      /\ up' = [up EXCEPT !.wr = (d.wr + n) % Size]
      /\ wrBuffer' = buffer /\ sent' = sent + n /\ Round(a, d, buffer)
      /\ UNCHANGED <<ready, upMem, printed, down, downMem, heard, found, counted, astray, shown, typed, queued>>
      /\ RttTypeOK /\ DownInv /\ Draining(a)
  BY DEF Publishes, Points, Astray, foundVars, RttIInv, Draining
<1>2. /\ d \in Offsets /\ d.wr \in Ring /\ n \in Nat /\ buffer \in Seq(Nat) /\ sent \in Nat
  <2>1. d \in Offsets /\ chunk[a] \in Seq(Nat) /\ wrBuffer \in Seq(Nat) /\ sent \in Nat
    BY <1>1 DEF RttTypeOK
  <2> QED BY <2>1, RingSize, LenProperties, LeftOver DEF Offsets
<1> HIDE DEF n, buffer
<1>3. up' \in Offsets
  <2>1. d.wr + n \in Nat
    BY <1>2 DEF Ring
  <2>2. (d.wr + n) % Size \in Ring
    BY <2>1, ModInRing
  <2> QED BY <1>1, <2>2 DEF RttTypeOK, Offsets
<1>4. /\ pc' \in [Actors -> Where] /\ desc' \in [Actors -> Offsets]
      /\ chunk' \in [Actors -> Seq(Nat)] /\ last' \in [Actors -> BOOLEAN] /\ busy' \in BOOLEAN
      /\ pc'[Writer] \in {"off", "drain", "write", "rest", "publish"}
      /\ lapse \subseteq lapse'
      /\ pc'[Writer] = "off" \/ busy' = busy
  BY <1>1, <1>2, Rounds
<1>5. RttTypeOK'
  <2>1. wrBuffer' \in Seq(Nat) /\ sent' \in Nat
    <3>1. sent + n \in Nat
      BY <1>2
    <3> QED BY <1>1, <1>2, <3>1
  <2> QED BY <1>1, <1>3, <1>4, <2>1, SMTT(30) DEF RttTypeOK
<1>6. pc'[Writer] # "off" => busy'
  BY <1>1, <1>4 DEF DownInv
<1> QED BY <1>1, <1>4, <1>5, <1>6, AstrayKeeps

\* The parcel becomes the firmware's, and the round that follows has none.
LEMMA PublishesStep ==
  ASSUME RttIInv, NEW a \in Actors, ~Astray(a), Publishes(a)
  PROVE  RttIInv'
<1> DEFINE d == desc[a]
           n == Len(chunk[a])
           buffer == SubSeq(wrBuffer, n + 1, Len(wrBuffer))
<1>1. /\ pc[a] = "publish"
      /\ down' = [down EXCEPT !.wr = (d.wr + n) % Size]
      /\ wrBuffer' = buffer /\ sent' = sent + n /\ Round(a, d, buffer)
      /\ UNCHANGED <<ready, up, upMem, printed, downMem, heard, found, counted, astray, shown, typed, queued>>
      /\ RttTypeOK /\ DownInv /\ Draining(a) /\ Writing(a)
  BY DEF Publishes, Points, upVars, foundVars, RttIInv, Draining, Writing
<1>2. /\ d \in Offsets /\ d.wr \in Ring /\ d.rd \in Ring /\ n \in Nat /\ buffer \in Seq(Nat)
      /\ wrBuffer \in Seq(Nat) /\ Len(wrBuffer) \in Nat /\ sent \in Nat
      /\ Size \in Nat /\ Size > 0
  <2>1. d \in Offsets /\ chunk[a] \in Seq(Nat) /\ wrBuffer \in Seq(Nat) /\ sent \in Nat
    BY <1>1 DEF RttTypeOK
  <2> QED BY <2>1, RingSize, LenProperties, LeftOver DEF Offsets
<1> HIDE DEF n, buffer
<1>3. down' \in Offsets /\ down'.wr = (d.wr + n) % Size /\ down'.rd = down.rd
  <2>1. d.wr + n \in Nat
    BY <1>2 DEF Ring
  <2>2. (d.wr + n) % Size \in Ring
    BY <2>1, ModInRing
  <2> QED BY <1>1, <2>2 DEF RttTypeOK, Offsets
<1>4. /\ pc' \in [Actors -> Where] /\ desc' \in [Actors -> Offsets]
      /\ chunk' \in [Actors -> Seq(Nat)] /\ last' \in [Actors -> BOOLEAN] /\ busy' \in BOOLEAN
      /\ pc'[Writer] \in {"off", "drain", "write", "rest", "publish"}
      /\ Unmoved(a) /\ lapse \subseteq lapse'
      /\ a # Writer => busy' = busy
      /\ \/ a = Writer /\ pc'[a] = "off"
         \/ a # Writer /\ pc'[a] = "desc"
         \/ pc'[a] = "write" /\ busy' = busy /\ buffer # << >>
  BY <1>1, <1>2, Rounds
<1>5. RttTypeOK'
  <2>1. wrBuffer' \in Seq(Nat) /\ sent' \in Nat
    BY <1>1, <1>2
  <2> QED BY <1>1, <1>3, <1>4, <2>1 DEF RttTypeOK
<1>6. FoundInv' /\ UpInv'
  BY <1>1, <1>4, DrainKeeps
<1>7. pc'[Writer] # "off" => busy'
  <2>1. pc[Writer] # "off" => busy
    BY <1>1 DEF DownInv
  <2>2. CASE a = Writer
    BY <1>1, <1>4, <2>1, <2>2
  <2>3. CASE a # Writer
    BY <1>4, <2>1, <2>3, RingSize DEF Unmoved
  <2> QED BY <2>2, <2>3
<1>8. ASSUME lapse' = {}
      PROVE  (OneDrains /\ Line /\ DownRing /\ \A b \in Actors : Writing(b) => Parcel(b))'
  <2>1. OneDrains /\ Line /\ DownRing /\ Parcel(a)
    BY <1>1, <1>4, <1>8 DEF DownInv
  <2>2. OneDrains' /\ \A b \in Actors : b # a => ~Writing(b)'
    BY <1>1, <1>4, <2>1, OthersDry
  <2>3. /\ Unheard \in 0 .. Size - 1 /\ Unheard \in Nat
        /\ down.rd \in Ring /\ down.wr \in Ring /\ At(down.rd, Unheard) = down.wr
    BY <1>1, UnreadFacts
  <2>4. /\ d.wr = down.wr /\ n = Len(wrBuffer) /\ n + Unheard <= Size - 1
        /\ \A i \in 0 .. n - 1 : downMem[At(down.wr, i)] = wrBuffer[i + 1]
    BY <1>1, <2>1 DEF Parcel, n
  <2>5. wrBuffer' = << >> /\ Len(wrBuffer') = 0 /\ buffer = << >>
    BY <1>1, <1>2, <2>4, LeftOver DEF buffer
  <2>6. \A b \in Actors : ~Writing(b)'
    BY <1>4, <2>2, <2>5 DEF Writing
  <2>7. Line'
    <3>1. /\ \A i \in 1 .. Len(queued) : queued[i] = (sent + n) + 0 + i
          /\ typed = (sent + n) + 0 + Len(queued) /\ Len(queued) \in Nat
      <4>1. Len(queued) \in Nat
        BY <1>1, LenProperties DEF RttTypeOK
      <4>2. /\ \A i \in 1 .. Len(queued) : queued[i] = sent + n + i
            /\ typed = sent + n + Len(queued)
        BY <2>1, <2>4 DEF Line
      <4> QED BY <1>2, <4>1, <4>2
    <3> QED BY <1>1, <2>5, <3>1 DEF Line
  <2>8. Unheard' = Unheard + n
    <3>1. n \in 0 .. Size /\ Distance(down.rd, down.wr) + n <= Size - 1
      BY <1>2, <2>3, <2>4 DEF Unheard
    <3>2. down'.wr = At(down.wr, n)
      BY <1>2, <1>3, <2>4, <3>1, Wraps
    <3>3. Distance(down.rd, At(down.wr, n)) = Unheard + n
      BY <1>2, <2>3, <3>1, LongerWay DEF Unheard
    <3>4. Unheard' = Distance(down.rd, At(down.wr, n))
      BY <1>3, <3>2 DEF Unheard, Distance
    <3> QED BY <3>3, <3>4
  <2>9. Len(heard) \in Nat /\ sent = Len(heard) + Unheard
    BY <1>1, <2>1, LenProperties DEF DownRing, RttTypeOK
  <2>10. ASSUME NEW i \in 0 .. Unheard' - 1
         PROVE  downMem[At(down.rd, i)] = Len(heard) + i + 1
    <3>1. CASE i < Unheard
      BY <2>1, <2>3, <3>1 DEF DownRing
    <3>2. CASE ~(i < Unheard)
      <4> DEFINE k == i - Unheard
      <4>1. k \in 0 .. n - 1 /\ k + 1 \in 1 .. n /\ i = Unheard + k
        BY <1>2, <2>3, <2>8, <3>2
      <4>2. At(down.rd, i) = At(down.wr, k)
        <5>1. Unheard \in 0 .. Size - 1 /\ k \in 0 .. Size - 1 - Unheard
          BY <1>2, <2>3, <2>4, <4>1
        <5> HIDE DEF k
        <5>2. At(At(down.rd, Unheard), k) = At(down.rd, Unheard + k)
          BY <2>3, <5>1, Places
        <5> QED BY <2>3, <4>1, <5>2
      <4>3. wrBuffer[k + 1] = sent + (k + 1)
        BY <2>1, <2>4, <4>1 DEF Line
      <4>4. downMem[At(down.rd, i)] = sent + (k + 1)
        BY <2>4, <4>1, <4>2, <4>3
      <4> HIDE DEF k
      <4>5. sent + (k + 1) = Len(heard) + i + 1
        BY <2>3, <2>9, <4>1
      <4> QED BY <4>4, <4>5
    <3> QED BY <3>1, <3>2
  <2>11. DownRing'
    BY <1>1, <1>2, <1>3, <2>1, <2>3, <2>8, <2>9, <2>10 DEF DownRing, At
  <2> QED BY <2>2, <2>6, <2>7, <2>11
<1> QED BY <1>5, <1>6, <1>7, <1>8 DEF RttIInv, DownInv

\* What is typed goes behind what waits, unless a write is under way or left some over.
LEMMA TypesStep ==
  ASSUME RttIInv, NEW n \in 1 .. MaxBurst, Types(n)
  PROVE  RttIInv'
<1> DEFINE new == [i \in 1 .. n |-> typed + i]
           all == queued \o new
<1>1. /\ found /\ typed' = typed + n
      /\ UNCHANGED <<ready, up, upMem, printed, down, downMem, heard, found, desc, chunk, last, shown, sent, counted>>
      /\ IF busy
         THEN queued' = all /\ UNCHANGED <<wrBuffer, busy, astray, pc, lapse>>
         ELSE /\ queued' = << >> /\ wrBuffer' = all \o wrBuffer /\ busy' = TRUE
              /\ astray' = ~counted
              /\ Goto(Writer, "drain")
              /\ lapse' = lapse \cup Befalls("astray", ~counted)
                                \cup Befalls("drains", \E b \in Loops : Draining(b))
                                \cup Befalls("overtakes", wrBuffer # << >>)
      /\ RttTypeOK /\ FoundInv /\ UpInv /\ DownInv
  BY DEF Types, upVars, foundVars, downVars, RttIInv
<1>2. n \in Nat /\ typed \in Nat /\ sent \in Nat /\ queued \in Seq(Nat) /\ wrBuffer \in Seq(Nat)
      /\ Len(queued) \in Nat /\ Len(wrBuffer) \in Nat
  BY <1>1, RttAssumption, LenProperties DEF RttTypeOK
<1>3. new \in Seq(Nat) /\ Len(new) = n /\ \A i \in 1 .. n : new[i] = typed + i
  <2>1. new \in [1 .. n -> Nat]
    BY <1>2
  <2> QED BY <1>2, <2>1, SeqDef, LenProperties
<1> HIDE DEF new
<1>4. /\ all \in Seq(Nat) /\ Len(all) = Len(queued) + n
      /\ \A i \in 1 .. Len(queued) + n : all[i] = IF i <= Len(queued) THEN queued[i] ELSE new[i - Len(queued)]
  BY <1>2, <1>3, ConcatProperties
<1> HIDE DEF all
<1>5. Line => /\ \A i \in 1 .. Len(all) : all[i] = sent + Len(wrBuffer) + i
              /\ typed' = sent + Len(wrBuffer) + Len(all)
  <2> SUFFICES ASSUME Line
               PROVE  /\ \A i \in 1 .. Len(all) : all[i] = sent + Len(wrBuffer) + i
                      /\ typed' = sent + Len(wrBuffer) + Len(all)
    OBVIOUS
  <2>1. typed = sent + Len(wrBuffer) + Len(queued)
    BY DEF Line
  <2>2. ASSUME NEW i \in 1 .. Len(all)
        PROVE  all[i] = sent + Len(wrBuffer) + i
    <3>1. CASE i <= Len(queued)
      <4>1. i \in 1 .. Len(queued)
        BY <1>2, <1>4, <3>1
      <4> QED BY <1>4, <3>1, <4>1 DEF Line
    <3>2. CASE ~(i <= Len(queued))
      <4>1. i - Len(queued) \in 1 .. n
        BY <1>2, <1>4, <3>2
      <4>2. all[i] = typed + (i - Len(queued))
        BY <1>3, <1>4, <3>2, <4>1
      <4> QED BY <1>2, <2>1, <4>2
    <3> QED BY <3>1, <3>2
  <2> QED BY <1>1, <1>2, <1>4, <2>1, <2>2
<1>6. FoundInv'
  <2>1. found /\ ready /\ (counted => found)
    BY <1>1 DEF FoundInv
  <2>2. astray' => "astray" \in lapse'
    BY <1>1 DEF FoundInv, Befalls
  <2> QED BY <1>1, <2>1, <2>2 DEF FoundInv
<1>7. Writer \in Actors /\ Writer \notin Loops /\ \A b \in Actors : b # Writer => b \in Loops
  BY RingSize
<1>8. CASE busy
  <2>1. RttTypeOK'
    BY <1>1, <1>2, <1>4, <1>8 DEF RttTypeOK
  <2>2. UpInv'
    BY <1>1, <1>7, <1>8, UpKept
  <2>3. DownInv'
    <3>1. pc'[Writer] # "off" => busy'
      BY <1>1, <1>8 DEF DownInv
    <3>2. ASSUME lapse' = {}
          PROVE  (OneDrains /\ Line /\ DownRing /\ \A b \in Actors : Writing(b) => Parcel(b))'
      <4>1. OneDrains /\ Line /\ DownRing /\ \A b \in Actors : Writing(b) => Parcel(b)
        BY <1>1, <1>8, <3>2 DEF DownInv
      <4>2. Unheard' = Unheard
        BY <1>1 DEF Unheard, Distance
      <4>3. OneDrains' /\ DownRing' /\ (\A b \in Actors : Writing(b) => Parcel(b))'
        BY <1>1, <1>8, <4>1, <4>2 DEF OneDrains, Draining, DownRing, Writing, Parcel, At
      <4>4. Line'
        BY <1>1, <1>5, <1>8, <4>1 DEF Line
      <4> QED BY <4>3, <4>4
    <3> QED BY <3>1, <3>2 DEF DownInv
  <2> QED BY <1>6, <2>1, <2>2, <2>3 DEF RttIInv
<1>9. CASE ~busy
  <2>1. /\ queued' = << >> /\ wrBuffer' = all \o wrBuffer /\ busy' = TRUE
        /\ lapse \subseteq lapse'
        /\ "drains" \in lapse' \/ \A b \in Loops : ~Draining(b)
        /\ "overtakes" \in lapse' \/ wrBuffer = << >>
    BY <1>1, <1>9 DEF Befalls
  <2>2. /\ pc' \in [Actors -> Where] /\ pc'[Writer] = "drain" /\ Unmoved(Writer)
        /\ pc'[Writer] \in {"off", "drain", "write", "rest", "publish"}
    <3>1. "drain" \in Where
      BY DEF Where
    <3> QED BY <1>1, <1>7, <1>9, <3>1, Going DEF Unmoved
  <2>3. wrBuffer' \in Seq(Nat) /\ queued' \in Seq(Nat) /\ Len(queued') = 0
    BY <1>2, <1>4, <2>1, ConcatProperties, EmptySeq
  <2>4. RttTypeOK'
    <3>1. astray' \in BOOLEAN
      BY <1>1, <1>9
    <3> QED BY <1>1, <1>2, <2>1, <2>2, <2>3, <3>1, SMTT(30) DEF RttTypeOK
  <2>5. UpInv'
    <3>1. pc[Writer] # "ack"
      BY <1>1 DEF RttTypeOK
    <3> QED BY <1>1, <1>7, <2>1, <2>2, <3>1, UpKept DEF Unmoved
  <2>6. ASSUME lapse' = {}
        PROVE  (OneDrains /\ Line /\ DownRing /\ \A b \in Actors : Writing(b) => Parcel(b))'
    <3>1. OneDrains /\ Line /\ DownRing /\ wrBuffer = << >> /\ \A b \in Loops : ~Draining(b)
      BY <1>1, <2>1, <2>6 DEF DownInv
    <3>2. \A b \in Actors : b # Writer => ~Draining(b)' /\ ~Writing(b)'
      BY <1>7, <2>2, <3>1 DEF Draining, Writing, Unmoved
    <3>3. OneDrains' /\ \A b \in Actors : ~Writing(b)'
      BY <2>2, <3>2 DEF OneDrains, Writing
    <3>4. wrBuffer' = all /\ Len(wrBuffer) = 0
      BY <1>4, <2>1, <3>1, ConcatEmptySeq
    <3>5. Line'
      <4>1. sent' = sent /\ wrBuffer' = all /\ Len(queued') = 0
        BY <1>1, <2>3, <3>4
      <4> QED BY <1>1, <1>2, <1>4, <1>5, <2>3, <3>1, <3>4, <4>1, SMTT(30) DEF Line
    <3>6. Unheard' = Unheard
      BY <1>1 DEF Unheard, Distance
    <3>7. DownRing'
      BY <1>1, <3>1, <3>6 DEF DownRing, At
    <3> QED BY <3>3, <3>5, <3>7
  <2> QED BY <1>6, <2>1, <2>4, <2>5, <2>6 DEF RttIInv, DownInv
<1> QED BY <1>8, <1>9

-----------------------------------------------------------------------------
(* The session *)

LEMMA FailsStep ==
  ASSUME RttIInv, NEW a \in Actors, Fails(a)
  PROVE  RttIInv'
<1>1. /\ ~AtRest(a)
      /\ IF pc[a] = "ack" THEN Hangs(a) ELSE Leaves(a)
      /\ lapse' = lapse \cup Befalls("mute", pc[a] = "ack") \cup Befalls("late", last[a])
      /\ busy' = (busy /\ a # Writer)
      /\ UNCHANGED <<ready, up, upMem, printed, down, downMem, heard, found, shown, typed, queued, wrBuffer, sent, counted, astray>>
      /\ RttTypeOK /\ FoundInv /\ UpInv /\ DownInv
  BY DEF Fails, upVars, foundVars, downVars, RttIInv
<1>2. /\ pc' \in [Actors -> Where] /\ desc' \in [Actors -> Offsets]
      /\ chunk' \in [Actors -> Seq(Nat)] /\ last' \in [Actors -> BOOLEAN]
      /\ pc'[a] \in {"off", "sleep", "hung"} /\ Unmoved(a)
      /\ (a = Writer => pc'[a] = "off")
      /\ pc'[Writer] \in {"off", "drain", "write", "rest", "publish"}
  <2>1. CASE pc[a] = "ack"
    <3>1. a # Writer /\ "hung" \in Where /\ Ends(a, "hung")
      BY <1>1, <2>1 DEF RttTypeOK, Where, Hangs
    <3> QED BY <1>1, <3>1, Ending
  <2>2. CASE pc[a] # "ack"
    BY <1>1, <2>2, Leaving
  <2> QED BY <2>1, <2>2
<1>3. lapse \subseteq lapse' /\ (pc[a] = "ack" => "mute" \in lapse')
  BY <1>1 DEF Befalls
<1>4. RttTypeOK'
  <2>1. busy' \in BOOLEAN
    BY <1>1 DEF RttTypeOK
  <2> QED BY <1>1, <1>2, <2>1 DEF RttTypeOK
<1>5. FoundInv'
  <2>1. found' => ready'
    BY <1>1 DEF FoundInv
  <2>2. ASSUME ~found', NEW b \in Actors
        PROVE  AtRest(b)' \/ pc'[b] = "search"
    <3>1. AtRest(b) \/ pc[b] = "search"
      BY <1>1, <2>2 DEF FoundInv
    <3> QED BY <1>2, <3>1 DEF AtRest, Unmoved
  <2> QED BY <1>1, <2>1, <2>2 DEF FoundInv
<1>6. UpInv'
  BY <1>1, <1>2, <1>3, UpKept DEF Unmoved
<1>7. pc'[Writer] # "off" => busy'
  <2>1. pc[Writer] # "off" => busy
    BY <1>1 DEF DownInv
  <2>2. CASE a = Writer
    BY <1>2, <2>2
  <2>3. CASE a # Writer
    BY <1>1, <1>2, <2>1, <2>3, RingSize DEF Unmoved
  <2> QED BY <2>2, <2>3
<1>8. DownInv'
  <2>1. ~Writing(a)' /\ ~Draining(a)'
    BY <1>2 DEF Writing, Draining
  <2> QED BY <1>1, <1>2, <1>3, <1>7, <2>1, DownKept DEF Unmoved
<1> QED BY <1>4, <1>5, <1>6, <1>8 DEF RttIInv

\* A loop starts.
LEMMA SpawnsStep ==
  ASSUME RttIInv, NEW a \in Loops, Spawns(a),
         UNCHANGED <<ready, up, upMem, printed, down, downMem, heard, found, desc, chunk, shown,
                     typed, queued, wrBuffer, busy, sent, counted, astray>>
  PROVE  RttIInv'
<1>1. /\ pc[a] = "off" /\ Begins(a)
      /\ RttTypeOK /\ FoundInv /\ UpInv /\ DownInv
      /\ a \in Actors /\ a # Writer
  BY RingSize DEF Spawns, RttIInv
<1>2. /\ pc' \in [Actors -> Where] /\ last' \in [Actors -> BOOLEAN]
      /\ pc'[a] \in {"off", "sleep", "search", "drain"}
      /\ (pc'[a] = "search" => ~found) /\ (pc'[a] = "drain" => found)
      /\ Unmoved(a) /\ pc'[Writer] = pc[Writer] /\ lapse \subseteq lapse'
      /\ "overlap" \in lapse' \/ pc'[a] \in {"off", "sleep"} \/ \A b \in Loops \ {a} : AtRest(b)
      /\ "drains" \in lapse' \/ pc'[a] # "drain" \/ \A b \in Actors \ {a} : ~Draining(b)
  BY <1>1, Beginning
<1>3. RttTypeOK'
  BY <1>1, <1>2 DEF RttTypeOK
<1>4. FoundInv'
  BY <1>1, <1>2 DEF FoundInv, AtRest, Unmoved
<1>5. UpInv'
  <2>1. pc'[a] \notin {"read", "ack"} /\ pc[a] # "ack" /\ (pc'[a] \in {"off", "sleep"} => AtRest(a)')
    BY <1>1, <1>2 DEF AtRest
  <2> QED BY <1>1, <1>2, <2>1, UpKept DEF Unmoved
<1>6. DownInv'
  <2>1. ~Writing(a)' /\ (Draining(a)' => pc'[a] = "drain")
    BY <1>2 DEF Writing, Draining
  <2>2. pc'[Writer] # "off" => busy'
    BY <1>1, <1>2 DEF DownInv
  <2> QED BY <1>1, <1>2, <2>1, <2>2, DownKept DEF Unmoved
<1> QED BY <1>3, <1>4, <1>5, <1>6 DEF RttIInv

LEMMA NothingMoves ==
  ASSUME RttIInv,
         UNCHANGED <<ready, up, upMem, printed, down, downMem, heard, found, pc, desc, chunk, last, shown,
                     typed, queued, wrBuffer, busy, sent, counted, astray, lapse>>
  PROVE  RttIInv'
<1>1. RttTypeOK /\ FoundInv /\ UpInv /\ DownInv /\ Writer \in Actors
  BY RingSize DEF RttIInv
<1>2. RttTypeOK'
  BY <1>1 DEF RttTypeOK
<1>3. FoundInv'
  BY <1>1 DEF FoundInv, AtRest
<1>4. UpInv'
  BY <1>1, UpKept
<1>5. DownInv'
  <2>1. pc'[Writer] # "off" => busy'
    BY <1>1 DEF DownInv
  <2> QED BY <1>1, <2>1, DownKept
<1> QED BY <1>2, <1>3, <1>4, <1>5 DEF RttIInv

LEMMA RttInitInv ==
  ASSUME RttInit
  PROVE  RttIInv
<1>1. << >> \in Seq(Nat) /\ Start \in Ring /\ "off" \in Where /\ Len(<< >>) = 0
  BY RingSize, EmptySeq DEF Where
<1>2. RttTypeOK
  <2>1. /\ up \in Offsets /\ down \in Offsets
        /\ upMem \in [Ring -> Nat] /\ downMem \in [Ring -> Nat]
    BY <1>1 DEF RttInit, Offsets
  <2>2. /\ pc \in [Actors -> Where] /\ desc \in [Actors -> Offsets]
        /\ chunk \in [Actors -> Seq(Nat)] /\ last \in [Actors -> BOOLEAN] /\ pc[Writer] = "off"
    BY <1>1, RingSize DEF RttInit
  <2> QED BY <1>1, <2>1, <2>2 DEF RttInit, RttTypeOK
<1>3. /\ \A a \in Actors : pc[a] = "off"
      /\ up.rd = up.wr /\ down.rd = down.wr /\ shown = << >> /\ heard = << >>
      /\ printed = 0 /\ sent = 0 /\ typed = 0 /\ queued = << >> /\ wrBuffer = << >> /\ found = FALSE
      /\ counted = FALSE /\ astray = FALSE
  BY DEF RttInit
<1>4. FoundInv
  BY <1>3 DEF FoundInv, AtRest
<1>5. Unread = 0 /\ Unheard = 0 /\ Taken = 0
  <2>1. up.rd \in Ring /\ down.rd \in Ring
    BY <1>2, UnreadFacts
  <2> QED BY <1>3, <2>1, Distances DEF Unread, Unheard, Taken
<1>6. << >> = Counted(0)
  BY CountedFacts, <1>1, IsCounted
<1>7. UpInv
  <2>1. Alone
    BY <1>3, RingSize DEF Alone, AtRest
  <2>2. 0 .. Unread - 1 = {}
    BY <1>5
  <2>3. \A a \in Loops : pc[a] = "off"
    BY <1>3, RingSize
  <2> QED BY <1>1, <1>3, <1>5, <1>6, <2>1, <2>2, <2>3 DEF UpInv
<1>8. DownInv
  <2>1. OneDrains /\ \A a \in Actors : ~Writing(a)
    BY <1>3 DEF OneDrains, Draining, Writing
  <2>2. Line
    BY <1>1, <1>3 DEF Line
  <2>3. 0 .. Unheard - 1 = {}
    BY <1>5
  <2>4. DownRing
    BY <1>1, <1>3, <1>5, <1>6, <2>3 DEF DownRing
  <2> QED BY <1>3, <2>1, <2>2, <2>4, RingSize DEF DownInv
<1> QED BY <1>2, <1>4, <1>7, <1>8 DEF RttIInv

LEMMA RttNextInv ==
  ASSUME RttIInv, [RttNext]_rttVars
  PROVE  RttIInv'
<1> USE DEF upVars, downVars, foundVars, pollVars, typeVars, lifeVars
<1>1. CASE UNCHANGED rttVars
  BY <1>1, NothingMoves DEF rttVars
<1>2. ASSUME NEW a \in Loops, Reads(a) PROVE RttIInv'
  BY <1>2, PollsStep, SearchesStep, CountsStep, ReadsDescStep, ReadsChunkStep, AcksStep DEF Reads
<1>3. ASSUME NEW a \in Actors, Drains(a) \/ Fails(a) PROVE RttIInv'
  <2>1. CASE Astray(a)
    BY <1>3, <2>1, ReadsDownStep, StrayWrites, StrayPublishes, FailsStep DEF Drains
  <2>2. CASE ~Astray(a)
    BY <1>3, <2>2, ReadsDownStep, WritesStep, WritesRestStep, PublishesStep, FailsStep DEF Drains
  <2> QED BY <2>1, <2>2
<1>4. CASE Starts
  BY <1>4, SpawnsStep DEF Starts
<1>5. CASE OnRunning
  <2>1. CASE started
    BY <1>5, <2>1, SpawnsStep DEF OnRunning
  <2>2. CASE ~started
    BY <1>5, <2>2, NothingMoves DEF OnRunning
  <2> QED BY <2>1, <2>2
<1>6. CASE OnStopped \/ StopTimerExpires \/ Disposes \/ Exits
  BY <1>6, NothingMoves DEF OnStopped, StopTimerExpires, Disposes, Exits
<1> QED BY <1>1, <1>2, <1>3, <1>4, <1>5, <1>6, SetsUpStep, PrintsStep, HearsStep, TypesStep DEF RttNext

\* What the firmware prints is shown once and in order, however the loop's reads and the
\* firmware's prints interleave, unless two loops poll at once, the write of a RdOff fails
\* or something is typed before the channels are counted (readMemoryBytes,
\* updateWriteForChunk, doSearch); and what it reads is what was typed, in order, unless one
\* of the lapses that BytesInOrder names befell the session (drainWriteBuffer): for rings of
\* any size, any chunk, and any number of bytes, turns and loops.
THEOREM RttBytesInOrder == RttSpec => []BytesInOrder
<1>1. RttIInv => BytesInOrder
  BY DEF RttIInv, UpInv, DownInv, DownRing, BytesInOrder, UpInOrder, DownInOrder
<1> QED
  BY <1>1, RttInitInv, RttNextInv, PTL DEF RttSpec

=============================================================================
