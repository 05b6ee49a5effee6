------------------------------ MODULE DisasmWindow ------------------------------
(***************************************************************************)
(* What a disassembly of the executable shows around an address            *)
(* (get_assembly.rs, disasm_worker.rs): `Window' is what the worker        *)
(* computes, `Centred' what its callers count on.  A listing is the set of *)
(* addresses objdump printed.  What it has not is made up, two bytes       *)
(* apart, and shown as invalid.                                            *)
(***************************************************************************)
EXTENDS Integers, Sequences, FiniteSets, SequencesExt

Real(a)    == [address |-> a, real |-> TRUE]
Invalid(a) == [address |-> a, real |-> FALSE]

\* saturating_sub.
Below(a, n) == IF a > n THEN a - n ELSE 0

AtMost(code, a)  == {x \in code : x <= a}
AtLeast(code, a) == {x \in code : x >= a}

Lowest(S)  == CHOOSE x \in S : \A y \in S : x <= y
Highest(S) == CHOOSE x \in S : \A y \in S : x >= y

\* The instructions of S, and the n of them nearest to its upper and its lower end.
Ascending(S) ==
  [i \in 1 .. Cardinality(S) |-> Real(CHOOSE x \in S : Cardinality({y \in S : y < x}) = i - 1)]
LastOf(S, n)  == Ascending({x \in S : Cardinality({y \in S : y > x}) < n})
FirstOf(S, n) == Ascending({x \in S : Cardinality({y \in S : y < x}) < n})

\* n made-up instructions upwards from an address, and downwards to one.
PadUp(a, n)   == [i \in 1 .. n |-> Invalid(a + 2 * i)]
PadDown(a, n) == [i \in 1 .. n |-> Invalid(Below(a, 2 * (n + 1 - i)))]

\* The address of the last instruction of w.
Reached(w, start) == IF w = << >> THEN start ELSE Last(w).address

\* Faulty variant: the target is counted among those before it.
AroundTwice(code, start, before, after) ==
  LET prev == LastOf(AtMost(code, start), before)
      next == FirstOf(AtLeast(code, start), after)
  IN  PadDown(Reached(prev, start), before - Len(prev)) \o prev
      \o next \o PadUp(Reached(next, start), after - Len(next))

\* The target is in the listing, or in the middle of an instruction of it.  What is
\* missing before it is made up from its nearest neighbour downwards.
Around(code, start, before, after) ==
  LET prev == LastOf(AtMost(code, start - 1), before)
      next == FirstOf(AtLeast(code, start), after)
  IN  PadDown(Reached(prev, start), before - Len(prev)) \o prev
      \o next \o PadUp(Reached(next, start), after - Len(next))

\* The target is below the listing: what is made up to fill the gap comes on top of
\* what was asked for.
Ahead(code, target, before, after) ==
  LET gap == SelectSeq(PadUp(target, after), LAMBDA i : i.address < Lowest(code))
      got == PadDown(target, before) \o IF code = {} THEN << >> ELSE gap \o FirstOf(code, after)
  IN  got \o PadUp(Reached(got, target),
                   IF before + after > Len(got) THEN before + after - Len(got) ELSE 0)

\* get_window.
Window(code, target, before, after) ==
  IF AtMost(code, target) # {}
  THEN Around(code, Highest(AtMost(code, target)), before, after)
  ELSE Ahead(code, target, before, after)

\* instructionOffset and instructionCount: an offset upwards is ignored; one that leaves
\* the target out of the window widens it.
Before(q) == IF q.offset < 0 THEN -q.offset ELSE 0
After(q)  == IF Before(q) >= q.count THEN q.count ELSE q.count - Before(q)

Disassembled(code, q) == Window(code, q.target, Before(q), After(q))

-----------------------------------------------------------------------------

\* The client scrolls by index: the instruction at the target has to be where it was
\* asked for, and what surrounds it is what the executable has there, all of it and in
\* order, with made-up instructions only where the listing has run out.  Below the
\* listing, all of its instructions that were asked for are there.
Centred(code, w, q) ==
  LET n     == Before(q)
      start == Highest(AtMost(code, q.target))
      Shown(a, from, to) == \E j \in from .. to : w[j] = Real(a)
      InOrder == \A i, j \in 1 .. Len(w) :
                   i < j /\ w[i].real /\ w[j].real => w[i].address < w[j].address
  IN  /\ InOrder
      /\ IF AtMost(code, q.target) = {}
         THEN /\ \A i \in 1 .. n : ~w[i].real
              /\ SelectSeq(w, LAMBDA i : i.real) = FirstOf(code, After(q))
         ELSE /\ Len(w) = n + After(q)
              /\ After(q) > 0 => w[n + 1] = Real(start)
              /\ \A i \in 1 .. n :
                   w[i].real \/ \A a \in AtMost(code, start - 1) : Shown(a, i, n)
              /\ \A i \in n + 1 .. Len(w) :
                   w[i].real \/ \A a \in AtLeast(code, start) : Shown(a, n + 1, i)

=============================================================================
