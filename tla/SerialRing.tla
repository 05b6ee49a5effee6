------------------------------- MODULE SerialRing -------------------------------
(***************************************************************************)
(* The received-data ring of one open serial port (serial/ring.rs), as     *)
(* values: a ring is a record, `Push' maps a ring and a slice to the next  *)
(* ring, `Snapshot' reads it back oldest byte first.  Both run under the   *)
(* ring's mutex, so each is one indivisible step of whoever calls it.      *)
(*                                                                         *)
(* What the ring promises is `LastBytes': of everything ever pushed, the   *)
(* last `Cap' bytes, in order.                                             *)
(***************************************************************************)
EXTENDS Integers, Sequences

CONSTANT Cap   \* CAPACITY, 1 MB in the program

ASSUME CapAssumption == Cap \in Nat \ {0}

Slots == 0 .. Cap - 1

\* RingInner, over bytes drawn from B (0 stands for a byte never written).
RingOf(B) == [data: [Slots -> B \cup {0}], write_pos: Slots, filled: 0 .. Cap]

NewRing == [data |-> [i \in Slots |-> 0], write_pos |-> 0, filled |-> 0]

\* The two copies into the backing array: n bytes from wp up, wrapping once.
CopyIn(data, wp, bytes) ==
  LET n    == Len(bytes)
      tail == Cap - wp
  IN  [i \in Slots |-> IF wp <= i /\ i < wp + n THEN bytes[i - wp + 1]
                       ELSE IF i < n - tail    THEN bytes[tail + i + 1]
                       ELSE data[i]]

\* Faulty variant: the write position is not wrapped.
UnwrappedPushShort(r, bytes) ==
  LET n == Len(bytes)
  IN  [data      |-> CopyIn(r.data, r.write_pos, bytes),
       write_pos |-> r.write_pos + n,
       filled    |-> IF r.filled + n < Cap THEN r.filled + n ELSE Cap]

\* A slice shorter than the ring is appended at write_pos, wrapping.
PushShort(r, bytes) ==
  LET n == Len(bytes)
  IN  [data      |-> CopyIn(r.data, r.write_pos, bytes),
       write_pos |-> (r.write_pos + n) % Cap,
       filled    |-> IF r.filled + n < Cap THEN r.filled + n ELSE Cap]

\* A slice at least as long as the ring resets it and leaves its last Cap bytes.
PushLong(r, bytes) ==
  LET n == Len(bytes)
  IN  PushShort([data |-> r.data, write_pos |-> 0, filled |-> Cap],
                SubSeq(bytes, n - Cap + 1, n))

Push(r, bytes) ==
  IF bytes = << >> THEN r
  ELSE IF Len(bytes) >= Cap THEN PushLong(r, bytes)
  ELSE PushShort(r, bytes)

\* Faulty variant: right only for a full ring.
OldestIfFull(r) == r.write_pos

\* The slot of the oldest valid byte.
Oldest(r) == (r.write_pos + Cap - r.filled) % Cap

\* One slice, or the slice up to the end of the array and the one from its start.
Snapshot(r) ==
  LET start == Oldest(r)
  IN  [k \in 1 .. r.filled |->
         IF start + k - 1 < Cap THEN r.data[start + k - 1]
                                ELSE r.data[start + k - 1 - Cap]]

-----------------------------------------------------------------------------

\* The abstract ring: the last Cap elements of a sequence.
LastBytes(s) ==
  IF Len(s) <= Cap THEN s ELSE SubSeq(s, Len(s) - Cap + 1, Len(s))

=============================================================================
