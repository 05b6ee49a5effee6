---------------------------- MODULE SerialPortProofs ----------------------------
(***************************************************************************)
(* That the port of SerialPort delivers exactly once, for any number of    *)
(* clients, ring and queue capacity, read size and amount of data.         *)
(*                                                                         *)
(* ExactlyOnce is not inductive: the first chunk a new client is queued    *)
(* comes out of the ring, so the ring must hold the bytes just before the  *)
(* ones the reader will publish next (RingInv); and a client that is       *)
(* offered a chunk must be owed everything before it (ClientInv).          *)
(* The bridge of SerialBridge does to the port what any caller may, or     *)
(* cuts a client's socket, so that the promises hold of it as well; and it *)
(* has one client at a time (BridgeInv).                                   *)
(*                                                                         *)
(* First what the ring of SerialRing does, for every capacity, content and *)
(* slice pushed: a push keeps it well formed, and what can be read back is *)
(* always the last `Cap' bytes of what went in.                            *)
(***************************************************************************)
EXTENDS MCSerialPort, SequenceTheorems, TLAPS

-----------------------------------------------------------------------------
(* The ring *)

\* A function on 1 .. n is a sequence of length n.
LEMMA FunctionIsSeq ==
  ASSUME NEW S, NEW n \in Nat, NEW f \in [1 .. n -> S]
  PROVE  f \in Seq(S) /\ Len(f) = n
<1>1. f \in Seq(S)
  BY SeqDef
<1>2. Len(f) \in Nat /\ DOMAIN f = 1 .. Len(f) /\ DOMAIN f = 1 .. n
  BY <1>1, LenProperties
<1> QED
  BY <1>1, <1>2

\* Below twice the capacity, wrapping an index is at most one subtraction.
LEMMA Wrap ==
  ASSUME NEW x \in 0 .. 2 * Cap - 1
  PROVE  x % Cap = IF x < Cap THEN x ELSE x - Cap
  BY CapAssumption

\* The same of the sum of a slot and a length.
LEMMA WrapSum ==
  ASSUME NEW a \in 0 .. Cap - 1, NEW b \in 0 .. Cap
  PROVE  (a + b) % Cap = IF a + b < Cap THEN a + b ELSE a + b - Cap
  BY CapAssumption

\* The fields of a well-formed ring.
LEMMA RingFields ==
  ASSUME NEW B, NEW r \in RingOf(B)
  PROVE  /\ r.data \in [0 .. Cap - 1 -> B \cup {0}]
         /\ r.write_pos \in 0 .. Cap - 1
         /\ r.filled \in 0 .. Cap
  BY DEF RingOf, Slots

\* The oldest byte's slot, without the modulus.
LEMMA OldestSlot ==
  ASSUME NEW B, NEW r \in RingOf(B)
  PROVE  /\ Oldest(r) \in 0 .. Cap - 1
         /\ Oldest(r) = IF r.write_pos < r.filled THEN r.write_pos + Cap - r.filled
                                                  ELSE r.write_pos - r.filled
<1> DEFINE x == r.write_pos + Cap - r.filled
<1>1. r.write_pos \in 0 .. Cap - 1 /\ r.filled \in 0 .. Cap
  BY RingFields
<1>2. x \in 0 .. 2 * Cap - 1
  BY <1>1, CapAssumption
<1>3. x % Cap = IF x < Cap THEN x ELSE x - Cap
  BY <1>2, Wrap
<1> QED
  BY <1>1, <1>3, CapAssumption DEF Oldest

\* A ring reads back as `filled' bytes.
LEMMA SnapshotLength ==
  ASSUME NEW B, NEW r \in RingOf(B)
  PROVE  Snapshot(r) \in Seq(B \cup {0}) /\ Len(Snapshot(r)) = r.filled
<1> DEFINE start == Oldest(r)
           slot(k) == IF start + k - 1 < Cap THEN start + k - 1 ELSE start + k - 1 - Cap
<1>1. start \in 0 .. Cap - 1
  BY OldestSlot
<1>2. \A k \in 1 .. r.filled : slot(k) \in 0 .. Cap - 1
  BY <1>1, RingFields, CapAssumption
<1>3. Snapshot(r) = [k \in 1 .. r.filled |-> r.data[slot(k)]]
  BY DEF Snapshot
<1>4. r.data \in [0 .. Cap - 1 -> B \cup {0}]
  BY RingFields
<1>5. \A k \in 1 .. r.filled : r.data[slot(k)] \in B \cup {0}
  BY <1>2, <1>4
<1>6. Snapshot(r) \in [1 .. r.filled -> B \cup {0}]
  BY <1>3, <1>5
<1>7. r.filled \in Nat
  BY RingFields, CapAssumption
<1> QED
  BY <1>6, <1>7, FunctionIsSeq

\* Appending at most Cap bytes keeps a ring well formed.
LEMMA PushShortFields ==
  ASSUME NEW B, NEW r \in RingOf(B), NEW s \in Seq(B), Len(s) <= Cap
  PROVE  LET n == Len(s)
             w == r.write_pos
             q == PushShort(r, s)
         IN  /\ n \in 0 .. Cap
             /\ q.write_pos \in 0 .. Cap - 1
             /\ q.write_pos = IF w + n < Cap THEN w + n ELSE w + n - Cap
             /\ q.filled \in 0 .. Cap
             /\ q.filled = IF r.filled + n < Cap THEN r.filled + n ELSE Cap
             /\ q.data = CopyIn(r.data, w, s)
             /\ q = [data |-> q.data, write_pos |-> q.write_pos, filled |-> q.filled]
<1> DEFINE n == Len(s)
           w == r.write_pos
           f == r.filled
<1>1. n \in 0 .. Cap
  BY LenProperties, CapAssumption
<1>2. w \in 0 .. Cap - 1 /\ f \in 0 .. Cap
  BY RingFields
<1>3. PushShort(r, s) = [data      |-> CopyIn(r.data, w, s),
                         write_pos |-> (w + n) % Cap,
                         filled    |-> IF f + n < Cap THEN f + n ELSE Cap]
  BY DEF PushShort
<1> HIDE DEF n, w, f
<1>4. (w + n) % Cap = IF w + n < Cap THEN w + n ELSE w + n - Cap
  BY <1>1, <1>2, WrapSum
<1>5. (w + n) % Cap \in 0 .. Cap - 1
  BY <1>1, <1>2, <1>4, CapAssumption
<1>6. (IF f + n < Cap THEN f + n ELSE Cap) \in 0 .. Cap
  BY <1>1, <1>2, CapAssumption
<1> QED
  BY <1>1, <1>3, <1>4, <1>5, <1>6 DEF n, w, f

\* A ring that a short slice is appended to is a ring still.
LEMMA PushShortType ==
  ASSUME NEW B, NEW r \in RingOf(B), NEW s \in Seq(B), Len(s) <= Cap
  PROVE  PushShort(r, s) \in RingOf(B)
<1> DEFINE n == Len(s)
           w == r.write_pos
<1>1. n \in 0 .. Cap /\ w \in 0 .. Cap - 1
  BY PushShortFields, RingFields
<1>2. \A i \in 1 .. n : s[i] \in B
  BY ElementOfSeq
<1>0. r.data \in [Slots -> B \cup {0}]
  BY RingFields DEF Slots
<1>3. \A i \in Slots : r.data[i] \in B \cup {0}
  BY <1>0
<1>4. CopyIn(r.data, w, s) =
        [i \in Slots |-> IF w <= i /\ i < w + n THEN s[i - w + 1]
                         ELSE IF i < n - (Cap - w) THEN s[(Cap - w) + i + 1]
                         ELSE r.data[i]]
  BY DEF CopyIn
<1> HIDE DEF n, w
<1>5. ASSUME NEW i \in Slots
      PROVE  (IF w <= i /\ i < w + n THEN s[i - w + 1]
              ELSE IF i < n - (Cap - w) THEN s[(Cap - w) + i + 1]
              ELSE r.data[i]) \in B \cup {0}
  BY <1>1, <1>2, <1>3, CapAssumption DEF Slots
<1>6. CopyIn(r.data, w, s) \in [Slots -> B \cup {0}]
  BY <1>4, <1>5
<1> QED
  BY <1>6, PushShortFields DEF RingOf, Slots, w

\* Where the k-th byte read back after such an append comes from.
LEMMA PushShortSlots ==
  ASSUME NEW B, NEW r \in RingOf(B), NEW s \in Seq(B), Len(s) <= Cap,
         NEW k \in 1 .. PushShort(r, s).filled, NEW j \in Int,
         j = IF r.filled + Len(s) <= Cap THEN k ELSE r.filled + Len(s) - Cap + k
  PROVE  /\ j <= r.filled => j \in 1 .. r.filled
         /\ Snapshot(PushShort(r, s))[k] =
              IF j <= r.filled THEN Snapshot(r)[j] ELSE s[j - r.filled]
<1> DEFINE n    == Len(s)
           w    == r.write_pos
           f    == r.filled
           q    == PushShort(r, s)
           w2   == q.write_pos
           f2   == q.filled
           old  == Oldest(r)
           old2 == Oldest(q)
           i    == IF old2 + k - 1 < Cap THEN old2 + k - 1 ELSE old2 + k - 1 - Cap
           o    == IF old + j - 1 < Cap THEN old + j - 1 ELSE old + j - 1 - Cap
<1>1. q \in RingOf(B)
  BY PushShortType
<1>2. /\ n \in 0 .. Cap /\ w \in 0 .. Cap - 1 /\ f \in 0 .. Cap
      /\ w2 \in 0 .. Cap - 1 /\ w2 = IF w + n < Cap THEN w + n ELSE w + n - Cap
      /\ f2 \in 0 .. Cap /\ f2 = IF f + n < Cap THEN f + n ELSE Cap
  BY PushShortFields, RingFields
<1>d. q.data = CopyIn(r.data, w, s)
  BY PushShortFields
<1>3. /\ old \in 0 .. Cap - 1 /\ old = IF w < f THEN w + Cap - f ELSE w - f
      /\ old2 \in 0 .. Cap - 1 /\ old2 = IF w2 < f2 THEN w2 + Cap - f2 ELSE w2 - f2
  BY <1>1, OldestSlot
<1>4. k \in 1 .. f2 /\ j = IF f + n <= Cap THEN k ELSE f + n - Cap + k
  OBVIOUS
<1>5. Snapshot(q)[k] = q.data[i]
  BY <1>4 DEF Snapshot
<1>6. j \in 1 .. f => Snapshot(r)[j] = r.data[o]
  BY DEF Snapshot
<1>7. i \in Slots =>
        q.data[i] = IF w <= i /\ i < w + n THEN s[i - w + 1]
                    ELSE IF i < n - (Cap - w) THEN s[(Cap - w) + i + 1]
                    ELSE r.data[i]
  BY <1>d DEF CopyIn
<1> HIDE DEF n, w, f, w2, f2, old, old2
<1>8. i \in Int
  BY <1>2, <1>3, <1>4, CapAssumption
<1> HIDE DEF i
<1>9. /\ i \in 0 .. Cap - 1
      /\ j <= f => j \in 1 .. f /\ i = o /\ ~(w <= i /\ i < w + n) /\ ~(i < n - (Cap - w))
      /\ ~(j <= f) =>
           \/ w <= i /\ i < w + n /\ j - f = i - w + 1
           \/ ~(w <= i) /\ i < n - (Cap - w) /\ j - f = Cap - w + i + 1
  BY SMTT(60), <1>2, <1>3, <1>4, <1>8, CapAssumption DEF i
<1>10. Snapshot(q)[k] = IF j <= f THEN Snapshot(r)[j] ELSE s[j - f]
  BY <1>5, <1>6, <1>7, <1>9 DEF Slots
<1> QED
  BY <1>9, <1>10 DEF f

\* A slice at least as long as the ring goes in as its last Cap bytes.
LEMMA LastOfSlice ==
  ASSUME NEW B, NEW s \in Seq(B), Len(s) >= Cap
  PROVE  LET t == SubSeq(s, Len(s) - Cap + 1, Len(s))
         IN  /\ t \in Seq(B)
             /\ Len(t) = Cap
             /\ \A i \in 1 .. Cap : t[i] = s[Len(s) - Cap + i]
<1> DEFINE n == Len(s)
           m == n - Cap + 1
           t == SubSeq(s, m, n)
<1>1. n \in Nat /\ n >= Cap
  BY LenProperties
<1>2. \A i \in 1 .. n : s[i] \in B
  BY ElementOfSeq
<1> HIDE DEF n
<1>3. m \in Int /\ m \in 1 .. n + 1 /\ m <= n /\ n - m + 1 = Cap
  BY <1>1, CapAssumption
<1>4. \A i \in m .. n : s[i] \in B
  BY <1>1, <1>2, <1>3
<1>5. \A i \in 1 .. Cap : m + i - 1 = n - Cap + i
  BY <1>1, CapAssumption
<1> HIDE DEF m
<1>6. /\ t \in Seq(B)
      /\ Len(t) = Cap
      /\ \A i \in 1 .. Cap : t[i] = s[m + i - 1]
  BY <1>1, <1>3, <1>4, SubSeqProperties
<1> QED
  BY <1>5, <1>6 DEF m, n

\* The whole of that, as sequences.
LEMMA PushShortSnapshot ==
  ASSUME NEW B, NEW r \in RingOf(B), NEW s \in Seq(B), Len(s) <= Cap
  PROVE  Snapshot(PushShort(r, s)) = LastBytes(Snapshot(r) \o s)
<1> DEFINE n == Len(s)
           f == r.filled
           C == B \cup {0}
           before == Snapshot(r)
           after == Snapshot(PushShort(r, s))
           f2 == PushShort(r, s).filled
           both == before \o s
           last == LastBytes(both)
<1>1. /\ f \in 0 .. Cap /\ n \in 0 .. Cap
      /\ f2 \in 0 .. Cap /\ f2 = IF f + n < Cap THEN f + n ELSE Cap
  BY PushShortFields, RingFields
<1>2. before \in Seq(C) /\ Len(before) = f
  BY SnapshotLength
<1>3. after \in Seq(C) /\ Len(after) = f2
  BY PushShortType, SnapshotLength
<1>4. s \in Seq(C)
  BY SeqMonotonic
<1>5. /\ both \in Seq(C)
      /\ Len(both) = f + n
      /\ \A j \in 1 .. f + n : both[j] = IF j <= f THEN before[j] ELSE s[j - f]
  BY <1>2, <1>4, ConcatProperties
<1>6. ASSUME NEW k \in 1 .. f2, NEW j \in Int,
             j = IF f + n <= Cap THEN k ELSE f + n - Cap + k
      PROVE  after[k] = IF j <= f THEN before[j] ELSE s[j - f]
  BY <1>6, PushShortSlots
<1> HIDE DEF n, f, f2, C, before, after, both
<1>7. CASE f + n <= Cap
  <2>1. last = both
    BY <1>5, <1>7 DEF LastBytes
  <2>2. f2 = f + n
    BY <1>1, <1>7, CapAssumption
  <2>3. ASSUME NEW k \in 1 .. f2
        PROVE  after[k] = both[k]
    <3>1. k \in 1 .. f + n /\ k \in Int
      BY <2>2, <1>1
    <3>2. after[k] = IF k <= f THEN before[k] ELSE s[k - f]
      BY <1>6, <1>7, <3>1
    <3> QED
      BY <1>5, <3>1, <3>2
  <2>4. after = both
    BY <1>3, <1>5, <2>2, <2>3, SeqEqual
  <2> QED
    BY <2>1, <2>4 DEF after, both, before
<1>8. CASE ~(f + n <= Cap)
  <2>0. ~(Len(both) <= Cap) /\ Len(both) = f + n
    BY <1>5, <1>8
  <2>1. last = SubSeq(both, Len(both) - Cap + 1, Len(both))
    BY <2>0 DEF LastBytes
  <2>2. f2 = Cap
    BY <1>1, <1>8, CapAssumption
  <2>3. Len(both) >= Cap
    BY <2>0, <1>1, <1>8, CapAssumption
  <2> HIDE DEF last
  <2>4. LET t == SubSeq(both, Len(both) - Cap + 1, Len(both))
        IN  /\ t \in Seq(C) /\ Len(t) = Cap
            /\ \A i \in 1 .. Cap : t[i] = both[Len(both) - Cap + i]
    BY <1>5, <2>3, LastOfSlice
  <2>5. last \in Seq(C) /\ Len(last) = Cap
    BY <2>1, <2>4
  <2>6. \A i \in 1 .. Cap : last[i] = both[Len(both) - Cap + i]
    BY <2>1, <2>4
  <2>7. ASSUME NEW k \in 1 .. Cap
        PROVE  after[k] = last[k]
    <3> DEFINE j == Len(both) - Cap + k
    <3>1. j \in 1 .. f + n /\ j \in Int /\ j = f + n - Cap + k
      BY <1>1, <1>8, <2>0, CapAssumption
    <3>2. last[k] = both[j]
      BY <2>6
    <3> HIDE DEF j
    <3>3. after[k] = IF j <= f THEN before[j] ELSE s[j - f]
      BY <1>6, <1>8, <2>2, <3>1
    <3> QED
      BY <1>5, <3>1, <3>2, <3>3
  <2>8. after = last
    BY <1>3, <2>2, <2>5, <2>7, SeqEqual
  <2> QED
    BY <2>8 DEF after, both, before, last
<1> QED
  BY <1>7, <1>8

\* Before a slice that long, nothing survives.
LEMMA LastOfConcat ==
  ASSUME NEW B, NEW s \in Seq(B), NEW t \in Seq(B), Len(t) >= Cap
  PROVE  LastBytes(s \o t) = SubSeq(t, Len(t) - Cap + 1, Len(t))
<1> DEFINE a == Len(s)
           b == Len(t)
           u == s \o t
           p == SubSeq(u, Len(u) - Cap + 1, Len(u))
           q == SubSeq(t, b - Cap + 1, b)
<1>1. a \in Nat /\ b \in Nat /\ b >= Cap
  BY LenProperties
<1>2. /\ u \in Seq(B)
      /\ Len(u) = a + b
      /\ \A j \in 1 .. a + b : u[j] = IF j <= a THEN s[j] ELSE t[j - a]
  BY ConcatProperties
<1>3. q \in Seq(B) /\ Len(q) = Cap /\ \A i \in 1 .. Cap : q[i] = t[b - Cap + i]
  BY LastOfSlice
<1> HIDE DEF a, b, u
<1>4. Len(u) >= Cap
  BY <1>1, <1>2, CapAssumption
<1>5. p \in Seq(B) /\ Len(p) = Cap /\ \A i \in 1 .. Cap : p[i] = u[Len(u) - Cap + i]
  BY <1>2, <1>4, LastOfSlice
<1>6. ASSUME NEW i \in 1 .. Cap
      PROVE  p[i] = q[i]
  <2> DEFINE j == Len(u) - Cap + i
  <2>1. j \in 1 .. a + b /\ ~(j <= a) /\ j - a = b - Cap + i
    BY <1>1, <1>2, CapAssumption
  <2> QED
    BY <2>1, <1>2, <1>3, <1>5
<1> HIDE DEF p, q
<1>7. p = q
  BY <1>3, <1>5, <1>6, SeqEqual
<1>8. CASE Len(u) = Cap
  <2>1. Len(u) - Cap + 1 = 1 /\ Len(u) <= Cap
    BY <1>8, CapAssumption
  <2>2. p = u
    BY <1>2, <2>1, SubSeqFull DEF p
  <2> QED
    BY <1>7, <2>1, <2>2 DEF LastBytes, u, q, b
<1>9. CASE Len(u) # Cap
  <2>1. ~(Len(u) <= Cap)
    BY <1>1, <1>2, <1>4, <1>9, CapAssumption
  <2> QED
    BY <1>7, <2>1 DEF LastBytes, u, p, q, b
<1> QED
  BY <1>8, <1>9

\* A ring that a long slice is pushed into is rewound first.
LEMMA RewoundRing ==
  ASSUME NEW B, NEW r \in RingOf(B)
  PROVE  /\ [data |-> r.data, write_pos |-> 0, filled |-> Cap] \in RingOf(B)
         /\ [data |-> r.data, write_pos |-> 0, filled |-> Cap].filled = Cap
  BY CapAssumption DEF RingOf, Slots

\* Every slice keeps a ring well formed, one longer than the ring included.
THEOREM PushType ==
  ASSUME NEW B, NEW r \in RingOf(B), NEW s \in Seq(B)
  PROVE  Push(r, s) \in RingOf(B)
<1>1. CASE s = << >>
  BY <1>1 DEF Push
<1>2. CASE s # << >> /\ Len(s) >= Cap
  <2> DEFINE z == [data |-> r.data, write_pos |-> 0, filled |-> Cap]
             t == SubSeq(s, Len(s) - Cap + 1, Len(s))
  <2>1. z \in RingOf(B)
    BY RewoundRing
  <2>3. t \in Seq(B) /\ Len(t) = Cap
    BY <1>2, LastOfSlice
  <2>4. Len(t) <= Cap
    BY <2>3, CapAssumption
  <2>2. Push(r, s) = PushShort(z, t)
    BY <1>2 DEF Push, PushLong
  <2> HIDE DEF z, t
  <2> QED
    BY <2>1, <2>2, <2>3, <2>4, PushShortType
<1>3. CASE s # << >> /\ ~(Len(s) >= Cap)
  <2>1. Len(s) <= Cap
    BY <1>3, LenProperties, CapAssumption
  <2> QED
    BY <1>3, <2>1, PushShortType DEF Push
<1> QED
  BY <1>1, <1>2, <1>3

\* What can be read back is always the last Cap bytes pushed.
THEOREM PushKeepsTheLast ==
  ASSUME NEW B, NEW r \in RingOf(B), NEW s \in Seq(B)
  PROVE  Snapshot(Push(r, s)) = LastBytes(Snapshot(r) \o s)
<1> DEFINE C == B \cup {0}
           n == Len(s)
           f == r.filled
<1>0. /\ s \in Seq(C)
      /\ n \in Nat /\ f \in 0 .. Cap
      /\ Snapshot(r) \in Seq(C) /\ Len(Snapshot(r)) = f
  BY SeqMonotonic, LenProperties, RingFields, SnapshotLength
<1>1. CASE s = << >>
  <2>1. Snapshot(r) \o s = Snapshot(r)
    BY <1>0, <1>1, ConcatEmptySeq
  <2>2. LastBytes(Snapshot(r)) = Snapshot(r)
    BY <1>0, CapAssumption DEF LastBytes
  <2> QED
    BY <1>1, <2>1, <2>2 DEF Push
<1>2. CASE s # << >> /\ Len(s) >= Cap
  <2> DEFINE z == [data |-> r.data, write_pos |-> 0, filled |-> Cap]
             t == SubSeq(s, n - Cap + 1, n)
  <2>1. z \in RingOf(B) /\ z.filled = Cap
    BY RewoundRing
  <2>2. /\ t \in Seq(B) /\ Len(t) = Cap
        /\ \A i \in 1 .. Cap : t[i] = s[n - Cap + i]
    BY <1>2, LastOfSlice
  <2>3. Push(r, s) = PushShort(z, t)
    BY <1>2 DEF Push, PushLong
  <2>4. Snapshot(z) \in Seq(C) /\ Len(Snapshot(z)) = Cap /\ t \in Seq(C)
    BY <2>1, <2>2, SnapshotLength, SeqMonotonic
  <2> HIDE DEF z, t, C, n, f
  <2>5. Snapshot(PushShort(z, t)) = LastBytes(Snapshot(z) \o t)
    BY <2>1, <2>2, PushShortSnapshot, CapAssumption
  <2>6. LastBytes(Snapshot(z) \o t) = t
    <3>1. Len(t) >= Cap /\ Len(t) - Cap + 1 = 1
      BY <2>2, CapAssumption
    <3>2. LastBytes(Snapshot(z) \o t) = SubSeq(t, Len(t) - Cap + 1, Len(t))
      BY <2>4, <3>1, LastOfConcat
    <3>3. SubSeq(t, 1, Len(t)) = t
      BY <2>2, SubSeqFull
    <3> QED
      BY <3>1, <3>2, <3>3
  <2>7. LastBytes(Snapshot(r) \o s) = t
    BY <1>0, <1>2, <2>2, LastOfConcat DEF n, t
  <2> QED
    BY <2>3, <2>5, <2>6, <2>7
<1>3. CASE s # << >> /\ ~(Len(s) >= Cap)
  <2>1. Len(s) <= Cap
    BY <1>0, <1>3, CapAssumption
  <2> QED
    BY <1>3, <2>1, PushShortSnapshot DEF Push
<1> QED
  BY <1>1, <1>2, <1>3

-----------------------------------------------------------------------------
(* The streams of the clients *)

\* The chunks of q, one after the other, are the bytes after position a up to b.
QueueRun(q, a, b) ==
  /\ \A i \in 1 .. Len(q) : q[i] # << >> /\ IsRunAfter(q[i], q[i][1] - 1)
  /\ \A i \in 1 .. Len(q) - 1 : q[i + 1][1] = q[i][1] + Len(q[i])
  /\ q # << >> => q[1][1] = a + 1
  /\ b = IF q = << >> THEN a ELSE q[Len(q)][1] + Len(q[Len(q)]) - 1
  /\ a <= b /\ \A i \in 1 .. Len(q) : q[i][1] + Len(q[i]) <= b + 1

\* One client's stream: its queue q, drain thread d, chunk ch, bytes written rec,
\* position joined j and position owed o.
Stream(q, d, ch, rec, j, o) ==
  /\ d = "none" => rec = << >> /\ j = NotJoined
  /\ d # "none" => j \in Nat /\ IsRunAfter(rec, j)
  /\ d = "write" => ch # << >> /\ IsRunAfter(ch, j + Len(rec))
  /\ d # "write" => ch = << >>
  /\ d \in {"recv", "write"} => QueueRun(q, j + Len(rec) + Len(ch), o)
  /\ d \in {"none", "exited"} => q = << >>

StreamInv ==
  \A c \in Clients :
    Stream(queue[c], drain[c], chunk[c], received[c], joined[c], owed[c])

\* The ring holds the last bytes pushed, and the reader the next ones.
RingInv ==
  /\ ring.filled = IF pushed < Cap THEN pushed ELSE Cap
  /\ IsRunAfter(Snapshot(ring), pushed - ring.filled)
  /\ reader = "fanout" => buf # << >> /\ IsRunAfter(buf, pushed)

\* Who is in the map, and what an ended drain thread leaves behind.
ClientInv ==
  \A c \in Clients :
    /\ caller[c] = "new" <=> drain[c] = "none"
    /\ c \in attached => caller[c] = "attached"
    /\ c \in attached /\ Alive(c) => owed[c] = pushed
    /\ owed[c] <= pushed
    /\ caller[c] = "detached" => drain[c] = "exited"
    /\ drain[c] = "exited" => Written(c) = owed[c] \/ writer[c] = "broken"

IInv == TypeOK /\ RingInv /\ StreamInv /\ ClientInv

-----------------------------------------------------------------------------
(* Runs of the device's output, as sequences *)

\* What a read returns is the run of the device that it should be.
LEMMA RunIsRun ==
  ASSUME NEW a \in Nat, NEW n \in Nat \ {0}
  PROVE  Run(a, n) \in Seq(Nat) /\ Len(Run(a, n)) = n /\ IsRunAfter(Run(a, n), a)
<1>1. Run(a, n) \in [1 .. n -> Nat]
  BY DEF Run
<1>2. Run(a, n) \in Seq(Nat) /\ Len(Run(a, n)) = n
  BY <1>1, FunctionIsSeq
<1> QED
  BY <1>2 DEF Run, IsRunAfter

\* Two runs, the second starting where the first ends, make one run.
LEMMA RunConcat ==
  ASSUME NEW s \in Seq(Nat), NEW t \in Seq(Nat), NEW a \in Int,
         IsRunAfter(s, a), IsRunAfter(t, a + Len(s))
  PROVE  IsRunAfter(s \o t, a)
<1> DEFINE m == Len(s)
           n == Len(t)
<1>1. m \in Nat /\ n \in Nat
  BY LenProperties
<1>2. /\ Len(s \o t) = m + n
      /\ \A i \in 1 .. m + n : (s \o t)[i] = IF i <= m THEN s[i] ELSE t[i - m]
  BY ConcatProperties
<1>3. (\A k \in 1 .. m : s[k] = a + k) /\ (\A k \in 1 .. n : t[k] = a + m + k)
  BY DEF IsRunAfter
<1> HIDE DEF m, n
<1>4. ASSUME NEW i \in 1 .. m + n
      PROVE  (s \o t)[i] = a + i
  <2>1. CASE i <= m
    BY <1>1, <1>2, <1>3, <2>1
  <2>2. CASE ~(i <= m)
    <3>1. i - m \in 1 .. n
      BY <1>1, <2>2
    <3>2. t[i - m] = a + m + (i - m)
      BY <1>3, <3>1
    <3> QED
      BY <1>1, <1>2, <2>2, <3>2
  <2> QED
    BY <2>1, <2>2
<1> QED
  BY <1>2, <1>4 DEF IsRunAfter

\* A prefix of a run is a run from the same position.
LEMMA RunPrefix ==
  ASSUME NEW s \in Seq(Nat), NEW a \in Int, IsRunAfter(s, a), NEW n \in 0 .. Len(s)
  PROVE  SubSeq(s, 1, n) \in Seq(Nat) /\ IsRunAfter(SubSeq(s, 1, n), a)
<1>1. Len(s) \in Nat /\ \A i \in 1 .. Len(s) : s[i] \in Nat
  BY LenProperties, ElementOfSeq
<1>2. \A i \in 1 .. n : s[i] \in Nat
  BY <1>1
<1>3. /\ SubSeq(s, 1, n) \in Seq(Nat)
      /\ Len(SubSeq(s, 1, n)) = IF 1 <= n THEN n - 1 + 1 ELSE 0
      /\ \A i \in 1 .. n - 1 + 1 : SubSeq(s, 1, n)[i] = s[1 + i - 1]
  BY <1>2, SubSeqProperties
<1>4. Len(SubSeq(s, 1, n)) = n /\ \A i \in 1 .. n : SubSeq(s, 1, n)[i] = s[i]
  BY <1>1, <1>3
<1> QED
  BY <1>1, <1>3, <1>4 DEF IsRunAfter

\* The last bytes of a run end where it ends.
LEMMA RunLast ==
  ASSUME NEW s \in Seq(Nat), NEW a \in Int, IsRunAfter(s, a)
  PROVE  /\ LastBytes(s) \in Seq(Nat)
         /\ Len(LastBytes(s)) = IF Len(s) <= Cap THEN Len(s) ELSE Cap
         /\ IsRunAfter(LastBytes(s), a + Len(s) - Len(LastBytes(s)))
<1> DEFINE n == Len(s)
           t == LastBytes(s)
<1>1. n \in Nat /\ \A k \in 1 .. n : s[k] = a + k
  BY LenProperties DEF IsRunAfter
<1>2. CASE n <= Cap
  <2>1. t = s
    BY <1>2 DEF LastBytes
  <2>2. a + n - n = a
    BY <1>1
  <2> QED
    BY <1>2, <2>1, <2>2
<1>3. CASE ~(n <= Cap)
  <2>1. t = SubSeq(s, n - Cap + 1, n) /\ n >= Cap
    BY <1>1, <1>3, CapAssumption DEF LastBytes
  <2>2. t \in Seq(Nat) /\ Len(t) = Cap /\ \A i \in 1 .. Cap : t[i] = s[n - Cap + i]
    BY <2>1, LastOfSlice
  <2> HIDE DEF n, t
  <2>3. \A i \in 1 .. Cap : n - Cap + i \in 1 .. n
    BY <1>1, <2>1, CapAssumption
  <2>4. \A i \in 1 .. Cap : t[i] = a + (n - Cap + i)
    BY <1>1, <2>2, <2>3
  <2>5. \A i \in 1 .. Cap : t[i] = (a + n - Cap) + i
    BY <1>1, <2>4, CapAssumption
  <2>6. IsRunAfter(t, a + n - Len(t))
    BY <2>2, <2>5 DEF IsRunAfter
  <2> QED
    BY <1>3, <2>2, <2>6 DEF n, t
<1> QED
  BY <1>2, <1>3

-----------------------------------------------------------------------------
(* Queues of runs *)

\* The types and lengths of the chunks of a queue.
LEMMA QueueFacts ==
  ASSUME NEW q \in Seq(Seq(Nat))
  PROVE  /\ Len(q) \in Nat
         /\ \A i \in 1 .. Len(q) : q[i] \in Seq(Nat) /\ Len(q[i]) \in Nat
         /\ \A i \in 1 .. Len(q) : q[i] # << >> => Len(q[i]) >= 1 /\ q[i][1] \in Nat
         /\ q # << >> => Len(q) >= 1
         /\ q = << >> => Len(q) = 0
<1>1. Len(q) \in Nat /\ (q # << >> => Len(q) \in Nat \ {0}) /\ Len(<< >>) = 0
  BY LenProperties, EmptySeq
<1>2. \A i \in 1 .. Len(q) : q[i] \in Seq(Nat)
  BY ElementOfSeq
<1>3. \A t \in Seq(Nat) : Len(t) \in Nat /\ (t # << >> => Len(t) \in Nat \ {0})
  BY LenProperties, EmptySeq
<1>4. \A t \in Seq(Nat) : t # << >> => t[1] \in Nat
  BY <1>3, ElementOfSeq
<1> QED
  BY <1>1, <1>2, <1>3, <1>4

\* Taking the first chunk out moves the start of the queue past it.
LEMMA QueueRunTail ==
  ASSUME NEW q \in Seq(Seq(Nat)), q # << >>, NEW a \in Nat, NEW b \in Nat,
         QueueRun(q, a, b)
  PROVE  /\ Head(q) \in Seq(Nat)
         /\ Head(q) # << >>
         /\ IsRunAfter(Head(q), a)
         /\ Tail(q) \in Seq(Seq(Nat))
         /\ QueueRun(Tail(q), a + Len(Head(q)), b)
<1> DEFINE n == Len(q)
           t == Tail(q)
<1>1. n \in Nat /\ n >= 1 /\ \A i \in 1 .. n : q[i] \in Seq(Nat) /\ Len(q[i]) \in Nat
  BY QueueFacts
<1>2. Head(q) = q[1]
  OBVIOUS
<1>3. t \in Seq(Seq(Nat)) /\ Len(t) = n - 1 /\ \A i \in 1 .. n - 1 : t[i] = q[i + 1]
  BY HeadTailProperties
<1>4. /\ \A i \in 1 .. n : q[i] # << >> /\ IsRunAfter(q[i], q[i][1] - 1)
      /\ \A i \in 1 .. n - 1 : q[i + 1][1] = q[i][1] + Len(q[i])
      /\ q[1][1] = a + 1
      /\ b = q[n][1] + Len(q[n]) - 1
  BY DEF QueueRun
<1>a. \A i \in 1 .. n : q[i][1] + Len(q[i]) <= b + 1
  BY DEF QueueRun
<1> HIDE DEF n, t
<1>5. q[1] # << >> /\ IsRunAfter(q[1], a) /\ q[1] \in Seq(Nat) /\ Len(q[1]) \in Nat
  <2>1. 1 \in 1 .. n
    BY <1>1
  <2>2. q[1][1] = a + 1
    BY <1>4
  <2>3. q[1][1] - 1 = a
    BY <2>2
  <2>4. IsRunAfter(q[1], q[1][1] - 1)
    BY <1>4, <2>1
  <2> QED
    BY <1>1, <1>4, <2>1, <2>3, <2>4
<1>6. \A i \in 1 .. Len(t) : t[i] # << >> /\ IsRunAfter(t[i], t[i][1] - 1)
  <2>1. \A i \in 1 .. n - 1 : i + 1 \in 1 .. n
    BY <1>1
  <2> QED
    BY <1>3, <1>4, <2>1
<1>7. \A i \in 1 .. Len(t) - 1 : t[i + 1][1] = t[i][1] + Len(t[i])
  <2>1. \A i \in 1 .. Len(t) - 1 : i \in 1 .. n - 1 /\ i + 1 \in 1 .. n - 1
    BY <1>1, <1>3
  <2> QED
    BY <1>3, <1>4, <2>1
<1>b. \A i \in 1 .. Len(t) : t[i][1] + Len(t[i]) <= b + 1
  <2>1. \A i \in 1 .. n - 1 : i + 1 \in 1 .. n
    BY <1>1
  <2> QED
    BY <1>3, <1>a, <2>1
<1>c. a + Len(q[1]) <= b
  <2> DEFINE x == q[1][1]
             y == Len(q[1])
  <2>0. 1 \in 1 .. n
    BY <1>1
  <2>1. x + y <= b + 1 /\ x = a + 1 /\ y \in Nat
    BY <1>4, <1>5, <1>a, <2>0
  <2> HIDE DEF x, y
  <2>2. a + y <= b
    BY <2>1
  <2> QED
    BY <2>2 DEF y
<1>8. CASE n = 1
  <2>1. t = << >>
    BY <1>3, <1>8, EmptySeq
  <2>2. b = a + Len(q[1])
    BY <1>4, <1>5, <1>8
  <2> QED
    BY <1>2, <1>3, <1>5, <1>6, <1>7, <1>b, <1>c, <2>1, <2>2 DEF QueueRun, t
<1>9. CASE n # 1
  <2>1. n - 1 \in 1 .. n - 1 /\ 1 \in 1 .. n - 1 /\ 1 + 1 = 2 /\ n - 1 + 1 = n
    BY <1>1, <1>9
  <2>2. t[1] = q[2] /\ t[n - 1] = q[n]
    BY <1>3, <2>1
  <2>3. t # << >>
    BY <1>3, <2>1, EmptySeq
  <2>4. q[2][1] = q[1][1] + Len(q[1])
    BY <1>4, <2>1
  <2>5. t[1][1] = a + Len(q[1]) + 1
    <3>1. q[1][1] = a + 1 /\ Len(q[1]) \in Nat
      BY <1>4, <1>5
    <3> DEFINE x == q[1][1]
               y == Len(q[1])
    <3> HIDE DEF x, y
    <3>2. x = a + 1 /\ y \in Nat
      BY <3>1 DEF x, y
    <3>3. x + y = a + y + 1
      BY <3>2
    <3>4. q[2][1] = x + y
      BY <2>4 DEF x, y
    <3> QED
      BY <2>2, <3>3, <3>4 DEF y
  <2>6. b = t[Len(t)][1] + Len(t[Len(t)]) - 1
    BY <1>3, <1>4, <2>2
  <2> QED
    BY <1>2, <1>3, <1>5, <1>6, <1>7, <1>b, <1>c, <2>3, <2>5, <2>6 DEF QueueRun, t
<1> QED
  BY <1>8, <1>9

\* Appending the chunk that follows moves the end of the queue to its end.
LEMMA QueueRunAppend ==
  ASSUME NEW q \in Seq(Seq(Nat)), NEW a \in Nat, NEW b \in Nat, QueueRun(q, a, b),
         NEW s \in Seq(Nat), s # << >>, IsRunAfter(s, b)
  PROVE  Append(q, s) \in Seq(Seq(Nat)) /\ QueueRun(Append(q, s), a, b + Len(s))
<1> DEFINE n == Len(q)
           t == Append(q, s)
<1>1. n \in Nat /\ \A i \in 1 .. n : q[i] \in Seq(Nat) /\ Len(q[i]) \in Nat
  BY QueueFacts
<1>2. /\ t \in Seq(Seq(Nat)) /\ t # << >> /\ Len(t) = n + 1
      /\ \A i \in 1 .. n : t[i] = q[i]
      /\ t[n + 1] = s
  BY AppendProperties
<1>3. Len(s) \in Nat /\ Len(s) >= 1 /\ s[1] = b + 1
  <2>1. Len(s) \in Nat \ {0}
    BY EmptySeq
  <2>2. 1 \in 1 .. Len(s)
    BY <2>1
  <2> QED
    BY <2>1, <2>2 DEF IsRunAfter
<1>4. /\ \A i \in 1 .. n : q[i] # << >> /\ IsRunAfter(q[i], q[i][1] - 1)
      /\ \A i \in 1 .. n - 1 : q[i + 1][1] = q[i][1] + Len(q[i])
      /\ q # << >> => q[1][1] = a + 1
      /\ b = IF q = << >> THEN a ELSE q[n][1] + Len(q[n]) - 1
  BY DEF QueueRun
<1>a. a <= b /\ \A i \in 1 .. n : q[i][1] + Len(q[i]) <= b + 1
  BY DEF QueueRun
<1>5. /\ q # << >> => n >= 1
      /\ q = << >> => n = 0
      /\ \A i \in 1 .. n : q[i][1] \in Nat
  BY <1>4, QueueFacts
<1> HIDE DEF n, t
<1>6. \A i \in 1 .. Len(t) : t[i] # << >> /\ IsRunAfter(t[i], t[i][1] - 1)
  <2>1. b + 1 - 1 = b
    OBVIOUS
  <2>2. s # << >> /\ IsRunAfter(s, s[1] - 1)
    BY <1>3, <2>1
  <2>3. \A i \in 1 .. n + 1 : i \in 1 .. n \/ i = n + 1
    BY <1>1
  <2> QED
    BY <1>2, <1>4, <2>2, <2>3
<1>7. \A i \in 1 .. Len(t) - 1 : t[i + 1][1] = t[i][1] + Len(t[i])
  <2> SUFFICES ASSUME NEW i \in 1 .. n
               PROVE  t[i + 1][1] = t[i][1] + Len(t[i])
    BY <1>1, <1>2
  <2>1. CASE i \in 1 .. n - 1
    <3>1. i + 1 \in 1 .. n
      BY <1>1, <2>1
    <3> QED
      BY <1>2, <1>4, <2>1, <3>1
  <2>2. CASE i = n
    <3>1. q # << >> /\ n \in 1 .. n
      BY <1>1, <1>5, <2>2
    <3>2. b = q[n][1] + Len(q[n]) - 1 /\ q[n][1] \in Nat /\ Len(q[n]) \in Nat
      BY <1>1, <1>4, <1>5, <3>1
    <3> DEFINE x == q[n][1]
               y == Len(q[n])
    <3> HIDE DEF x, y
    <3>4. b = x + y - 1 /\ x \in Nat /\ y \in Nat
      BY <3>2 DEF x, y
    <3>5. b + 1 = x + y
      BY <3>4
    <3>3. b + 1 = q[n][1] + Len(q[n])
      BY <3>5 DEF x, y
    <3> QED
      BY <1>2, <1>3, <2>2, <3>1, <3>3
  <2> QED
    BY <1>1, <2>1, <2>2
<1>8. t[1][1] = a + 1
  <2>1. CASE q = << >>
    BY <1>2, <1>3, <1>4, <1>5, <2>1
  <2>2. CASE q # << >>
    <3>1. 1 \in 1 .. n
      BY <1>1, <1>5, <2>2
    <3> QED
      BY <1>2, <1>4, <2>2, <3>1
  <2> QED
    BY <2>1, <2>2
<1>9. b + Len(s) = t[Len(t)][1] + Len(t[Len(t)]) - 1
  BY <1>2, <1>3
<1>b. a <= b + Len(s)
  BY <1>3, <1>a
<1>c. \A i \in 1 .. Len(t) : t[i][1] + Len(t[i]) <= (b + Len(s)) + 1
  <2> SUFFICES ASSUME NEW i \in 1 .. n + 1
               PROVE  t[i][1] + Len(t[i]) <= (b + Len(s)) + 1
    BY <1>2
  <2>1. CASE i \in 1 .. n
    <3> DEFINE x == q[i][1]
               y == Len(q[i])
    <3>1. x \in Nat /\ y \in Nat /\ x + y <= b + 1
      BY <1>1, <1>5, <1>a, <2>1
    <3>2. t[i] = q[i]
      BY <1>2, <2>1
    <3> HIDE DEF x, y
    <3>3. x + y <= (b + Len(s)) + 1
      BY <1>3, <3>1
    <3> QED
      BY <3>2, <3>3 DEF x, y
  <2>2. CASE i = n + 1
    BY <1>2, <1>3, <2>2
  <2> QED
    BY <1>1, <2>1, <2>2
<1> QED
  BY <1>2, <1>6, <1>7, <1>8, <1>9, <1>b, <1>c DEF QueueRun, t

-----------------------------------------------------------------------------
(* One client's stream *)

StreamType(q, d, ch, rec, j, o) ==
  /\ q \in Seq(Seq(Nat))
  /\ d \in {"none", "recv", "write", "exited"}
  /\ ch \in Seq(Nat)
  /\ rec \in Seq(Nat)
  /\ j \in Nat \cup {NotJoined}
  /\ o \in Nat

\* The drain thread takes the next chunk out of its queue.
LEMMA StreamRecv ==
  ASSUME NEW q, NEW ch, NEW rec, NEW j, NEW o,
         StreamType(q, "recv", ch, rec, j, o), Stream(q, "recv", ch, rec, j, o), q # << >>
  PROVE  /\ StreamType(Tail(q), "write", Head(q), rec, j, o)
         /\ Stream(Tail(q), "write", Head(q), rec, j, o)
<1>1. j \in Nat /\ Len(rec) \in Nat /\ ch = << >> /\ Len(ch) = 0
  BY LenProperties, EmptySeq DEF Stream, StreamType
<1>2. j + Len(rec) + Len(ch) = j + Len(rec) /\ j + Len(rec) \in Nat
  BY <1>1
<1>3. QueueRun(q, j + Len(rec), o)
  BY <1>2 DEF Stream
<1>4. /\ Head(q) \in Seq(Nat) /\ Head(q) # << >> /\ Tail(q) \in Seq(Seq(Nat))
      /\ IsRunAfter(Head(q), j + Len(rec))
      /\ QueueRun(Tail(q), j + Len(rec) + Len(Head(q)), o)
  BY <1>2, <1>3, QueueRunTail DEF StreamType
<1> QED
  BY <1>1, <1>4 DEF Stream, StreamType

\* The drain thread has written its chunk.
LEMMA StreamWrite ==
  ASSUME NEW q, NEW ch, NEW rec, NEW j, NEW o,
         StreamType(q, "write", ch, rec, j, o), Stream(q, "write", ch, rec, j, o)
  PROVE  /\ StreamType(q, "recv", << >>, rec \o ch, j, o)
         /\ Stream(q, "recv", << >>, rec \o ch, j, o)
<1>1. /\ j \in Nat /\ rec \in Seq(Nat) /\ ch \in Seq(Nat)
      /\ IsRunAfter(rec, j) /\ IsRunAfter(ch, j + Len(rec))
      /\ QueueRun(q, j + Len(rec) + Len(ch), o)
  BY DEF Stream, StreamType
<1>2. rec \o ch \in Seq(Nat) /\ Len(rec \o ch) = Len(rec) + Len(ch)
  BY <1>1, ConcatProperties
<1>3. IsRunAfter(rec \o ch, j)
  BY <1>1, RunConcat
<1>4. j + Len(rec \o ch) + Len(<< >>) = j + Len(rec) + Len(ch)
  BY <1>1, <1>2, LenProperties, EmptySeq
<1> QED
  BY <1>1, <1>2, <1>3, <1>4, EmptySeq DEF Stream, StreamType

\* The thread ends with a prefix of its chunk written.
LEMMA StreamFail ==
  ASSUME NEW q, NEW ch, NEW rec, NEW j, NEW o, NEW n \in 0 .. Len(ch),
         StreamType(q, "write", ch, rec, j, o), Stream(q, "write", ch, rec, j, o)
  PROVE  /\ StreamType(<< >>, "exited", << >>, rec \o SubSeq(ch, 1, n), j, o)
         /\ Stream(<< >>, "exited", << >>, rec \o SubSeq(ch, 1, n), j, o)
<1>1. /\ j \in Nat /\ rec \in Seq(Nat) /\ ch \in Seq(Nat)
      /\ IsRunAfter(rec, j) /\ IsRunAfter(ch, j + Len(rec))
  BY DEF Stream, StreamType
<1>2. j + Len(rec) \in Int
  BY <1>1, LenProperties
<1>3. SubSeq(ch, 1, n) \in Seq(Nat) /\ IsRunAfter(SubSeq(ch, 1, n), j + Len(rec))
  BY <1>1, <1>2, RunPrefix
<1> DEFINE t == SubSeq(ch, 1, n)
<1> HIDE DEF t
<1>5. t \in Seq(Nat) /\ IsRunAfter(t, j + Len(rec))
  BY <1>3 DEF t
<1>6. rec \o t \in Seq(Nat) /\ IsRunAfter(rec \o t, j)
  BY <1>1, <1>5, RunConcat, ConcatProperties
<1>4. rec \o SubSeq(ch, 1, n) \in Seq(Nat) /\ IsRunAfter(rec \o SubSeq(ch, 1, n), j)
  BY <1>6 DEF t
<1> QED
  BY <1>1, <1>4, EmptySeq DEF Stream, StreamType

\* The thread ends with nothing left to write.
LEMMA StreamEnd ==
  ASSUME NEW ch, NEW rec, NEW j, NEW o,
         StreamType(<< >>, "recv", ch, rec, j, o), Stream(<< >>, "recv", ch, rec, j, o)
  PROVE  /\ StreamType(<< >>, "exited", ch, rec, j, o)
         /\ Stream(<< >>, "exited", ch, rec, j, o)
         /\ j + Len(rec) = o
<1>1. j \in Nat /\ Len(rec) \in Nat /\ ch = << >> /\ Len(ch) = 0
  BY LenProperties, EmptySeq DEF Stream, StreamType
<1>2. o = j + Len(rec) + Len(ch)
  BY DEF Stream, QueueRun
<1> QED
  BY <1>1, <1>2 DEF Stream, StreamType

\* A running client is queued the chunk that follows what it is owed.
LEMMA StreamFanOut ==
  ASSUME NEW q, NEW d \in {"recv", "write"}, NEW ch, NEW rec, NEW j, NEW o,
         StreamType(q, d, ch, rec, j, o), Stream(q, d, ch, rec, j, o),
         NEW s \in Seq(Nat), s # << >>, IsRunAfter(s, o)
  PROVE  /\ StreamType(Append(q, s), d, ch, rec, j, o + Len(s))
         /\ Stream(Append(q, s), d, ch, rec, j, o + Len(s))
<1> DEFINE a == j + Len(rec) + Len(ch)
<1>1. j \in Nat /\ Len(rec) \in Nat /\ Len(ch) \in Nat /\ Len(s) \in Nat /\ o \in Nat
  BY LenProperties DEF Stream, StreamType
<1>2. /\ a \in Nat /\ o + Len(s) \in Nat
      /\ q \in Seq(Seq(Nat))
      /\ QueueRun(q, a, o)
  <2>1. a \in Nat /\ o + Len(s) \in Nat
    BY <1>1
  <2>2. q \in Seq(Seq(Nat))
    BY DEF StreamType
  <2>3. QueueRun(q, j + Len(rec) + Len(ch), o)
    BY DEF Stream
  <2> QED
    BY <2>1, <2>2, <2>3
<1> HIDE DEF a
<1>3. Append(q, s) \in Seq(Seq(Nat)) /\ QueueRun(Append(q, s), a, o + Len(s))
  BY <1>1, <1>2, QueueRunAppend
<1> QED
  BY <1>2, <1>3 DEF Stream, StreamType, a

\* A client starts with what the ring holds, if anything.
LEMMA StreamStart ==
  ASSUME NEW h \in Seq(Nat), NEW p \in Nat, Len(h) <= p, IsRunAfter(h, p - Len(h)),
         NEW rec, rec = << >>, NEW ch, ch = << >>,
         NEW q, q = IF h = << >> THEN << >> ELSE <<h>>
  PROVE  /\ StreamType(q, "recv", ch, rec, p - Len(h), p)
         /\ Stream(q, "recv", ch, rec, p - Len(h), p)
<1> DEFINE j == p - Len(h)
<1>1. Len(h) \in Nat /\ j \in Nat /\ j + Len(h) = p /\ Len(<< >>) = 0
  BY LenProperties, EmptySeq
<1>2. /\ << >> \in Seq(Nat)
      /\ IsRunAfter(<< >>, j)
  BY <1>1, EmptySeq DEF IsRunAfter
<1>3. << >> \in Seq(Seq(Nat)) /\ QueueRun(<< >>, j, j)
  BY EmptySeq DEF QueueRun
<1>4. q \in Seq(Seq(Nat)) /\ QueueRun(q, j, p)
  <2>1. CASE h = << >>
    BY <1>1, <1>3, <2>1
  <2>2. CASE h # << >>
    <3>1. Append(<< >>, h) \in Seq(Seq(Nat)) /\ QueueRun(Append(<< >>, h), j, j + Len(h))
      BY <1>1, <1>3, <2>2, QueueRunAppend
    <3>2. Append(<< >>, h) = <<h>>
      OBVIOUS
    <3> QED
      BY <1>1, <2>2, <3>1, <3>2
  <2> QED
    BY <2>1, <2>2
<1>5. j + Len(rec) + Len(ch) = j
  BY <1>1
<1> QED
  BY <1>1, <1>2, <1>4, <1>5 DEF Stream, StreamType

-----------------------------------------------------------------------------
(* The ring *)

\* Publishing the reader's slice keeps the ring a run that ends at `pushed'.
LEMMA RingPush ==
  ASSUME NEW r \in RingOf(Nat), NEW p \in Nat,
         r.filled = IF p < Cap THEN p ELSE Cap,
         IsRunAfter(Snapshot(r), p - r.filled),
         NEW s \in Seq(Nat), s # << >>, IsRunAfter(s, p)
  PROVE  LET t == Push(r, s)
         IN  /\ t \in RingOf(Nat)
             /\ t.filled = IF p + Len(s) < Cap THEN p + Len(s) ELSE Cap
             /\ IsRunAfter(Snapshot(t), (p + Len(s)) - t.filled)
<1> DEFINE t == Push(r, s)
           h == Snapshot(r)
           f == r.filled
           n == Len(s)
           u == h \o s
<1>0. \A r2 \in RingOf(Nat) : Snapshot(r2) \in Seq(Nat) /\ Len(Snapshot(r2)) = r2.filled
                                /\ r2.filled \in Nat
  <2>1. Nat \cup {0} = Nat
    OBVIOUS
  <2> QED
    BY <2>1, SnapshotLength, RingFields, CapAssumption
<1>1. t \in RingOf(Nat) /\ Snapshot(t) = LastBytes(u)
  BY PushType, PushKeepsTheLast
<1>2. /\ h \in Seq(Nat) /\ Len(h) = f /\ f \in Nat
      /\ Snapshot(t) \in Seq(Nat) /\ Len(Snapshot(t)) = t.filled /\ t.filled \in Nat
      /\ n \in Nat
  BY <1>0, <1>1, LenProperties
<1> HIDE DEF t, h
<1>3. u \in Seq(Nat) /\ Len(u) = f + n
  <2>1. u \in Seq(Nat) /\ Len(u) = Len(h) + Len(s)
    BY <1>2, ConcatProperties
  <2> QED
    BY <1>2, <2>1
<1>4. p - f \in Int /\ (p - f) + f = p
  BY <1>2
<1>5. IsRunAfter(u, p - f)
  BY <1>2, <1>4, RunConcat DEF h
<1> HIDE DEF u
<1>6. /\ Len(LastBytes(u)) = IF Len(u) <= Cap THEN Len(u) ELSE Cap
      /\ IsRunAfter(LastBytes(u), (p - f) + Len(u) - Len(LastBytes(u)))
  BY <1>3, <1>4, <1>5, RunLast
<1>7. Len(LastBytes(u)) = t.filled
  BY <1>1, <1>2
<1> DEFINE g == t.filled
<1> HIDE DEF f, n, g
<1>8. g = IF p + n < Cap THEN p + n ELSE Cap
  <2>1. g = IF f + n <= Cap THEN f + n ELSE Cap
    BY <1>3, <1>6, <1>7 DEF g
  <2>2. g \in Nat /\ f \in Nat /\ n \in Nat /\ f = IF p < Cap THEN p ELSE Cap
    BY <1>2 DEF f, n, g
  <2> QED
    BY <2>1, <2>2, CapAssumption
<1>9. (p - f) + Len(u) - Len(LastBytes(u)) = (p + n) - g
  <2>1. Len(u) = f + n /\ Len(LastBytes(u)) = g
    BY <1>3, <1>7 DEF g
  <2>2. g \in Nat /\ f \in Nat /\ n \in Nat
    BY <1>2 DEF f, n, g
  <2>3. (p - f) + (f + n) - g = (p + n) - g
    BY <2>2
  <2> QED
    BY <2>1, <2>3
<1> QED
  BY <1>1, <1>6, <1>8, <1>9 DEF t, n, g, u

-----------------------------------------------------------------------------
(* The invariant *)

\* TypeOK, of one client.
LEMMA StreamsAreTyped ==
  ASSUME TypeOK, NEW c \in Clients
  PROVE  StreamType(queue[c], drain[c], chunk[c], received[c], joined[c], owed[c])
  BY DEF TypeOK, StreamType

\* A port that has just been opened satisfies the invariant.
THEOREM InitIInv == PortInit => IInv
<1> SUFFICES ASSUME PortInit PROVE IInv
  OBVIOUS
<1>1. NewRing \in RingOf(Nat) /\ NewRing.filled = 0
  BY CapAssumption DEF NewRing, RingOf, Slots
<1>2. Snapshot(NewRing) \in Seq(Nat \cup {0}) /\ Len(Snapshot(NewRing)) = 0
  BY <1>1, SnapshotLength
<1>3. TypeOK
  BY <1>1, EmptySeq DEF PortInit, TypeOK
<1>4. RingInv
  <2>1. 0 < Cap
    BY CapAssumption
  <2> QED
    BY <1>1, <1>2, <2>1 DEF PortInit, RingInv, IsRunAfter
<1>5. StreamInv
  BY DEF PortInit, StreamInv, Stream
<1>6. ClientInv
  BY DEF PortInit, ClientInv, Alive
<1> QED
  BY <1>3, <1>4, <1>5, <1>6 DEF IInv

\* A step that leaves the streams of the clients, the ring and the reader's slice alone.
LEMMA FrameStream ==
  ASSUME StreamInv, UNCHANGED <<queue, drain, chunk, received, joined, owed>>
  PROVE  StreamInv'
  BY DEF StreamInv

\* A step that leaves the ring alone, and does not hand the reader a new slice.
LEMMA FrameRing ==
  ASSUME RingInv, UNCHANGED <<ring, pushed, buf>>, reader' # "fanout" \/ reader' = reader
  PROVE  RingInv'
  BY DEF RingInv

\* A step of one client leaves the others' streams alone.
LEMMA OneStream ==
  ASSUME TypeOK, StreamInv, NEW c \in Clients,
         Stream(queue'[c], drain'[c], chunk'[c], received'[c], joined'[c], owed'[c]),
         \A d \in Clients \ {c} :
           /\ queue'[d] = queue[d] /\ drain'[d] = drain[d] /\ chunk'[d] = chunk[d]
           /\ received'[d] = received[d] /\ joined'[d] = joined[d] /\ owed'[d] = owed[d]
  PROVE  StreamInv'
  BY DEF StreamInv

\* The steps of the reader thread that do not touch the clients.
LEMMA ReaderStep ==
  ASSUME IInv, ReaderCheck \/ ReaderRead \/ ReaderTick \/ ReaderFatal
  PROVE  IInv'
<1>1. CASE ReaderCheck \/ ReaderTick \/ ReaderFatal
  <2>1. TypeOK'
    BY <1>1 DEF IInv, TypeOK, ReaderCheck, ReaderTick, ReaderFatal, drainVars
  <2>2. RingInv'
    BY <1>1, FrameRing DEF IInv, ReaderCheck, ReaderTick, ReaderFatal
  <2>3. StreamInv'
    BY <1>1, FrameStream DEF IInv, ReaderCheck, ReaderTick, ReaderFatal, drainVars
  <2>4. ClientInv'
    BY <1>1 DEF IInv, ClientInv, Alive, Written, ReaderCheck, ReaderTick, ReaderFatal,
                drainVars
  <2> QED
    BY <2>1, <2>2, <2>3, <2>4 DEF IInv
<1>2. CASE ReaderRead
  <2>1. PICK n \in 1 .. MaxRead : buf' = Run(pushed, n)
    BY <1>2 DEF ReaderRead
  <2>2. buf' \in Seq(Nat) /\ buf' # << >> /\ IsRunAfter(buf', pushed)
    <3>1. n \in Nat \ {0} /\ pushed \in Nat
      BY PortAssumption DEF IInv, TypeOK
    <3>2. /\ Run(pushed, n) \in Seq(Nat)
          /\ Len(Run(pushed, n)) = n
          /\ IsRunAfter(Run(pushed, n), pushed)
      BY <3>1, RunIsRun
    <3> QED
      BY <2>1, <3>1, <3>2, EmptySeq
  <2>3. TypeOK'
    BY <1>2, <2>2 DEF IInv, TypeOK, ReaderRead, drainVars
  <2>4. RingInv'
    BY <1>2, <2>2 DEF IInv, RingInv, ReaderRead
  <2>5. StreamInv'
    BY <1>2, FrameStream DEF IInv, ReaderRead, drainVars
  <2>6. ClientInv'
    BY <1>2 DEF IInv, ClientInv, Alive, Written, ReaderRead, drainVars
  <2> QED
    BY <2>3, <2>4, <2>5, <2>6 DEF IInv
<1> QED
  BY <1>1, <1>2

\* The reader's step under the clients lock: push and fan-out.
LEMMA FanOutStep ==
  ASSUME IInv, ReaderFanOut
  PROVE  IInv'
<1> DEFINE n == Len(buf)
           kept == {c \in attached : ~Refuses(c)}
<1>1. /\ reader = "fanout" /\ reader' = "check" /\ buf' = << >>
      /\ ring' = Push(ring, buf) /\ pushed' = pushed + n /\ attached' = kept
      /\ queue' = [c \in Clients |-> IF c \in kept THEN Append(queue[c], buf) ELSE queue[c]]
      /\ owed' = [c \in Clients |-> IF c \in kept THEN pushed + n ELSE owed[c]]
      /\ UNCHANGED <<drain, chunk, writer, received, joined, caller, closing>>
  BY DEF ReaderFanOut, FanOut
<1>2. /\ buf \in Seq(Nat) /\ buf # << >> /\ IsRunAfter(buf, pushed)
      /\ n \in Nat /\ pushed \in Nat /\ ring \in RingOf(Nat)
  BY <1>1, LenProperties DEF IInv, TypeOK, RingInv
<1>3. /\ Push(ring, buf) \in RingOf(Nat)
      /\ Push(ring, buf).filled = IF pushed + n < Cap THEN pushed + n ELSE Cap
      /\ IsRunAfter(Snapshot(Push(ring, buf)), (pushed + n) - Push(ring, buf).filled)
  BY <1>2, RingPush DEF IInv, RingInv
<1>4. ASSUME NEW c \in kept
      PROVE  /\ c \in Clients /\ drain[c] \in {"recv", "write"} /\ owed[c] = pushed
             /\ Append(queue[c], buf) \in Seq(Seq(Nat))
             /\ Stream(Append(queue[c], buf), drain[c], chunk[c], received[c], joined[c],
                       pushed + n)
  <2>1. c \in Clients /\ caller[c] = "attached" /\ drain[c] # "exited"
    BY DEF IInv, TypeOK, ClientInv, Refuses
  <2>2. drain[c] \in {"recv", "write"}
    BY <2>1 DEF IInv, TypeOK, ClientInv
  <2>3. owed[c] = pushed
    BY <2>1, <2>2 DEF IInv, ClientInv, Alive
  <2>4. /\ StreamType(queue[c], drain[c], chunk[c], received[c], joined[c], pushed)
        /\ Stream(queue[c], drain[c], chunk[c], received[c], joined[c], pushed)
    BY <2>1, <2>3, StreamsAreTyped DEF IInv, StreamInv
  <2>5. /\ StreamType(Append(queue[c], buf), drain[c], chunk[c], received[c], joined[c],
                      pushed + n)
        /\ Stream(Append(queue[c], buf), drain[c], chunk[c], received[c], joined[c],
                  pushed + n)
    BY <1>2, <2>2, <2>4, StreamFanOut
  <2> QED
    BY <2>1, <2>2, <2>3, <2>5 DEF StreamType
<1> HIDE DEF n
<1>5. TypeOK'
  <2>1. queue' \in [Clients -> Seq(Seq(Nat))] /\ owed' \in [Clients -> Nat]
    BY <1>1, <1>2, <1>4 DEF IInv, TypeOK
  <2>2. kept \subseteq Clients /\ pushed + n \in Nat /\ << >> \in Seq(Nat)
    BY <1>2, EmptySeq DEF IInv, TypeOK
  <2> QED
    BY <1>1, <1>3, <2>1, <2>2 DEF IInv, TypeOK
<1>6. RingInv'
  <2> DEFINE t == Push(ring, buf)
             m == pushed + n
  <2>1. ring' = t /\ pushed' = m
    BY <1>1
  <2>2. t.filled = (IF m < Cap THEN m ELSE Cap) /\ IsRunAfter(Snapshot(t), m - t.filled)
    BY <1>3
  <2> HIDE DEF t, m
  <2>3. /\ ring'.filled = IF pushed' < Cap THEN pushed' ELSE Cap
        /\ IsRunAfter(Snapshot(ring'), pushed' - ring'.filled)
    BY <2>1, <2>2
  <2> QED
    BY <1>1, <2>3 DEF RingInv
<1>7. StreamInv'
  <2> SUFFICES ASSUME NEW c \in Clients
               PROVE  Stream(queue'[c], drain'[c], chunk'[c], received'[c], joined'[c],
                             owed'[c])
    BY DEF StreamInv
  <2>1. CASE c \in kept
    BY <1>1, <1>4, <2>1
  <2>2. CASE c \notin kept
    BY <1>1, <2>2 DEF IInv, StreamInv
  <2> QED
    BY <2>1, <2>2
<1>8. ClientInv'
  <2> SUFFICES ASSUME NEW c \in Clients
               PROVE  /\ caller'[c] = "new" <=> drain'[c] = "none"
                      /\ c \in attached' => caller'[c] = "attached"
                      /\ c \in attached' /\ drain'[c] \in {"recv", "write"} =>
                           owed'[c] = pushed'
                      /\ owed'[c] <= pushed'
                      /\ caller'[c] = "detached" => drain'[c] = "exited"
                      /\ drain'[c] = "exited" =>
                           joined'[c] + Len(received'[c]) = owed'[c] \/ writer'[c] = "broken"
    BY DEF ClientInv, Alive, Written
  <2>0. owed'[c] <= pushed'
    <3>1. owed[c] \in Nat /\ pushed \in Nat /\ n \in Nat /\ owed[c] <= pushed
      BY <1>2 DEF IInv, TypeOK, ClientInv
    <3>2. owed[c] <= pushed + n /\ pushed + n <= pushed + n
      BY <3>1
    <3>3. owed'[c] \in {owed[c], pushed + n} /\ pushed' = pushed + n
      BY <1>1, <1>4
    <3> QED
      BY <3>2, <3>3
  <2>1. CASE c \in kept
    BY <1>1, <1>4, <2>0, <2>1 DEF IInv, ClientInv
  <2>2. CASE c \notin kept
    BY <1>1, <2>0, <2>2 DEF IInv, ClientInv, Alive, Written
  <2> QED
    BY <2>1, <2>2
<1> QED
  BY <1>5, <1>6, <1>7, <1>8 DEF IInv

\* attach_client: the snapshot the queue is seeded with ends at `pushed'.
LEMMA AttachStep ==
  ASSUME IInv, NEW c \in Clients, Attach(c)
  PROVE  IInv'
<1> DEFINE h == Snapshot(ring)
           j == pushed - Len(h)
<1>1. /\ caller[c] = "new"
      /\ caller' = [caller EXCEPT ![c] = "attached"]
      /\ drain' = [drain EXCEPT ![c] = "recv"]
      /\ queue' = [queue EXCEPT ![c] = Seed]
      /\ attached' = attached \cup {c}
      /\ joined' = [joined EXCEPT ![c] = j]
      /\ owed' = [owed EXCEPT ![c] = pushed]
      /\ UNCHANGED <<reader, buf, ring, pushed, chunk, writer, received, closing>>
  BY DEF Attach, readerVars
<1>2. /\ h \in Seq(Nat) /\ Len(h) \in Nat /\ Len(h) <= pushed /\ pushed \in Nat
      /\ IsRunAfter(h, pushed - Len(h))
  <2>1. Nat \cup {0} = Nat
    OBVIOUS
  <2>2. h \in Seq(Nat) /\ Len(h) = ring.filled
    BY <2>1, SnapshotLength DEF IInv, TypeOK
  <2> QED
    BY <2>2, LenProperties DEF IInv, TypeOK, RingInv
<1>3. drain[c] = "none" /\ received[c] = << >> /\ chunk[c] = << >> /\ c \notin attached
  <2>1. drain[c] = "none"
    BY <1>1 DEF IInv, ClientInv
  <2>2. Stream(queue[c], drain[c], chunk[c], received[c], joined[c], owed[c])
    BY DEF IInv, StreamInv
  <2>3. c \notin attached
    BY <1>1 DEF IInv, ClientInv
  <2> QED
    BY <2>1, <2>2, <2>3 DEF Stream
<1>4. /\ StreamType(Seed, "recv", chunk[c], received[c], j, pushed)
      /\ Stream(Seed, "recv", chunk[c], received[c], j, pushed)
  <2>1. Seed = IF h = << >> THEN << >> ELSE <<h>>
    BY DEF Seed
  <2> HIDE DEF h
  <2> QED
    BY <1>2, <1>3, <2>1, StreamStart
<1>5. Seed \in Seq(Seq(Nat)) /\ j \in Nat \cup {NotJoined}
  BY <1>4 DEF StreamType
<1> HIDE DEF j
<1>6. TypeOK'
  BY <1>1, <1>2, <1>5 DEF IInv, TypeOK
<1>7. RingInv'
  BY <1>1, FrameRing DEF IInv
<1>8. StreamInv'
  <2>1. /\ queue'[c] = Seed /\ drain'[c] = "recv" /\ chunk'[c] = chunk[c]
        /\ received'[c] = received[c] /\ joined'[c] = j /\ owed'[c] = pushed
    BY <1>1 DEF IInv, TypeOK
  <2>2. \A d \in Clients \ {c} :
           /\ queue'[d] = queue[d] /\ drain'[d] = drain[d] /\ chunk'[d] = chunk[d]
           /\ received'[d] = received[d] /\ joined'[d] = joined[d] /\ owed'[d] = owed[d]
    BY <1>1 DEF IInv, TypeOK
  <2> QED
    BY <1>4, <2>1, <2>2, OneStream DEF IInv
<1>9. ClientInv'
  BY <1>1 DEF IInv, TypeOK, ClientInv, Alive, Written
<1> QED
  BY <1>6, <1>7, <1>8, <1>9 DEF IInv

\* detach_client, up to the join and after it.
LEMMA CallerStep ==
  ASSUME IInv, NEW c \in Clients, Detach(c) \/ DetachJoin(c)
  PROVE  IInv'
<1>1. /\ caller' \in [Clients -> {"new", "attached", "joining", "detached", "absent"}]
      /\ attached' \subseteq attached
      /\ UNCHANGED <<reader, buf, ring, pushed, queue, drain, chunk, writer, received,
                     joined, owed, closing>>
  BY DEF IInv, TypeOK, Detach, DetachJoin, readerVars, drainVars
<1>2. TypeOK'
  BY <1>1 DEF IInv, TypeOK
<1>3. RingInv'
  BY <1>1, FrameRing DEF IInv
<1>4. StreamInv'
  BY <1>1, FrameStream DEF IInv
<1>5. ClientInv'
  BY <1>1 DEF IInv, TypeOK, ClientInv, Alive, Written, Detach, DetachJoin
<1> QED
  BY <1>2, <1>3, <1>4, <1>5 DEF IInv

\* close() touches no stream.
LEMMA CloseStep ==
  ASSUME IInv, CloseBegin \/ CloseEnd
  PROVE  IInv'
<1>1. /\ closing' \in {"open", "joining", "closed"}
      /\ attached' \subseteq attached
      /\ UNCHANGED <<reader, buf, ring, pushed, queue, drain, chunk, writer, received,
                     joined, owed, caller>>
  BY DEF IInv, TypeOK, CloseBegin, CloseEnd, readerVars, drainVars
<1>2. TypeOK'
  BY <1>1 DEF IInv, TypeOK
<1>3. RingInv'
  BY <1>1, FrameRing DEF IInv
<1>4. StreamInv'
  BY <1>1, FrameStream DEF IInv
<1>5. ClientInv'
  BY <1>1 DEF IInv, ClientInv, Alive, Written
<1> QED
  BY <1>2, <1>3, <1>4, <1>5 DEF IInv

\* What a client's peer does touches no stream; a broken writer stays broken.
LEMMA PeerStep ==
  ASSUME IInv, NEW c \in Clients, PeerStalls(c) \/ PeerLeaves(c)
  PROVE  IInv'
<1>1. /\ writer' \in [Clients -> {"ok", "stalled", "broken"}]
      /\ \A d \in Clients : writer[d] = "broken" => writer'[d] = "broken"
      /\ UNCHANGED <<reader, buf, ring, pushed, attached, queue, drain, chunk, received,
                     joined, owed, caller, closing>>
  BY DEF IInv, TypeOK, PeerStalls, PeerLeaves, SetWriter, readerVars
<1>2. TypeOK'
  BY <1>1 DEF IInv, TypeOK
<1>3. RingInv'
  BY <1>1, FrameRing DEF IInv
<1>4. StreamInv'
  BY <1>1, FrameStream DEF IInv
<1>5. ClientInv'
  BY <1>1 DEF IInv, ClientInv, Alive, Written
<1> QED
  BY <1>2, <1>3, <1>4, <1>5 DEF IInv

\* The drain thread: receive, write, fail, end.
LEMMA DrainStep ==
  ASSUME IInv, NEW c \in Clients, Drain(c)
  PROVE  IInv'
<1> DEFINE Same(d) == /\ queue'[d] = queue[d] /\ drain'[d] = drain[d]
                      /\ chunk'[d] = chunk[d] /\ received'[d] = received[d]
                      /\ joined'[d] = joined[d] /\ owed'[d] = owed[d]
<1>0. /\ StreamType(queue[c], drain[c], chunk[c], received[c], joined[c], owed[c])
      /\ Stream(queue[c], drain[c], chunk[c], received[c], joined[c], owed[c])
  BY StreamsAreTyped DEF IInv, StreamInv
<1>1. UNCHANGED <<reader, buf, ring, pushed, attached, writer, joined, owed, caller, closing>>
  BY DEF Drain, DrainRecv, DrainEnd, DrainWrite, DrainFail, readerVars
<1>2. RingInv'
  BY <1>1, FrameRing DEF IInv
<1>3. CASE DrainRecv(c)
  <2>1. /\ drain[c] = "recv" /\ queue[c] # << >> /\ UNCHANGED received
        /\ chunk' = [chunk EXCEPT ![c] = Head(queue[c])]
        /\ queue' = [queue EXCEPT ![c] = Tail(queue[c])]
        /\ drain' = [drain EXCEPT ![c] = "write"]
    BY <1>3 DEF DrainRecv, IInv, TypeOK
  <2>2. /\ StreamType(Tail(queue[c]), "write", Head(queue[c]), received[c], joined[c], owed[c])
        /\ Stream(Tail(queue[c]), "write", Head(queue[c]), received[c], joined[c], owed[c])
    BY <1>0, <2>1, StreamRecv
  <2>3. TypeOK'
    BY <1>1, <2>1, <2>2 DEF IInv, TypeOK, StreamType
  <2>4. StreamInv'
    <3>1. /\ queue'[c] = Tail(queue[c]) /\ drain'[c] = "write" /\ chunk'[c] = Head(queue[c])
          /\ received'[c] = received[c] /\ joined'[c] = joined[c] /\ owed'[c] = owed[c]
          /\ \A d \in Clients \ {c} : Same(d)
      BY <1>1, <2>1 DEF IInv, TypeOK
    <3> QED
      BY <2>2, <3>1, OneStream DEF IInv
  <2>5. ClientInv'
    BY <1>1, <2>1 DEF IInv, TypeOK, ClientInv, Alive, Written
  <2> QED
    BY <1>2, <2>3, <2>4, <2>5 DEF IInv
<1>4. CASE DrainEnd(c)
  <2>1. /\ drain[c] = "recv" /\ queue[c] = << >> /\ UNCHANGED <<received, chunk, queue>>
        /\ drain' = [drain EXCEPT ![c] = "exited"]
    BY <1>4 DEF DrainEnd
  <2>2. /\ Stream(queue[c], "exited", chunk[c], received[c], joined[c], owed[c])
        /\ joined[c] + Len(received[c]) = owed[c]
    BY <1>0, <2>1, StreamEnd
  <2>3. TypeOK'
    BY <1>1, <2>1 DEF IInv, TypeOK
  <2>4. StreamInv'
    <3>1. /\ queue'[c] = queue[c] /\ drain'[c] = "exited" /\ chunk'[c] = chunk[c]
          /\ received'[c] = received[c] /\ joined'[c] = joined[c] /\ owed'[c] = owed[c]
          /\ \A d \in Clients \ {c} : Same(d)
      BY <1>1, <2>1 DEF IInv, TypeOK
    <3> QED
      BY <2>2, <3>1, OneStream DEF IInv
  <2>5. ClientInv'
    BY <1>1, <2>1, <2>2 DEF IInv, TypeOK, ClientInv, Alive, Written
  <2> QED
    BY <1>2, <2>3, <2>4, <2>5 DEF IInv
<1>5. CASE DrainWrite(c)
  <2>1. /\ drain[c] = "write" /\ UNCHANGED queue
        /\ received' = [received EXCEPT ![c] = received[c] \o chunk[c]]
        /\ chunk' = [chunk EXCEPT ![c] = << >>]
        /\ drain' = [drain EXCEPT ![c] = "recv"]
    BY <1>5 DEF DrainWrite, IInv, TypeOK
  <2>2. /\ StreamType(queue[c], "recv", << >>, received[c] \o chunk[c], joined[c], owed[c])
        /\ Stream(queue[c], "recv", << >>, received[c] \o chunk[c], joined[c], owed[c])
    BY <1>0, <2>1, StreamWrite
  <2>3. TypeOK'
    BY <1>1, <2>1, <2>2 DEF IInv, TypeOK, StreamType
  <2>4. StreamInv'
    <3>1. /\ queue'[c] = queue[c] /\ drain'[c] = "recv" /\ chunk'[c] = << >>
          /\ received'[c] = received[c] \o chunk[c] /\ joined'[c] = joined[c]
          /\ owed'[c] = owed[c]
          /\ \A d \in Clients \ {c} : Same(d)
      BY <1>1, <2>1 DEF IInv, TypeOK
    <3> QED
      BY <2>2, <3>1, OneStream DEF IInv
  <2>5. ClientInv'
    BY <1>1, <2>1 DEF IInv, TypeOK, ClientInv, Alive, Written
  <2> QED
    BY <1>2, <2>3, <2>4, <2>5 DEF IInv
<1>6. CASE DrainFail(c)
  <2>1. /\ drain[c] = "write" /\ writer[c] = "broken"
        /\ chunk' = [chunk EXCEPT ![c] = << >>]
        /\ queue' = [queue EXCEPT ![c] = << >>]
        /\ drain' = [drain EXCEPT ![c] = "exited"]
    BY <1>6 DEF DrainFail
  <2>2. PICK n \in 0 .. Len(chunk[c]) - 1 :
          received' = [received EXCEPT ![c] = received[c] \o SubSeq(chunk[c], 1, n)]
    BY <1>6 DEF DrainFail, IInv, TypeOK
  <2>3. n \in 0 .. Len(chunk[c])
    BY <1>0, LenProperties DEF StreamType
  <2> DEFINE rec == received[c] \o SubSeq(chunk[c], 1, n)
  <2>4. /\ StreamType(<< >>, "exited", << >>, rec, joined[c], owed[c])
        /\ Stream(<< >>, "exited", << >>, rec, joined[c], owed[c])
    BY <1>0, <2>1, <2>3, StreamFail
  <2> HIDE DEF rec
  <2>5. received' = [received EXCEPT ![c] = rec]
    BY <2>2 DEF rec
  <2>6. TypeOK'
    BY <1>1, <2>1, <2>4, <2>5 DEF IInv, TypeOK, StreamType
  <2>7. StreamInv'
    <3>1. /\ queue'[c] = << >> /\ drain'[c] = "exited" /\ chunk'[c] = << >>
          /\ received'[c] = rec /\ joined'[c] = joined[c] /\ owed'[c] = owed[c]
          /\ \A d \in Clients \ {c} : Same(d)
      BY <1>1, <2>1, <2>5 DEF IInv, TypeOK
    <3> QED
      BY <2>4, <3>1, OneStream DEF IInv
  <2>8. ClientInv'
    BY <1>1, <2>1, <2>5 DEF IInv, TypeOK, ClientInv, Alive, Written
  <2> QED
    BY <1>2, <2>6, <2>7, <2>8 DEF IInv
<1> QED
  BY <1>3, <1>4, <1>5, <1>6 DEF Drain

\* Every step of the port preserves the invariant.
LEMMA NextIInv ==
  ASSUME IInv, [PortNext]_portVars
  PROVE  IInv'
<1>1. CASE Reader
  BY <1>1, ReaderStep, FanOutStep DEF Reader
<1>2. CASE CloseBegin \/ CloseEnd
  BY <1>2, CloseStep
<1>3. ASSUME NEW c \in Clients,
             Attach(c) \/ Detach(c) \/ DetachJoin(c) \/ Drain(c)
               \/ PeerStalls(c) \/ PeerLeaves(c)
      PROVE  IInv'
  BY <1>3, AttachStep, CallerStep, DrainStep, PeerStep
<1>4. CASE UNCHANGED portVars
  <2>1. TypeOK'
    BY <1>4 DEF IInv, TypeOK, portVars
  <2>2. RingInv'
    BY <1>4, FrameRing DEF IInv, portVars
  <2>3. StreamInv'
    BY <1>4, FrameStream DEF IInv, portVars
  <2>4. ClientInv'
    BY <1>4 DEF IInv, ClientInv, Alive, Written, portVars
  <2> QED
    BY <2>1, <2>2, <2>3, <2>4 DEF IInv
<1> QED
  BY <1>1, <1>2, <1>3, <1>4 DEF PortNext

\* IInv is an invariant of the port, for every value of its constants.
THEOREM PortInvariant == PortSpec => []IInv
<1>1. PortInit => IInv
  BY InitIInv
<1>2. IInv /\ [PortNext]_portVars => IInv'
  BY NextIInv
<1> QED
  BY <1>1, <1>2, PTL DEF PortSpec

-----------------------------------------------------------------------------
(* What the invariant implies *)

\* Every variable of the port keeps its type.
THEOREM PortTypes == PortSpec => []TypeOK
<1>1. IInv => TypeOK
  BY DEF IInv
<1> QED
  BY <1>1, PortInvariant, PTL

\* The invariant says more than that the streams are in order.
LEMMA InvariantDelivers ==
  ASSUME IInv
  PROVE  ExactlyOnce
<1>1. ASSUME NEW c \in Clients
      PROVE  /\ DeliveredInOrder(c) /\ ChunkInOrder(c) /\ QueueInOrder(c)
             /\ EndsAtOwed(c) /\ UpToDate(c)
  <2>1. /\ StreamType(queue[c], drain[c], chunk[c], received[c], joined[c], owed[c])
        /\ Stream(queue[c], drain[c], chunk[c], received[c], joined[c], owed[c])
    BY <1>1, StreamsAreTyped DEF IInv, StreamInv
  <2>2. DeliveredInOrder(c)
    BY <2>1 DEF DeliveredInOrder, Started, Stream
  <2>3. ChunkInOrder(c)
    BY <2>1 DEF ChunkInOrder, Written, Stream
  <2>4. UpToDate(c)
    BY <1>1 DEF IInv, ClientInv, UpToDate
  <2>5. CASE Alive(c)
    <3>1. QueueRun(queue[c], Written(c) + Len(chunk[c]), owed[c])
      BY <2>1, <2>5 DEF Alive, Written, Stream
    <3>2. QueueInOrder(c) /\ EndsAtOwed(c)
      BY <3>1 DEF QueueRun, QueueInOrder, EndsAtOwed
    <3> QED
      BY <2>2, <2>3, <2>4, <3>2
  <2>6. CASE ~Alive(c)
    <3>1. queue[c] = << >> /\ Len(queue[c]) = 0
      BY <2>1, <2>6, EmptySeq DEF Alive, Stream, StreamType
    <3>2. QueueInOrder(c) /\ EndsAtOwed(c)
      BY <2>6, <3>1 DEF QueueInOrder, EndsAtOwed
    <3> QED
      BY <2>2, <2>3, <2>4, <3>2
  <2> QED
    BY <2>5, <2>6
<1> QED
  BY <1>1 DEF ExactlyOnce

\* Late-attach catch-up is exactly-once, for every client, forever.
THEOREM PortDeliversExactlyOnce == PortSpec => []ExactlyOnce
<1>1. IInv => ExactlyOnce
  BY InvariantDelivers
<1> QED
  BY <1>1, PortInvariant, PTL

\* An orderly detach loses no tail, whatever interleaved with it.
THEOREM PortDetachFlushes == PortSpec => []DetachFlushes
<1>1. IInv => DetachFlushes
  BY DEF IInv, ClientInv, DetachFlushes
<1> QED
  BY <1>1, PortInvariant, PTL

-----------------------------------------------------------------------------
(* The port implements the feed *)

\* A run is what the feed calls Run, of its start and length.
LEMMA RunIsTheRun ==
  ASSUME NEW s \in Seq(Nat), NEW a \in Nat, IsRunAfter(s, a)
  PROVE  s = Feed!Run(a, Len(s))
<1> DEFINE n == Len(s)
           t == Feed!Run(a, n)
<1>1. n \in Nat
  BY LenProperties
<1>2. t \in [1 .. n -> Nat] /\ \A k \in 1 .. n : t[k] = a + k
  BY <1>1 DEF Feed!Run
<1>3. t \in Seq(Nat) /\ Len(t) = n
  BY <1>1, <1>2, FunctionIsSeq
<1>4. \A k \in 1 .. Len(s) : s[k] = t[k]
  BY <1>2 DEF IsRunAfter
<1> HIDE DEF t
<1>5. s = t
  BY <1>3, <1>4, SeqEqual
<1> QED
  BY <1>5 DEF t

\* Writing the bytes a client is to get next, or no more of them than there are.
LEMMA WriteDelivers ==
  ASSUME TypeOK, NEW c \in Clients, joined[c] \in Nat, NEW t \in Seq(Nat),
         t # << >>, IsRunAfter(t, joined[c] + Len(received[c])),
         (joined[c] + Len(received[c])) + Len(t) <= pushed,
         received' = [received EXCEPT ![c] = received[c] \o t],
         UNCHANGED <<pushed, joined>>
  PROVE  Feed!Deliver(c)
<1> DEFINE at == joined[c] + Len(received[c])
           n  == Len(t)
<1>1. received[c] \in Seq(Nat) /\ at \in Nat /\ n \in Nat \ {0} /\ pushed \in Nat
  <2>1. received[c] \in Seq(Nat) /\ pushed \in Nat
    BY DEF TypeOK
  <2> QED
    BY <2>1, LenProperties, EmptySeq
<1>2. t = Feed!Run(at, n)
  BY <1>1, RunIsTheRun
<1>3. at + n <= pushed
  OBVIOUS
<1>4. joined[c] # Feed!NotJoined
  BY DEF Feed!NotJoined
<1> HIDE DEF at, n
<1>5. n \in 1 .. pushed - at
  BY <1>1, <1>3
<1>6. received' = [received EXCEPT ![c] = received[c] \o Feed!Run(at, n)]
  BY <1>2
<1> QED
  BY <1>4, <1>5, <1>6 DEF Feed!Deliver, at

\* A chunk in flight ends at or before the last byte pushed.
LEMMA ChunkIsPublished ==
  ASSUME IInv, NEW c \in Clients, drain[c] = "write"
  PROVE  /\ joined[c] \in Nat /\ received[c] \in Seq(Nat) /\ chunk[c] \in Seq(Nat)
         /\ chunk[c] # << >> /\ IsRunAfter(chunk[c], joined[c] + Len(received[c]))
         /\ (joined[c] + Len(received[c])) + Len(chunk[c]) <= pushed
<1>1. /\ StreamType(queue[c], drain[c], chunk[c], received[c], joined[c], owed[c])
      /\ Stream(queue[c], drain[c], chunk[c], received[c], joined[c], owed[c])
      /\ owed[c] <= pushed /\ pushed \in Nat /\ owed[c] \in Nat
  BY StreamsAreTyped DEF IInv, StreamInv, ClientInv, TypeOK
<1>2. /\ joined[c] \in Nat /\ received[c] \in Seq(Nat) /\ chunk[c] \in Seq(Nat)
      /\ chunk[c] # << >> /\ IsRunAfter(chunk[c], joined[c] + Len(received[c]))
  BY <1>1 DEF Stream, StreamType
<1>3. joined[c] + Len(received[c]) + Len(chunk[c]) <= owed[c]
  BY <1>1 DEF Stream, QueueRun
<1>4. Len(received[c]) \in Nat /\ Len(chunk[c]) \in Nat
  BY <1>2, LenProperties
<1> DEFINE x == joined[c] + Len(received[c]) + Len(chunk[c])
<1>5. x \in Nat /\ x <= owed[c] /\ x = (joined[c] + Len(received[c])) + Len(chunk[c])
  BY <1>2, <1>3, <1>4
<1> HIDE DEF x
<1>6. x <= pushed
  BY <1>1, <1>5
<1> QED
  BY <1>2, <1>5, <1>6

\* Every step of the port is a step of the feed, or changes nothing the feed sees.
LEMMA StepMapsToFeed ==
  ASSUME IInv, [PortNext]_portVars
  PROVE  [Feed!FeedNext]_(Feed!feedVars)
<1>1. CASE ReaderFanOut
  <2>1. /\ buf \in Seq(Nat) /\ buf # << >> /\ pushed \in Nat
        /\ pushed' = pushed + Len(buf) /\ UNCHANGED <<joined, received>>
    BY <1>1 DEF IInv, TypeOK, RingInv, ReaderFanOut, FanOut
  <2>2. Len(buf) \in Nat \ {0}
    BY <2>1, LenProperties, EmptySeq
  <2>3. Feed!Publish
    BY <2>1, <2>2 DEF Feed!Publish
  <2> QED
    BY <2>3 DEF Feed!FeedNext
<1>2. ASSUME NEW c \in Clients, Attach(c)
      PROVE  Feed!FeedNext
  <2>1. /\ caller[c] = "new" /\ UNCHANGED <<pushed, received>>
        /\ joined' = [joined EXCEPT ![c] = pushed - Len(Snapshot(ring))]
    BY <1>2 DEF Attach, readerVars
  <2>2. joined[c] = NotJoined
    BY <2>1 DEF IInv, ClientInv, StreamInv, Stream
  <2>3. Len(Snapshot(ring)) = IF pushed < Cap THEN pushed ELSE Cap
    <3>1. Nat \cup {0} = Nat
      OBVIOUS
    <3>2. Len(Snapshot(ring)) = ring.filled
      BY <3>1, SnapshotLength DEF IInv, TypeOK
    <3> QED
      BY <3>2 DEF IInv, RingInv
  <2>4. pushed - Len(Snapshot(ring)) = IF pushed < Cap THEN 0 ELSE pushed - Cap
    BY <2>3, CapAssumption DEF IInv, TypeOK
  <2>5. Feed!Join(c)
    BY <2>1, <2>2, <2>4 DEF Feed!Join, Feed!NotJoined, NotJoined
  <2> QED
    BY <2>5 DEF Feed!FeedNext
<1>3. ASSUME NEW c \in Clients, DrainWrite(c)
      PROVE  Feed!FeedNext
  <2>1. /\ drain[c] = "write" /\ UNCHANGED <<pushed, joined>>
        /\ received' = [received EXCEPT ![c] = received[c] \o chunk[c]]
    BY <1>3 DEF DrainWrite, readerVars, IInv, TypeOK
  <2>2. Feed!Deliver(c)
    BY <2>1, ChunkIsPublished, WriteDelivers DEF IInv
  <2> QED
    BY <2>2 DEF Feed!FeedNext
<1>4. ASSUME NEW c \in Clients, DrainFail(c)
      PROVE  Feed!FeedNext \/ UNCHANGED <<pushed, joined, received>>
  <2>1. drain[c] = "write" /\ UNCHANGED <<pushed, joined>>
    BY <1>4 DEF DrainFail, readerVars
  <2>2. PICK n \in 0 .. Len(chunk[c]) - 1 :
          received' = [received EXCEPT ![c] = received[c] \o SubSeq(chunk[c], 1, n)]
    BY <1>4 DEF DrainFail, IInv, TypeOK
  <2> DEFINE t == SubSeq(chunk[c], 1, n)
  <2>3. /\ joined[c] \in Nat /\ received[c] \in Seq(Nat) /\ chunk[c] \in Seq(Nat)
        /\ IsRunAfter(chunk[c], joined[c] + Len(received[c]))
        /\ (joined[c] + Len(received[c])) + Len(chunk[c]) <= pushed
        /\ Len(received[c]) \in Nat /\ Len(chunk[c]) \in Nat /\ pushed \in Nat
    BY <2>1, ChunkIsPublished, LenProperties DEF IInv, TypeOK
  <2>4. joined[c] + Len(received[c]) \in Int /\ n \in 0 .. Len(chunk[c]) /\ n \in Nat
    BY <2>2, <2>3
  <2>5. t \in Seq(Nat) /\ IsRunAfter(t, joined[c] + Len(received[c]))
    BY <2>3, <2>4, RunPrefix
  <2>6. Len(t) \in Nat /\ Len(t) <= Len(chunk[c])
    BY <2>3, <2>4, SubSeqProperties, ElementOfSeq
  <2>7. (joined[c] + Len(received[c])) + Len(t) <= pushed
    <3> DEFINE x == joined[c] + Len(received[c])
               y == Len(chunk[c])
               z == Len(t)
    <3>1. x \in Int /\ y \in Nat /\ z \in Nat /\ z <= y /\ x + y <= pushed /\ pushed \in Nat
      BY <2>3, <2>4, <2>6
    <3> HIDE DEF x, y, z
    <3>2. x + z <= pushed
      BY <3>1
    <3> QED
      BY <3>2 DEF x, z
  <2> HIDE DEF t
  <2>8. received' = [received EXCEPT ![c] = received[c] \o t]
    BY <2>2 DEF t
  <2>9. CASE t # << >>
    <3>1. Feed!Deliver(c)
      BY <2>1, <2>3, <2>5, <2>7, <2>8, <2>9, WriteDelivers DEF IInv
    <3> QED
      BY <3>1 DEF Feed!FeedNext
  <2>10. CASE t = << >>
    <3>1. received[c] \o t = received[c]
      BY <2>3, <2>10, ConcatEmptySeq
    <3>2. received' = received
      BY <2>8, <3>1 DEF IInv, TypeOK
    <3> QED
      BY <2>1, <3>2
  <2> QED
    BY <2>9, <2>10
<1>5. ASSUME NEW c \in Clients,
             Detach(c) \/ DetachJoin(c) \/ DrainRecv(c) \/ DrainEnd(c)
               \/ PeerStalls(c) \/ PeerLeaves(c)
      PROVE  UNCHANGED <<pushed, joined, received>>
  BY <1>5 DEF Detach, DetachJoin, DrainRecv, DrainEnd, PeerStalls, PeerLeaves, SetWriter,
              readerVars, drainVars
<1>6. CASE ReaderCheck \/ ReaderRead \/ ReaderTick \/ ReaderFatal \/ CloseBegin \/ CloseEnd
  BY <1>6 DEF ReaderCheck, ReaderRead, ReaderTick, ReaderFatal, CloseBegin, CloseEnd,
              readerVars, drainVars, Feed!feedVars
<1>7. CASE UNCHANGED portVars
  BY <1>7 DEF portVars, Feed!feedVars
<1> QED
  BY <1>1, <1>2, <1>3, <1>4, <1>5, <1>6, <1>7
     DEF PortNext, Reader, Drain, Feed!feedVars

\* Every behaviour of the port is a behaviour of the feed: clients join at most Cap
\* bytes in the past and are written gapless runs of what the reader published.
THEOREM PortImplementsFeed == PortSpec => ImplementsFeed
<1>1. PortInit => Feed!FeedInit
  BY DEF PortInit, Feed!FeedInit, Feed!NotJoined, NotJoined
<1>2. IInv /\ [PortNext]_portVars => [Feed!FeedNext]_(Feed!feedVars)
  BY StepMapsToFeed
<1> QED
  BY <1>1, <1>2, PortInvariant, PTL DEF PortSpec, ImplementsFeed, Feed!FeedSpec

-----------------------------------------------------------------------------
(* The bridge on top of the port *)

\* Where the accept thread has a connection of its own, and not what stop() queued to
\* wake it: that one is queued when the flag is set, and is discarded then.
BridgeInv ==
  /\ backlog \in Seq(IF stop = "no" THEN Clients ELSE Clients \cup {Wake})
  /\ acceptor = "check" => current \in (IF stop = "no" THEN Clients ELSE Clients \cup {Wake})
  /\ acceptor \in {"track", "attach", "serve", "detach"} => current \in Clients
  /\ active \subseteq Clients
  /\ upstream \in [Clients -> {"none", "read", "done"}]
  /\ ServesOneConnection

\* shutdown(Both) of some clients' sockets.
Cut ==
  /\ writer' \in [Clients -> {"ok", "stalled", "broken"}]
  /\ \A d \in Clients : writer[d] = "broken" => writer'[d] = "broken"
  /\ UNCHANGED <<reader, buf, ring, pushed, attached, queue, drain, chunk, received,
                 joined, owed, caller, closing>>

\* To the port it is what a peer may do by itself.
LEMMA CutStep ==
  ASSUME IInv, Cut
  PROVE  IInv'
<1>1. TypeOK'
  BY DEF Cut, IInv, TypeOK
<1>2. RingInv'
  BY FrameRing DEF Cut, IInv
<1>3. StreamInv'
  BY FrameStream DEF Cut, IInv
<1>4. ClientInv'
  BY DEF Cut, IInv, ClientInv, Alive, Written
<1> QED
  BY <1>1, <1>2, <1>3, <1>4 DEF IInv

\* What the bridge does to the port is what the port allows any caller, or a cut.
LEMMA BridgeUsesPort ==
  ASSUME IInv, BridgeInv, BridgeNext
  PROVE  PortNext \/ Cut \/ UNCHANGED portVars
<1>1. CASE PortStep
  BY <1>1 DEF PortStep, PortNext
<1>2. CASE Serve \/ ServeEnds
  <2>1. current \in Clients /\ (Attach(current) \/ Detach(current))
    BY <1>2 DEF Serve, ServeEnds, BridgeInv
  <2> QED
    BY <2>1 DEF PortNext
<1>3. CASE Accept \/ AcceptFails \/ CheckStopped \/ Track \/ Untrack \/ StopFlag \/ StopWake
         \/ StopJoin
  BY <1>3 DEF Accept, AcceptFails, CheckStopped, Track, Untrack, StopFlag, StopWake, StopJoin
<1>4. CASE StopTake
  BY <1>4 DEF StopTake, Shut, Cut, readerVars, IInv, TypeOK
<1>5. ASSUME NEW c \in Clients, UpstreamEnds(c)
      PROVE  Cut
  BY <1>5 DEF UpstreamEnds, Shut, Cut, readerVars, IInv, TypeOK
<1>6. ASSUME NEW c \in Clients, Connect(c) \/ HangUp(c)
      PROVE  PortNext \/ UNCHANGED portVars
  BY <1>6 DEF Connect, HangUp, PortNext
<1> QED
  BY <1>1, <1>2, <1>3, <1>4, <1>5, <1>6 DEF BridgeNext, Acceptor, Stop

\* The port by itself lets no client in: it drops some, or all when it is closed.
LEMMA PortLetsNobodyIn ==
  ASSUME PortStep
  PROVE  attached' \subseteq attached
<1>1. CASE Reader
  BY <1>1 DEF Reader, ReaderCheck, ReaderRead, ReaderTick, ReaderFatal, ReaderFanOut, FanOut
<1>2. CASE CloseEnd \/ CloseBegin
  BY <1>2 DEF CloseEnd, CloseBegin
<1>3. ASSUME NEW c \in Clients, DetachJoin(c) \/ Drain(c) \/ PeerStalls(c)
      PROVE  attached' = attached
  BY <1>3 DEF DetachJoin, Drain, DrainRecv, DrainEnd, DrainWrite, DrainFail, PeerStalls,
              SetWriter
<1> QED
  BY <1>1, <1>2, <1>3 DEF PortStep

\* Every step of the bridge keeps its invariant.
LEMMA BridgeStep ==
  ASSUME IInv, BridgeInv, BridgeNext
  PROVE  BridgeInv'
<1>1. CASE PortStep
  <2>1. attached' \subseteq attached /\ UNCHANGED bridgeVars
    BY <1>1, PortLetsNobodyIn DEF PortStep
  <2> QED
    BY <2>1 DEF BridgeInv, ServesOneConnection, bridgeVars
<1>2. CASE Accept
  <2> DEFINE S == IF stop = "no" THEN Clients ELSE Clients \cup {Wake}
  <2>1. backlog \in Seq(S) /\ backlog # << >>
    BY <1>2 DEF BridgeInv, Accept
  <2>2. Head(backlog) \in S /\ Tail(backlog) \in Seq(S)
    BY <2>1, HeadTailProperties
  <2>3. /\ current' \in S /\ backlog' \in Seq(S) /\ acceptor' = "check" /\ acceptor = "accept"
        /\ UNCHANGED <<attached, active, upstream, stop>>
    BY <1>2, <2>2 DEF Accept, portVars
  <2> QED
    BY <2>3 DEF BridgeInv, ServesOneConnection
<1>3. CASE CheckStopped
  BY <1>3 DEF CheckStopped, BridgeInv, ServesOneConnection, portVars
<1>4. CASE Track
  BY <1>4 DEF Track, BridgeInv, ServesOneConnection, portVars
<1>5. CASE Serve
  <2>1. /\ acceptor = "attach" /\ acceptor' = "serve" /\ current \in Clients
        /\ upstream' = [upstream EXCEPT ![current] = "read"]
        /\ attached' = attached \cup {current}
        /\ UNCHANGED <<backlog, current, active, stop>>
    BY <1>5 DEF Serve, Attach, BridgeInv
  <2>2. \A c \in Clients : c \notin attached /\ upstream[c] # "read"
    BY <2>1 DEF BridgeInv, ServesOneConnection
  <2> QED
    BY <2>1, <2>2 DEF BridgeInv, ServesOneConnection
<1>6. CASE ServeEnds
  <2>1. /\ acceptor = "serve" /\ acceptor' = "detach" /\ upstream[current] = "done"
        /\ attached' = attached \ {current}
        /\ UNCHANGED <<backlog, current, active, upstream, stop>>
    BY <1>6 DEF ServeEnds, Detach
  <2>2. \A c \in Clients : c \notin attached' /\ upstream'[c] # "read"
    BY <2>1 DEF BridgeInv, ServesOneConnection
  <2> QED
    BY <2>1, <2>2 DEF BridgeInv, ServesOneConnection
<1>7. CASE Untrack
  BY <1>7 DEF Untrack, BridgeInv, ServesOneConnection, portVars
<1>8. CASE StopFlag
  <2>1. backlog \in Seq(Clients \cup {Wake})
    BY <1>8, SeqMonotonic DEF StopFlag, BridgeInv
  <2> QED
    BY <1>8, <2>1 DEF StopFlag, BridgeInv, ServesOneConnection, portVars
<1>9. CASE StopTake
  BY <1>9 DEF StopTake, BridgeInv, ServesOneConnection
<1>10. CASE StopWake
  <2>1. Append(backlog, Wake) \in Seq(Clients \cup {Wake})
    BY <1>10, AppendProperties DEF StopWake, BridgeInv
  <2>2. backlog' \in Seq(Clients \cup {Wake})
    BY <1>10, <2>1 DEF StopWake, BridgeInv
  <2> QED
    BY <1>10, <2>2 DEF StopWake, BridgeInv, ServesOneConnection, portVars
<1>11. CASE StopJoin
  BY <1>11 DEF StopJoin, BridgeInv, ServesOneConnection, portVars
<1>12. ASSUME NEW c \in Clients, UpstreamEnds(c)
       PROVE  BridgeInv'
  BY <1>12 DEF UpstreamEnds, BridgeInv, ServesOneConnection
<1>13. ASSUME NEW c \in Clients, Connect(c)
       PROVE  BridgeInv'
  <2>1. Append(backlog, c) \in Seq(IF stop = "no" THEN Clients ELSE Clients \cup {Wake})
    BY AppendProperties DEF BridgeInv
  <2> QED
    BY <1>13, <2>1 DEF Connect, BridgeInv, ServesOneConnection, portVars
<1>14. ASSUME NEW c \in Clients, HangUp(c)
       PROVE  BridgeInv'
  <2>1. UNCHANGED <<attached, backlog, acceptor, current, active, upstream, stop>>
    BY <1>14 DEF HangUp, PeerLeaves, SetWriter, portVars
  <2> QED
    BY <2>1 DEF BridgeInv, ServesOneConnection
<1>15. CASE AcceptFails
  <2>1. backlog' \in Seq(IF stop = "no" THEN Clients ELSE Clients \cup {Wake})
    BY <1>15, EmptySeq DEF AcceptFails
  <2> QED
    BY <1>15, <2>1 DEF AcceptFails, BridgeInv, ServesOneConnection, portVars
<1> QED
  BY <1>1, <1>2, <1>3, <1>4, <1>5, <1>6, <1>7, <1>8, <1>9, <1>10, <1>11, <1>12, <1>13, <1>14, <1>15
     DEF BridgeNext, Acceptor, Stop

\* Port and bridge in either scene: by itself the port has no use for the bridge.
SceneInv == IInv /\ (scene = "bridge" => BridgeInv)

LEMMA SceneStarts ==
  ASSUME MCInit
  PROVE  SceneInv
<1>1. << >> \in Seq(Clients)
  BY EmptySeq
<1> QED
  BY <1>1, InitIInv DEF MCInit, BridgeInit, PortInit, SceneInv, BridgeInv, ServesOneConnection

LEMMA SceneKeeps ==
  ASSUME SceneInv, [Alone \/ Bridge]_allVars
  PROVE  SceneInv'
<1>1. CASE Alone
  BY <1>1, NextIInv DEF Alone, SceneInv
<1>2. CASE Bridge
  BY <1>2, BridgeUsesPort, BridgeStep, NextIInv, CutStep DEF Bridge, SceneInv
<1>3. CASE UNCHANGED allVars
  <2>1. IInv'
    BY <1>3, NextIInv DEF allVars, vars, SceneInv
  <2> QED
    BY <1>3, <2>1 DEF allVars, vars, portVars, bridgeVars, SceneInv, BridgeInv, ServesOneConnection
<1> QED
  BY <1>1, <1>2, <1>3

\* BridgeServesOne: the port fans out to the connection the bridge serves and to no other
\* (accept loop, handle_connection and stop() of bridge.rs), for any number of clients.
THEOREM BridgeServesOneAtATime == MCSpec => []BridgeServesOne
<1>1. SceneInv => BridgeServesOne
  BY DEF SceneInv, BridgeInv, BridgeServesOne
<1>2. MCInit => SceneInv
  BY SceneStarts
<1>3. SceneInv /\ [Alone \/ Bridge]_allVars => SceneInv'
  BY SceneKeeps
<1> QED
  BY <1>1, <1>2, <1>3, PTL DEF MCSpec

\* The port keeps its promises to clients that the bridge attaches, whose sockets it shuts
\* under the drain thread that writes to them: exactly once, flushed, in the order fed.
THEOREM BridgeKeepsThePromises == BridgeSpec => [](ExactlyOnce /\ DetachFlushes) /\ ImplementsFeed
<1>1. BridgeInit => IInv /\ BridgeInv
  <2>1. << >> \in Seq(Clients)
    BY EmptySeq
  <2> QED
    BY <2>1, InitIInv DEF BridgeInit, PortInit, BridgeInv, ServesOneConnection
<1>2. IInv /\ BridgeInv /\ [BridgeNext]_vars => (IInv /\ BridgeInv)'
  <2>1. CASE UNCHANGED vars
    BY <2>1, NextIInv DEF vars, portVars, bridgeVars, BridgeInv, ServesOneConnection
  <2> QED
    BY <2>1, BridgeUsesPort, BridgeStep, NextIInv, CutStep
<1>3. IInv => ExactlyOnce /\ DetachFlushes
  BY InvariantDelivers DEF IInv, ClientInv, DetachFlushes
<1>4. BridgeInit => Feed!FeedInit
  BY DEF BridgeInit, PortInit, Feed!FeedInit, Feed!NotJoined, NotJoined
<1>5. IInv /\ BridgeInv /\ [BridgeNext]_vars => [Feed!FeedNext]_(Feed!feedVars)
  <2>1. CASE UNCHANGED vars
    BY <2>1 DEF vars, portVars, Feed!feedVars
  <2>2. CASE Cut
    BY <2>2 DEF Cut, Feed!feedVars
  <2> QED
    BY <2>1, <2>2, BridgeUsesPort, StepMapsToFeed
<1> QED
  BY <1>1, <1>2, <1>3, <1>4, <1>5, PTL DEF BridgeSpec, ImplementsFeed, Feed!FeedSpec

=============================================================================
