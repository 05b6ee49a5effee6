------------------------------- MODULE SerialFeed -------------------------------
(***************************************************************************)
(* What an open serial port promises the clients that attach to it: a      *)
(* client joins the device's byte stream at most `Cap' bytes in the past   *)
(* and is then delivered a gapless, duplicate-free, ordered run of it,     *)
(* which may stop at any moment but never skips.                           *)
(*                                                                         *)
(* The n-th byte the device ever produced is the number n.                 *)
(***************************************************************************)
EXTENDS Integers, Sequences

CONSTANTS Clients, Cap

VARIABLES
  pushed,    \* bytes the port has published so far
  joined,    \* client -> the stream position it joined at, or NotJoined
  received   \* client -> the bytes delivered to it

feedVars == <<pushed, joined, received>>

NotJoined == -1

\* The n bytes that follow stream position a.
Run(a, n) == [k \in 1 .. n |-> a + k]

FeedInit ==
  /\ pushed = 0
  /\ joined = [c \in Clients |-> NotJoined]
  /\ received = [c \in Clients |-> << >>]

Publish ==
  /\ pushed' \in Nat
  /\ pushed' > pushed
  /\ UNCHANGED <<joined, received>>

Join(c) ==
  /\ joined[c] = NotJoined
  /\ joined' = [joined EXCEPT ![c] = IF pushed < Cap THEN 0 ELSE pushed - Cap]
  /\ UNCHANGED <<pushed, received>>

Deliver(c) ==
  LET at == joined[c] + Len(received[c])
  IN  /\ joined[c] # NotJoined
      /\ \E n \in 1 .. pushed - at :
           received' = [received EXCEPT ![c] = @ \o Run(at, n)]
      /\ UNCHANGED <<pushed, joined>>

FeedNext == Publish \/ \E c \in Clients : Join(c) \/ Deliver(c)

FeedSpec == FeedInit /\ [][FeedNext]_feedVars

=============================================================================
