---------------------------- MODULE MCSerialRegistry ----------------------------
(***************************************************************************)
(* SerialRegistry for TLC: two sessions and the operator's thread, on a    *)
(* device opened twice.  The sessions are interchangeable.                 *)
(***************************************************************************)
EXTENDS SerialRegistry, TLC

CONSTANTS a, b, admin

MCSessions == {a, b}
Symmetry == Permutations(MCSessions)

=============================================================================
