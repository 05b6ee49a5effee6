-------------------------------- MODULE MCDisasm --------------------------------
(***************************************************************************)
(* DisasmHelper for TLC: an executable of which objdump prints nothing,    *)
(* one instruction, some of two or four bytes, some with a hole; looked at *)
(* from below it, from the middle of an instruction, from its end and from *)
(* an address below zero.                                                  *)
(***************************************************************************)
EXTENDS DisasmHelper

SomeListings == {{}, {12}, {2, 4, 8, 10}, {4, 6, 10, 16}}
SomeInputs   == [target : {3, 9}, offset : {-3, -1}, count : {2}]
                  \cup {[target |-> -2, offset |-> 0, count |-> 2]}

=============================================================================
