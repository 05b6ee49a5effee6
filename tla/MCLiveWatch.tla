------------------------------ MODULE MCLiveWatch ------------------------------
(***************************************************************************)
(* LiveWatch for TLC.                                                      *)
(***************************************************************************)
EXTENDS LiveWatch

CONSTANTS x, y
One == {x}
Two == {x, y}

=============================================================================
