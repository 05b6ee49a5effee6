--------------------------------- MODULE MCRtt ---------------------------------
(***************************************************************************)
(* RttBuffer for TLC.                                                      *)
(***************************************************************************)
EXTENDS RttBuffer

=============================================================================
