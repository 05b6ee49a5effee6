-------------------------------- MODULE MCDebug --------------------------------
(***************************************************************************)
(* DebugSession for TLC.                                                   *)
(***************************************************************************)
EXTENDS DebugSession

AllKinds == {"inspect", "continue", "goto", "pause", "reset", "configDone", "set"}

=============================================================================
