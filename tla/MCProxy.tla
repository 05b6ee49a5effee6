-------------------------------- MODULE MCProxy --------------------------------
(***************************************************************************)
(* ProxyClient for TLC: gdb and the gdb of the live watch on one port.     *)
(***************************************************************************)
EXTENDS ProxyClient

CONSTANTS gdb, live

MCLocals == {gdb, live}

=============================================================================
