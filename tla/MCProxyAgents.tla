----------------------------- MODULE MCProxyAgents -----------------------------
(***************************************************************************)
(* ProxyAgents for TLC: an agent of version 1 and newer processes, of      *)
(* which new is asked to serve the address of a guest as well.             *)
(***************************************************************************)
EXTENDS ProxyAgents

CONSTANTS old, new, other, client, operator, guest

MCVersion == [p \in Procs |-> IF p = old THEN 1 ELSE 2]
MCWants   == [p \in Procs |-> IF p = new THEN {guest} ELSE {}]

=============================================================================
