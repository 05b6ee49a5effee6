------------------------------- MODULE MCAdapter -------------------------------
(***************************************************************************)
(* Parts of the adapter for TLC, in scenes that share nothing: gdb and the *)
(* gdb of the live watch, whose conversations with the remote server are   *)
(* multiplexed on one session (ProxyClient); the variables of a target     *)
(* that stops now and then (Variables), where a function with a structure  *)
(* and a number calls one that has a number of the same name; and the      *)
(* adapters of one machine that look for ports (ChainedSessions), one      *)
(* launched by another and launching a third, or two strangers.            *)
(***************************************************************************)
EXTENDS ProxyClient, Variables, ChainedSessions

CONSTANTS gdb, live

MCConversations == {gdb, live}

CONSTANTS unit, unitPath, outer, inner, num, rec, stat, glob, reg, allRegs, part

MCLocals  == outer :> <<rec, num>> @@ inner :> <<num>>
MCFile    == outer :> <<unit, unitPath>> @@ inner :> <<unit, unitPath>>
MCStatics == unitPath :> <<stat>>
MCGlobals == <<glob>>
MCStack   == <<outer>>
MCAsks    == <<2, 2>>

\* For the run on references: a function that was called twice over, and no other stop.
MCDeepStack == <<inner, inner, outer>>
MCDeepAsks  == <<4, 0>>

CONSTANTS eldest, middle, youngest, stranger

MCAdapters == {eldest, middle, youngest, stranger}

MCLaunches ==
  eldest :> <<middle>> @@ middle :> <<youngest>> @@ youngest :> << >> @@ stranger :> << >>

Machine(separate, seen, host, taken) ==
  [independent |-> separate, measured |-> seen, server |-> host, squatted |-> taken]

Plain == Machine(FALSE, FALSE, Wildcard, {})

MCMachines ==
  {Plain,
   Machine(FALSE, FALSE, Wildcard, {<<1, Loopback>>}),
   Machine(TRUE, TRUE, Loopback, {<<2, Wildcard>>}),
   Machine(TRUE, FALSE, Loopback, {<<2, Loopback>>})}

VARIABLE scene    \* "streams", "variables" or "ports"

allVars == <<proxyVars, varVars, chainVars, scene>>

\* Machines with something odd are left to the sessions that launch each other.
MCInit ==
  /\ ProxyInit
  /\ VarInit
  /\ ChainInit
  /\ scene \in {"streams", "variables", "ports"}
  /\ scene # "ports" => net = Plain
  /\ scene # "ports" \/ net # Plain => phase[stranger] = "absent"

Streams == scene = "streams" /\ ProxyNext /\ UNCHANGED <<varVars, chainVars, scene>>
Vars    == scene = "variables" /\ VarNext /\ UNCHANGED <<proxyVars, chainVars, scene>>
Ports   == scene = "ports" /\ ChainNext /\ UNCHANGED <<proxyVars, varVars, scene>>

\* Bound: of two strangers none is stopped, and no server of theirs exits by itself.
StrangersAreLeftAlone == scene = "ports" /\ phase[stranger] # "absent" => ends' = 0

MCSpec == MCInit /\ [][(Streams \/ Vars \/ Ports) /\ StrangersAreLeftAlone]_allVars

=============================================================================
