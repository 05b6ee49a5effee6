------------------------------ MODULE MCSerialPort ------------------------------
(***************************************************************************)
(* SerialPort for TLC, in two scenes: two clients attach to it as they     *)
(* please, or its TCP bridge attaches them, one at a time.  The ring and   *)
(* the queues are small enough to overflow within the bytes the device     *)
(* produces.                                                               *)
(***************************************************************************)
EXTENDS SerialBridge

CONSTANTS c1, c2

MCClients == {c1, c2}

\* c2's peer always reads on: what c1's does must not matter to it.
MCFlakyPeers == {c1}

VARIABLE scene    \* "alone" or "bridge"

allVars == <<vars, scene>>

MCInit == BridgeInit /\ scene \in {"alone", "bridge"}

Alone  == scene = "alone" /\ PortNext /\ UNCHANGED <<bridgeVars, scene>>
Bridge == scene = "bridge" /\ BridgeNext /\ UNCHANGED scene

MCFairness ==
  /\ WF_allVars(scene = "alone" /\ Reader /\ UNCHANGED <<bridgeVars, scene>>)
  /\ WF_allVars(CloseEnd /\ UNCHANGED <<bridgeVars, scene>>)
  /\ \A c \in Clients :
       /\ WF_allVars(Drain(c) /\ UNCHANGED <<bridgeVars, scene>>)
       /\ WF_allVars(DetachJoin(c) /\ UNCHANGED <<bridgeVars, scene>>)
       /\ WF_allVars(scene = "bridge" /\ conn[c] = "closed" /\ UpstreamEnds(c) /\ UNCHANGED scene)
  /\ WF_allVars(scene = "bridge" /\ Reader /\ UNCHANGED <<bridgeVars, scene>>)
  /\ WF_allVars(scene = "bridge" /\ Acceptor /\ UNCHANGED scene)
  /\ WF_allVars(scene = "bridge" /\ Stop /\ UNCHANGED scene)

\* A bridge serves one connection: the port fans out to it and to no other, and
\* the one before was detached and its thread joined before the next accept().
BridgeServesOne == scene = "bridge" => ServesOneConnection

\* Neither the end of the port nor that of a client waits for ever on a thread: close()
\* returns, and a client that hangs up frees the bridge for the next.
EndsAreNotHeldUp == CloseReleases /\ HangUpFreesBridge

MCSpec == MCInit /\ [][Alone \/ Bridge]_allVars /\ MCFairness

=============================================================================
