---------------------------- MODULE MCSerialManager ----------------------------
(***************************************************************************)
(* SerialManager for TLC, in five scenes told apart in the first state:    *)
(* one port whose device and agent fail; one whose device fails, whose     *)
(* answer comes late or listener is not bound, and that is closed; one     *)
(* with a label, whose device fails and that is closed; two ports with     *)
(* traffic in one session; two ports with a byte each and two sessions.    *)
(***************************************************************************)
EXTENDS SerialManager

CONSTANTS a, b

VARIABLE scene

One == {a}
Two == {a, b}

Unlabelled == {{}}
Labelled   == {One}

Faults  == INSTANCE SerialManager
             WITH MaxDeaths <- 0, MaxFaults <- 1, MaxCloses <- 1
Label   == INSTANCE SerialManager
             WITH MaxDeaths <- 0, MaxCloses <- 1, Labellings <- Labelled
Traffic == INSTANCE SerialManager
             WITH Paths <- Two, MaxPlugs <- 0, MaxDeaths <- 0, MaxCloses <- 1,
                  MaxBytes <- 2, MaxTyped <- 1, MaxSessions <- 1
Again   == INSTANCE SerialManager
             WITH Paths <- Two, MaxPlugs <- 0, MaxDeaths <- 0, MaxCloses <- 1,
                  MaxBytes <- 1, MaxTyped <- 0

MCInit ==
  \/ scene = "life" /\ Init
  \/ scene = "faults" /\ Faults!Init
  \/ scene = "label" /\ Label!Init
  \/ scene = "traffic" /\ Traffic!Init
  \/ scene = "again" /\ Again!Init

MCNext ==
  /\ UNCHANGED scene
  /\ \/ scene = "life" /\ Next
     \/ scene = "faults" /\ Faults!Next
     \/ scene = "label" /\ Label!Next
     \/ scene = "traffic" /\ Traffic!Next
     \/ scene = "again" /\ Again!Next

MCSpec == MCInit /\ [][MCNext]_<<vars, scene>> /\ Fairness

\* OwnBytesInOrder in every scene: a view shows the bytes of its own port, in the
\* order sent, whatever waits in a buffer (EnsureStreamServer, earlyStreamData).
OwnBytesInEveryScene ==
  /\ scene \in {"life", "faults", "label"} => OwnBytesInOrder
  /\ scene = "traffic" => Traffic!OwnBytesInOrder
  /\ scene = "again" => Again!OwnBytesInOrder

\* ViewsAreFed in every scene: a port is held if and only if a connected view
\* shows it, once nothing is under way (ClosePort, HandleProxyMessage).
ViewsAreFedInEveryScene ==
  /\ scene \in {"life", "faults", "label"} => ViewsAreFed
  /\ scene = "traffic" => Traffic!ViewsAreFed
  /\ scene = "again" => Again!ViewsAreFed
=============================================================================
