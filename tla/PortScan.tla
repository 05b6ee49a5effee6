-------------------------------- MODULE PortScan --------------------------------
(***************************************************************************)
(* How the adapters of one machine find TCP ports (find-free-ports.ts).    *)
(* A port is claimed by listening on it; the claim is given back before    *)
(* the gdb-server, which listens on the port itself, is started.  Between  *)
(* the two, only the list of ports to avoid keeps the sessions apart.      *)
(*                                                                         *)
(* Each session is a process of its own.  It needs two ranges: the ports   *)
(* of its server, side by side, then those of RTT, anywhere.               *)
(***************************************************************************)
EXTENDS Naturals, FiniteSets, SequencesExt

CONSTANTS
  Adapters,
  Cores,       \* the ports a server needs: one per core
  Channels,    \* the ports RTT needs
  RttBase,     \* where the scan for RTT starts
  LastPort,    \* bound: the last port below the ephemeral ones
  Machines     \* bound: the machines considered (see net)

\* Addresses a socket is bound to.
Loopback == "127.0.0.1"
Wildcard == "0.0.0.0"

ASSUME ScanAssumption ==
  /\ {Cores, Channels, RttBase, LastPort} \subseteq Nat \ {0}
  /\ Machines \subseteq {m \in [independent : BOOLEAN, measured : BOOLEAN,
                               server : {Loopback, Wildcard},
                               squatted : SUBSET (Nat \X {Loopback, Wildcard})] :
                        m.measured => m.independent}

VARIABLES
  net,       \* independent: the two addresses are separate on this machine;
             \* measured: what the probe made of it; server: the address that
             \* gdb-servers listen on; squatted: what other programs listen on
  claimed,   \* session -> the endpoints it listens on to claim them
  serving,   \* session -> the endpoints of its server
  avoid,     \* session -> AvoidPorts
  scan,      \* session -> the search: the range wanted, the port tried, the
             \* addresses of it bound, the ports gathered
  granted    \* session -> the ports found, range by range

scanVars == <<net, claimed, serving, avoid, scan, granted>>

NoScan == [range |-> "none", port |-> 0, hosts |-> 0, run |-> << >>]

StartOf(range) == [range |-> range, port |-> IF range = "gdb" THEN 1 ELSE RttBase, hosts |-> 0, run |-> << >>]

Wanted(range)      == IF range = "gdb" THEN Cores ELSE Channels
Consecutive(range) == range = "gdb"

\* hostsAreIndependent: a probe that fails by accident says no, never a wrong yes.
ScanInit ==
  /\ net \in Machines
  /\ claimed = [s \in Adapters |-> {}]
  /\ serving = [s \in Adapters |-> {}]
  /\ avoid = [s \in Adapters |-> {}]
  /\ scan = [s \in Adapters |-> NoScan]
  /\ granted = [s \in Adapters |-> << >>]

Hosts == IF net.measured THEN <<Loopback, Wildcard>> ELSE <<Wildcard>>

Listeners == net.squatted \cup UNION {claimed[s] \cup serving[s] : s \in Adapters}

\* Where the addresses are not independent the wildcard conflicts with every other.
Bindable(e) ==
  IF net.independent THEN e \notin Listeners ELSE \A host \in {Loopback, Wildcard} : <<e[1], host>> \notin Listeners

Claims(ports) == ports \X ToSet(Hosts)

PortsOf(s) == UNION {ToSet(range) : range \in ToSet(granted[s])}

Trying(sc)   == {<<sc.port, Hosts[i]>> : i \in 1 .. sc.hosts}

-----------------------------------------------------------------------------
(* findAvailablePortRange, claimPort *)

\* The next address of the port can be bound.
CanBind(s) ==
  LET sc == scan[s]
  IN  /\ sc.range # "none"
      /\ sc.port <= LastPort
      /\ sc.port \notin avoid[s]
      /\ Bindable(<<sc.port, Hosts[sc.hosts + 1]>>)

Bound(s) == claimed[s] \cup {<<scan[s].port, Hosts[scan[s].hosts + 1]>>}

FoundRange(s) == Append(scan[s].run, scan[s].port)

\* With its last address the port is ours; with the last port the range is complete.
LastAddress(s) == scan[s].hosts + 1 = Len(Hosts)
LastOfRange(s) == Len(FoundRange(s)) = Wanted(scan[s].range)

Binds(s) ==
  /\ CanBind(s)
  /\ ~(LastAddress(s) /\ LastOfRange(s))
  /\ claimed' = [claimed EXCEPT ![s] = Bound(s)]
  /\ LET sc == scan[s]
     IN  scan' = [scan EXCEPT ![s] =
                    IF LastAddress(s) THEN [sc EXCEPT !.port = sc.port + 1, !.hosts = 0, !.run = FoundRange(s)]
                    ELSE [sc EXCEPT !.hosts = sc.hosts + 1]]
  /\ UNCHANGED <<net, serving, avoid, granted>>

\* Its ports are to be avoided from now on, and are announced.  The server's ports are
\* followed by those of RTT; with these the session has all, and gives them back.
Finds(s) ==
  /\ CanBind(s)
  /\ LastAddress(s)
  /\ LastOfRange(s)
  /\ granted' = [granted EXCEPT ![s] = Append(@, FoundRange(s))]
  /\ avoid' = [avoid EXCEPT ![s] = @ \cup ToSet(FoundRange(s))]
  /\ scan' = [scan EXCEPT ![s] = IF @.range = "gdb" THEN StartOf("rtt") ELSE NoScan]
  /\ claimed' = [claimed EXCEPT ![s] = IF scan[s].range = "gdb" THEN Bound(s) ELSE {}]
  /\ UNCHANGED <<net, serving>>

\* Faulty variant: what was gathered stays bound when the run breaks.
KeepsRun(s) ==
  LET sc == scan[s]
  IN  /\ sc.range # "none"
      /\ sc.port <= LastPort
      /\ ~CanBind(s)
      /\ LET breaks == Consecutive(sc.range) /\ sc.run # << >>
         IN  /\ claimed' = [claimed EXCEPT ![s] = @ \ Trying(sc)]
             /\ scan' = [scan EXCEPT ![s] = [sc EXCEPT !.port = sc.port + 1, !.hosts = 0,
                                                       !.run = IF breaks THEN << >> ELSE sc.run]]
      /\ UNCHANGED <<net, serving, avoid, granted>>

\* The port is to be avoided or an address of it is taken: none of it is kept, nor,
\* where the ports must be consecutive, of those before it.
Skips(s) ==
  LET sc == scan[s]
  IN  /\ sc.range # "none"
      /\ sc.port <= LastPort
      /\ ~CanBind(s)
      /\ LET breaks == Consecutive(sc.range) /\ sc.run # << >>
         IN  /\ claimed' = [claimed EXCEPT ![s] = @ \ (Trying(sc) \cup IF breaks THEN Claims(ToSet(sc.run)) ELSE {})]
             /\ scan' = [scan EXCEPT ![s] = [sc EXCEPT !.port = sc.port + 1, !.hosts = 0,
                                                       !.run = IF breaks THEN << >> ELSE sc.run]]
      /\ UNCHANGED <<net, serving, avoid, granted>>

\* No range was found below the ephemeral ports.
Exhausted(s) == scan[s].range # "none" /\ scan[s].port > LastPort

Searches(s) == Binds(s) \/ Skips(s)

-----------------------------------------------------------------------------
(* The session and its server *)

\* seedAvoidPorts, and the search for the ports of the server.
Seeks(s, ports) ==
  /\ avoid' = [avoid EXCEPT ![s] = ports]
  /\ scan' = [scan EXCEPT ![s] = StartOf("gdb")]
  /\ UNCHANGED <<net, claimed, serving, granted>>

\* The server listens on what it was given.
ServerPorts(s) == PortsOf(s) \X {net.server}

Serves(s) ==
  /\ \A e \in ServerPorts(s) : Bindable(e)
  /\ serving' = [serving EXCEPT ![s] = ServerPorts(s)]
  /\ UNCHANGED <<net, claimed, avoid, scan, granted>>

\* Everything a session listens on goes with it.
Leaves(s) ==
  /\ claimed' = [claimed EXCEPT ![s] = {}]
  /\ serving' = [serving EXCEPT ![s] = {}]
  /\ scan' = [scan EXCEPT ![s] = NoScan]
  /\ UNCHANGED <<net, avoid, granted>>

\* A session listens on the ports it is gathering and those it was granted, on every
\* address it takes for separate, and on nothing else: no search leaves a port behind.
HoldsWhatItGathers ==
  \A s \in Adapters :
    LET sc == scan[s]
    IN  claimed[s] = IF sc.range = "none" THEN {}
                  ELSE Claims(PortsOf(s) \cup ToSet(sc.run))
                       \cup Trying(sc)

\* The ports of a server are side by side, for the cores count up from the first.
CoresAreSideBySide ==
  \A s \in Adapters : granted[s] # << >> =>
    \A i \in 1 .. Cores : granted[s][1][i] = granted[s][1][1] + i - 1

=============================================================================
