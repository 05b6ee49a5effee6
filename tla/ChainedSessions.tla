----------------------------- MODULE ChainedSessions -----------------------------
(***************************************************************************)
(* The sessions of one VS Code window (extension.ts, cli-session.ts,       *)
(* config-provider.ts): a session launches others when its server or its   *)
(* gdb is up, ends those it manages when it ends itself, and is told which *)
(* ports the others use.  A session's adapter is a process that talks to   *)
(* the extension by events, which arrive in their order but late.          *)
(*                                                                         *)
(* A child that is not detached uses its parent's server, and has no RTT;  *)
(* one that is has a server of its own, as has a session without a parent. *)
(***************************************************************************)
EXTENDS PortScan

CONSTANTS
  Launches,    \* session -> the sessions its configuration chains, in order
  Detached,    \* sessions that start a server of their own though they have a parent
  Managed,     \* children that end with their parent (lifecycleManagedByParent)
  AtServer,    \* sessions to be launched when the parent's server is up, not its gdb
  Casts,       \* bound: the sessions that are started in one run
  MaxEnds      \* bound: servers that exit and sessions the user stops

ASSUME ChainAssumption ==
  /\ Launches \in [Adapters -> Seq(Adapters)]
  /\ Detached \cup Managed \subseteq Adapters
  /\ AtServer \subseteq Adapters
  /\ Casts \subseteq SUBSET Adapters
  /\ MaxEnds \in Nat

VARIABLES
  phase,      \* session -> "absent", "off", "due", "resolved", "launching",
              \* "released", "served", "up", "ending", "leaving", "over"
  mail,       \* session -> events on their way to the extension
  enrolled,     \* CurrentSessions
  shown,      \* sessions VS Code has announced as started
  tree,       \* pairs of a session and its child
  usedPorts,  \* session -> its ports as the extension knows them
  ends,       \* servers that exited and sessions the user stopped
  blind,      \* session -> those whose ports it could not be told of (history)
  missed      \* children that were not in the tree when their parent ended (history)

treeVars  == <<enrolled, shown, tree, usedPorts>>
chainVars == <<scanVars, phase, mail, treeVars, ends, blind, missed>>

Children(s) == ToSet(Launches[s])

\* A session has one parent at most, and one that ends with its parent has one.
ASSUME FamilyAssumption ==
  /\ \A p, q \in Adapters : Children(p) \cap Children(q) # {} => p = q
  /\ \A s \in Managed : \E p \in Adapters : s \in Children(p)

IsChild(s)  == \E p \in Adapters : s \in Children(p)
ParentOf(s) == CHOOSE p \in Adapters : s \in Children(p)
HasServer(s) == ~IsChild(s) \/ s \in Detached

Running(s) == phase[s] \in {"launching", "released", "served", "up"}
Lives(s)   == Running(s) \/ phase[s] \in {"resolved", "ending", "leaving"}

ChainInit ==
  /\ ScanInit
  /\ \E cast \in Casts : phase = [s \in Adapters |-> IF s \in cast THEN "off" ELSE "absent"]
  /\ mail = [s \in Adapters |-> << >>]
  /\ enrolled = {}
  /\ shown = {}
  /\ tree = {}
  /\ usedPorts = [s \in Adapters |-> {}]
  /\ ends = 0
  /\ blind = [s \in Adapters |-> {}]
  /\ missed = {}

Enter(s, p) == phase' = [phase EXCEPT ![s] = p]

Tell(s, event) == mail' = [mail EXCEPT ![s] = Append(@, event)]

\* What only matters to a session with children.
TellChain(s, event) == IF Launches[s] = << >> THEN UNCHANGED mail ELSE Tell(s, event)

-----------------------------------------------------------------------------
(* A session comes up *)

\* Faulty variant: only sessions that have been announced count.
ShownPorts == UNION {usedPorts[t] : t \in enrolled \cap shown}

\* getAllUsedPorts: of every session the extension has heard of, announced or not.
AllUsedPorts == UNION {usedPorts[t] : t \in enrolled}

\* The user starts a session, or the delay of a chained one is over.
\* resolveDebugConfiguration: the configuration says which ports to avoid.  A session
\* whose ports the extension has yet to hear of is not among them.
Resolved(s) ==
  /\ phase[s] = "due" \/ (phase[s] = "off" /\ ~IsChild(s))
  /\ Enter(s, "resolved")
  /\ avoid' = [avoid EXCEPT ![s] = AllUsedPorts]
  /\ blind' = [blind EXCEPT ![s] = {t \in Adapters : HasServer(t) /\ Lives(t) /\
                                      (Len(granted[t]) < 2 \/ \E i \in 1 .. Len(mail[t]) : mail[t][i].kind = "ports")}]
  /\ UNCHANGED <<net, claimed, serving, scan, granted, mail, treeVars, ends, missed>>

\* The adapter is launched.
Launched(s) ==
  /\ phase[s] = "resolved"
  /\ Enter(s, "launching")
  /\ IF HasServer(s) THEN Seeks(s, avoid[s]) ELSE UNCHANGED scanVars
  /\ UNCHANGED <<mail, treeVars, ends, blind, missed>>

Scans(s) == phase[s] = "launching" /\ Searches(s) /\ UNCHANGED <<phase, mail, treeVars, ends, blind, missed>>

Event(kind, s) == [kind |-> kind, ports |-> IF kind = "ports" THEN ToSet(FoundRange(s)) ELSE {}]

\* With the last range the claims are given back and the server may be started.
Allocated(s) ==
  /\ phase[s] = "launching"
  /\ Finds(s)
  /\ Tell(s, Event("ports", s))
  /\ IF scan[s].range = "rtt" THEN Enter(s, "released") ELSE UNCHANGED phase
  /\ UNCHANGED <<treeVars, ends, blind, missed>>

\* The server of its own is up, or that of its parent is there to be used.
ServerUp(s) ==
  /\ IF HasServer(s)
     THEN phase[s] = "released" /\ Serves(s)
     ELSE phase[s] = "launching" /\ serving[ParentOf(s)] # {} /\ UNCHANGED scanVars
  /\ Enter(s, "served")
  /\ TellChain(s, Event("server", s))
  /\ UNCHANGED <<treeVars, ends, blind, missed>>

GdbUp(s) ==
  /\ phase[s] = "served"
  /\ Enter(s, "up")
  /\ TellChain(s, Event("gdb", s))
  /\ UNCHANGED <<scanVars, treeVars, ends, blind, missed>>

-----------------------------------------------------------------------------
(* A session ends *)

Finish(s) ==
  /\ Running(s)
  /\ Enter(s, "ending")

\* The user stops it, or its server exits.
Quits(s) ==
  /\ ends < MaxEnds
  /\ Finish(s)
  /\ \E left \in {{}, serving[s]} : serving' = [serving EXCEPT ![s] = left]
  /\ ends' = ends + 1
  /\ UNCHANGED <<net, claimed, avoid, scan, granted, mail, treeVars, blind, missed>>

\* It cannot get ports, its server cannot listen on them because some program took
\* one in the meantime, or it lost the server it shares.
Fails(s) ==
  /\ \/ Exhausted(s)
     \/ phase[s] = "released"
     \/ /\ ~HasServer(s)
        /\ Running(s)
        /\ serving[ParentOf(s)] = {}
  /\ Finish(s)
  /\ UNCHANGED <<scanVars, mail, treeVars, ends, blind, missed>>

\* Faulty variant: nothing is said of the end, as by terminateRequest.
SilentDisconnects(s) ==
  /\ phase[s] = "ending"
  /\ Enter(s, "leaving")
  /\ UNCHANGED <<scanVars, mail, treeVars, ends, blind, missed>>

\* disconnectRequest: the extension is told when there may be children.
Disconnects(s) ==
  /\ phase[s] = "ending"
  /\ Enter(s, "leaving")
  /\ TellChain(s, Event("terminating", s))
  /\ UNCHANGED <<scanVars, treeVars, ends, blind, missed>>

\* The adapter has gone; VS Code tells the extension after all it sent.
Exits(s) ==
  /\ phase[s] = "leaving"
  /\ s \in shown
  /\ Enter(s, "over")
  /\ Leaves(s)
  /\ Tell(s, Event("terminated", s))
  /\ UNCHANGED <<treeVars, ends, blind, missed>>

-----------------------------------------------------------------------------
(* The extension *)

\* GetSession: the first event of a session enrols it.
Enrols(s) == enrolled' = enrolled \cup {s}

\* NewSessionStarted: a child is put in the tree if its parent is enrolled.
Shown(s) ==
  /\ Running(s) \/ phase[s] \in {"ending", "leaving"}
  /\ s \notin shown
  /\ shown' = shown \cup {s}
  /\ Enrols(s)
  /\ tree' = IF s \in Managed /\ ParentOf(s) \in enrolled THEN tree \cup {<<ParentOf(s), s>>} ELSE tree
  /\ UNCHANGED <<scanVars, phase, mail, usedPorts, ends, blind, missed>>

Arrives(s, kind) ==
  /\ mail[s] # << >>
  /\ Head(mail[s]).kind = kind
  /\ mail' = [mail EXCEPT ![s] = Tail(@)]

\* registerPortsAsUsed.
PortsUsed(s) ==
  /\ Arrives(s, "ports")
  /\ Enrols(s)
  /\ usedPorts' = [usedPorts EXCEPT ![s] = @ \cup Head(mail[s]).ports]
  /\ UNCHANGED <<scanVars, phase, shown, tree, ends, blind, missed>>

\* startChainedConfigs: the wait for a detached session that is not the last fails at
\* once (the promise is named in its own executor), and the rest is not launched.
Chained(s, kind) ==
  LET now   == {i \in DOMAIN Launches[s] : (Launches[s][i] \in AtServer) = (kind = "server")}
      stops == {i \in now : Launches[s][i] \in Detached /\ \E j \in now : i < j}
  IN  {Launches[s][i] : i \in {i \in now : \A j \in stops : i <= j}}

LaunchesChained(s) ==
  \E kind \in {"server", "gdb"} :
    /\ Arrives(s, kind)
    /\ Enrols(s)
    /\ phase' = [c \in Adapters |-> IF c \in Chained(s, kind) /\ phase[c] = "off" THEN "due" ELSE phase[c]]
    /\ UNCHANGED <<scanVars, shown, tree, usedPorts, ends, blind, missed>>

\* The sessions below s in the tree, at any depth.
Below(s) == {c \in Adapters : \A C \in SUBSET Adapters :
               (\A e \in tree : e[1] \in C \cup {s} => e[2] \in C) => c \in C}

\* endChainedConfigs: a child that has yet to come up, or to be announced, is not there.
Terminating(s) ==
  /\ Arrives(s, "terminating")
  /\ phase' = [c \in Adapters |-> IF c \in Below(s) /\ Running(c) THEN "ending" ELSE phase[c]]
  /\ missed' = missed \cup {c \in Children(s) : phase[c] \notin {"absent", "off"} /\ <<s, c>> \notin tree}
  /\ UNCHANGED <<scanVars, treeVars, ends, blind>>

\* RemoveSession: its children keep no parent the extension knows of.
Removed(s) ==
  /\ Arrives(s, "terminated")
  /\ enrolled' = enrolled \ {s}
  /\ tree' = {e \in tree : e[2] # s}
  /\ UNCHANGED <<scanVars, phase, shown, usedPorts, ends, blind, missed>>

-----------------------------------------------------------------------------
ComesUp(s) == Resolved(s) \/ Launched(s) \/ Scans(s) \/ Allocated(s) \/ ServerUp(s) \/ GdbUp(s)

Extension(s) ==
  Shown(s) \/ PortsUsed(s) \/ LaunchesChained(s) \/ Terminating(s) \/ Removed(s)

ChainProgress == \E s \in Adapters : ComesUp(s) \/ Fails(s) \/ Disconnects(s) \/ Exits(s) \/ Extension(s)

ChainNext == ChainProgress \/ \E s \in Adapters : Quits(s)

ChainSpec == ChainInit /\ [][ChainNext]_chainVars

-----------------------------------------------------------------------------
(* Properties *)

\* Two sessions that live at the same time have no port in common, although neither
\* holds on to its ports: a session is told of those the others were granted, even
\* before VS Code has announced them.  Not so for two (`blind`) of which the one had its
\* configuration resolved before the extension had heard of the ports of the other, be it
\* that they were not claimed yet or that the event was still on its way.
PortsKeptApart ==
  \A s, t \in Adapters :
    s # t /\ Lives(s) /\ Lives(t) /\ PortsOf(s) \cap PortsOf(t) # {} => s \in blind[t] \/ t \in blind[s]

\* When all is still, a session whose parent is over is over too, whatever the order in
\* which they came up and were announced.  Not so for a child (`missed`) that was not in the
\* tree yet when its parent said it was about to end: nobody ends it.
Still == \A s \in Adapters : mail[s] = << >> /\ phase[s] \in {"absent", "off", "up", "over"}

ChildrenFollow ==
  Still => \A s \in Managed : phase[s] = "up" /\ phase[ParentOf(s)] = "over" => s \in missed

=============================================================================
