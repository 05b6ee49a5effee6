---------------------------- MODULE ProxyAccessProofs ----------------------------
(***************************************************************************)
(* That no ssh process is left to run on unknown, for any number of calls, *)
(* machines and requests, but for one whose slot was cleared by the late   *)
(* exit of an older process.                                               *)
(*                                                                         *)
(* The three kinds of process are kept in the same way (Kept): one slot,   *)
(* emptied before the next process is awaited.  The exit of a process      *)
(* empties the slot whoever is in it, so one it does not belong to is      *)
(* remembered as lost.                                                     *)
(***************************************************************************)
EXTENDS ProxyAccess, TLAPS

\* Who awaits the start of a process of a kind.
AgentWaits   == {c \in Calls : at[c] = "agent"}
TunnelWaits  == {c \in Calls : at[c] = "tunnel"}
ReverseWaits == {c \in Calls : launch[c] = "reverse"}

States == {"none", "running", "open", "dying", "gone"}

Lives(state) == state \in {"running", "open"}

\* Of the processes k, in states P, those that live are in the slot, awaited in W or in L.
Kept(k, P, slot, W, L) ==
  /\ slot \in {None} \cup ({k} \X Calls)
  /\ \A c \in Calls : Lives(P[<<k, c>>]) => slot = <<k, c>> \/ c \in W \/ <<k, c>> \in L
  /\ W # {} => slot = None

\* One attempt is under way at a time.
OneBusy == \A c, d \in Calls : Busy(c) /\ Busy(d) => c = d

\* One that is on its way to a tunnel has closed the last.
Path == {"uname", "deploy", "agent", "port", "tunnel"}
PathInv == \A c \in Calls : at[c] \in Path => tunnelProcess = None

Places   == Path \cup Ended \cup {"alias", "launch", "local", "probe", "again", "asked"}
Launches == {"none", "wsl", "policy", "reverse", "lost", "over"}

\* A call that has yet to be sorted has launched nothing.
LaunchInv == \A c \in Calls : at[c] \in {"idle", "alias"} => launch[c] = "none"

Types ==
  /\ at \in [Calls -> Places]
  /\ launch \in [Calls -> Launches]
  /\ ssh \in [Procs -> States]

Tidy ==
  /\ OneBusy
  /\ PathInv
  /\ LaunchInv
  /\ Kept("agent", ssh, agentProcess, AgentWaits, strays)
  /\ Kept("tunnel", ssh, tunnelProcess, TunnelWaits, strays)
  /\ Kept("reverse", ssh, revProcess, ReverseWaits, strays)

IInv == Types /\ (~mixed => Tidy)

-----------------------------------------------------------------------------
(* Processes *)

LEMMA ProcsOfKinds ==
  ASSUME NEW k \in Kinds, NEW c \in Calls
  PROVE  /\ <<k, c>> \in Procs /\ <<k, c>> # None
         /\ \A l, d : <<k, c>> = <<l, d>> <=> k = l /\ c = d
  BY SshAssumption DEF Procs

LEMMA KillEffect ==
  ASSUME NEW P \in [Procs -> States], NEW p
  PROVE  /\ Kill(P, p) \in [Procs -> States]
         /\ \A q \in Procs :
              Kill(P, p)[q] = IF q = p /\ p # None /\ Lives(P[p]) THEN "dying" ELSE P[q]
<1>1. CASE p # None /\ Lives(P[p])
  <2>1. Kill(P, p) = [P EXCEPT ![p] = "dying"]
    BY <1>1 DEF Kill, Lives
  <2> QED BY <1>1, <2>1 DEF States
<1>2. CASE ~(p # None /\ Lives(P[p]))
  <2>1. Kill(P, p) = P
    BY <1>2 DEF Kill, Lives
  <2> QED BY <1>2, <2>1
<1> QED BY <1>1, <1>2

\* What is done to processes of other kinds does not matter.
LEMMA KeptApart ==
  ASSUME NEW k \in Kinds, NEW P, NEW Q, NEW s, NEW W,
         NEW L, Kept(k, P, s, W, L), \A c \in Calls : Q[<<k, c>>] = P[<<k, c>>]
  PROVE  Kept(k, Q, s, W, L)
  BY DEF Kept

LEMMA KeptKilled ==
  ASSUME NEW k \in Kinds, NEW P \in [Procs -> States], NEW s, NEW L,
         Kept(k, P, s, {}, L)
  PROVE  Kept(k, Kill(P, s), None, {}, L)
<1>1. ASSUME NEW c \in Calls
      PROVE  Lives(Kill(P, s)[<<k, c>>]) => <<k, c>> \in L
  <2>1. <<k, c>> \in Procs /\ <<k, c>> # None
    BY ProcsOfKinds
  <2>2. Lives(P[<<k, c>>]) => s = <<k, c>> \/ <<k, c>> \in L
    BY DEF Kept
  <2>3. Kill(P, s)[<<k, c>>] =
          IF <<k, c>> = s /\ s # None /\ Lives(P[s]) THEN "dying" ELSE P[<<k, c>>]
    BY <2>1, KillEffect
  <2> QED BY <2>1, <2>2, <2>3 DEF Lives
<1> QED BY <1>1 DEF Kept

LEMMA KeptSpawned ==
  ASSUME NEW k \in Kinds, NEW P \in [Procs -> States], NEW c \in Calls, NEW L,
         Kept(k, P, None, {}, L)
  PROVE  Kept(k, [P EXCEPT ![<<k, c>>] = "running"], None, {c}, L)
  BY ProcsOfKinds DEF Kept, Lives

LEMMA KeptOpened ==
  ASSUME NEW k \in Kinds, NEW P \in [Procs -> States], NEW s, NEW c \in Calls,
         NEW L, Kept(k, P, s, {c}, L)
  PROVE  Kept(k, [P EXCEPT ![<<k, c>>] = "open"], <<k, c>>, {}, L)
  BY ProcsOfKinds DEF Kept, Lives

LEMMA KeptGivenUp ==
  ASSUME NEW k \in Kinds, NEW P \in [Procs -> States], NEW s, NEW c \in Calls,
         NEW L, Kept(k, P, s, {c}, L)
  PROVE  Kept(k, Kill(P, <<k, c>>), None, {}, L)
<1>1. ASSUME NEW d \in Calls
      PROVE  Lives(Kill(P, <<k, c>>)[<<k, d>>]) => <<k, d>> \in L
  <2>1. <<k, d>> \in Procs /\ <<k, c>> # None /\ (<<k, c>> = <<k, d>> <=> d = c)
    BY ProcsOfKinds
  <2>2. Lives(P[<<k, d>>]) => d = c \/ <<k, d>> \in L
    BY <2>1, ProcsOfKinds DEF Kept
  <2>3. Kill(P, <<k, c>>)[<<k, d>>] =
          IF <<k, d>> = <<k, c>> /\ <<k, c>> # None /\ Lives(P[<<k, c>>])
            THEN "dying" ELSE P[<<k, d>>]
    BY <2>1, KillEffect
  <2> QED BY <2>1, <2>2, <2>3 DEF Lives
<1> QED BY <1>1 DEF Kept

LEMMA KeptWhenMoreAreLost ==
  ASSUME NEW k, NEW P, NEW s, NEW W, NEW L, NEW M, Kept(k, P, s, W, L), L \subseteq M
  PROVE  Kept(k, P, s, W, M)
  BY DEF Kept

\* An exit empties the slot, whoever is in it.
LEMMA KeptReaped ==
  ASSUME NEW k \in Kinds, NEW P \in [Procs -> States], NEW s, NEW W, NEW c \in Calls,
         NEW L, Kept(k, P, s, W, L)
  PROVE  Kept(k, [P EXCEPT ![<<k, c>>] = "gone"], None, W \ {c}, L \cup Ousted(s, <<k, c>>))
  BY ProcsOfKinds DEF Kept, Lives, Ousted

LEMMA KeptDying ==
  ASSUME NEW k \in Kinds, NEW P \in [Procs -> States], NEW s, NEW W, NEW p \in Procs,
         NEW L, Kept(k, P, s, W, L), Lives(P[p])
  PROVE  Kept(k, [P EXCEPT ![p] = "dying"], s, W, L)
  BY ProcsOfKinds DEF Kept, Lives

-----------------------------------------------------------------------------
(* The call whose turn it is *)

\* Nobody but c does anything, and nobody but c is busy.
Turn(c) ==
  \A d \in Calls \ {c} : at'[d] = at[d] /\ launch'[d] = launch[d] /\ ~Busy(d)

LEMMA BusyPlaces ==
  ASSUME NEW c \in Calls
  PROVE  /\ at[c] \in Path \cup {"alias", "launch", "local", "probe", "again", "asked"} => Busy(c)
         /\ launch[c] \in {"wsl", "policy", "reverse", "lost"} => Busy(c)
  BY DEF Busy, Ended, Path

LEMMA TurnIsAlone ==
  ASSUME Tidy, NEW c \in Calls, Busy(c),
         \A d \in Calls \ {c} : at'[d] = at[d] /\ launch'[d] = launch[d]
  PROVE  Turn(c)
  BY DEF Tidy, OneBusy, Turn

LEMMA TurnKeepsLaunch ==
  ASSUME LaunchInv, NEW c \in Calls, Turn(c),
         at'[c] \in {"idle", "alias"} => launch'[c] = "none"
  PROVE  LaunchInv'
  BY DEF LaunchInv, Turn

LEMMA TurnWaits ==
  ASSUME NEW c \in Calls, Turn(c)
  PROVE  /\ AgentWaits = IF at[c] = "agent" THEN {c} ELSE {}
         /\ TunnelWaits = IF at[c] = "tunnel" THEN {c} ELSE {}
         /\ ReverseWaits = IF launch[c] = "reverse" THEN {c} ELSE {}
         /\ AgentWaits' = IF at'[c] = "agent" THEN {c} ELSE {}
         /\ TunnelWaits' = IF at'[c] = "tunnel" THEN {c} ELSE {}
         /\ ReverseWaits' = IF launch'[c] = "reverse" THEN {c} ELSE {}
         /\ OneBusy'
<1>1. \A d \in Calls \ {c} : ~Busy(d) /\ ~Busy(d)' /\ at'[d] = at[d] /\ launch'[d] = launch[d]
  BY DEF Turn, Busy
<1>2. \A d \in Calls \ {c} : at[d] \notin {"agent", "tunnel"} /\ launch[d] # "reverse"
  BY <1>1, BusyPlaces DEF Path
<1> QED
  BY <1>1, <1>2 DEF AgentWaits, TunnelWaits, ReverseWaits, OneBusy

\* A call that goes on to where no process is awaited.
LEMMA TurnWithoutProcess ==
  ASSUME Tidy, NEW c \in Calls, Turn(c),
         UNCHANGED <<ssh, slotVars, revProcess, strays>>,
         at'[c] = at[c] \/ {at[c], at'[c]} \cap {"agent", "tunnel"} = {},
         launch'[c] = launch[c] \/ (launch[c] # "reverse" /\ launch'[c] # "reverse"),
         at'[c] \in Path => at[c] \in Path,
         at'[c] \in {"idle", "alias"} => launch'[c] = "none"
  PROVE  Tidy'
<1>1. /\ OneBusy'
      /\ AgentWaits' = AgentWaits
      /\ TunnelWaits' = TunnelWaits
      /\ ReverseWaits' = ReverseWaits
  BY TurnWaits
<1>2. PathInv'
  BY DEF Tidy, PathInv, Turn, slotVars
<1> QED
  BY <1>1, <1>2, TurnKeepsLaunch DEF Tidy, slotVars

-----------------------------------------------------------------------------
(* What a step leaves alone *)

LEMMA OthersSpared ==
  ASSUME NEW P \in [Procs -> States], NEW k \in Kinds, NEW l \in Kinds, k # l, NEW c \in Calls
  PROVE  /\ \A x : \A d \in Calls : [P EXCEPT ![<<l, d>>] = x][<<k, c>>] = P[<<k, c>>]
         /\ \A s \in {None} \cup ({l} \X Calls) : Kill(P, s)[<<k, c>>] = P[<<k, c>>]
<1>1. <<k, c>> \in Procs /\ \A d \in Calls : <<l, d>> # <<k, c>>
  BY ProcsOfKinds
<1>2. ASSUME NEW s \in {None} \cup ({l} \X Calls)
      PROVE  Kill(P, s)[<<k, c>>] = P[<<k, c>>]
  <2>1. <<k, c>> # s \/ s = None
    BY <1>1
  <2> QED BY <1>1, <2>1, KillEffect
<1> QED BY <1>1, <1>2

\* A slot that has been emptied keeps nothing that could be killed.
LEMMA NobodyKilled ==
  ASSUME NEW k \in Kinds, NEW P \in [Procs -> States], NEW s, NEW L,
         Kept(k, P, None, {}, L)
  PROVE  Kept(k, Kill(P, s), None, {}, L)
<1>1. ASSUME NEW c \in Calls
      PROVE  Lives(Kill(P, s)[<<k, c>>]) => <<k, c>> \in L
  <2>1. <<k, c>> \in Procs /\ <<k, c>> # None /\ (Lives(P[<<k, c>>]) => <<k, c>> \in L)
    BY ProcsOfKinds DEF Kept
  <2> QED BY <2>1, KillEffect DEF Lives
<1> QED BY <1>1 DEF Kept

\* The places c can be in are a function still.
LEMMA OthersStay ==
  ASSUME Types, NEW c \in Calls,
         at' = at \/ \E how \in Places : at' = [at EXCEPT ![c] = how],
         launch' = launch \/ \E l \in Launches : launch' = [launch EXCEPT ![c] = l]
  PROVE  /\ \A d \in Calls \ {c} : at'[d] = at[d] /\ launch'[d] = launch[d]
         /\ at' \in [Calls -> Places] /\ launch' \in [Calls -> Launches]
  BY DEF Types

\* c's launch ends, and c may go on with its outcome.
LetGo(c) ==
  /\ \E l \in {"over", "lost"} : launch' = [launch EXCEPT ![c] = l]
  /\ \/ at' = at
      \/ /\ at[c] \in {"launch", "local"}
         /\ \E how \in {"failed", "probe", "done"} : at' = [at EXCEPT ![c] = how]

LEMMA DeliverLetsGo ==
  ASSUME NEW c \in Calls, NEW o, Deliver(c, o)
  PROVE  LetGo(c)
<1>1. launch' = [launch EXCEPT ![c] = "over"]
  BY DEF Deliver
<1>2. CASE at[c] = "launch"
  BY <1>1, <1>2 DEF Deliver, TakeOutcome, Settle, Done, LetGo
<1>3. CASE at[c] = "local"
  BY <1>1, <1>3 DEF Deliver, TakeLocal, Settle, Done, LetGo
<1>4. CASE at[c] \notin {"launch", "local"}
  BY <1>1, <1>4 DEF Deliver, LetGo
<1> QED BY <1>2, <1>3, <1>4

LEMMA RejectedLetsGo ==
  ASSUME NEW c \in Calls, Rejected(c)
  PROVE  LetGo(c)
<1>1. CASE cli
  BY <1>1 DEF Rejected, LetGo
<1>2. CASE ~cli
  BY <1>2, DeliverLetsGo DEF Rejected
<1> QED BY <1>1, <1>2

LEMMA LetGoStays ==
  ASSUME Types, NEW c \in Calls, LetGo(c)
  PROVE  /\ \A d \in Calls \ {c} : at'[d] = at[d] /\ launch'[d] = launch[d]
         /\ at' \in [Calls -> Places] /\ launch' \in [Calls -> Launches]
         /\ launch'[c] \in {"over", "lost"}
         /\ \/ at'[c] = at[c]
            \/ at[c] \in {"launch", "local"} /\ at'[c] \in {"failed", "probe", "done"}
<1>0. {"over", "lost"} \subseteq Launches /\ {"failed", "probe", "done"} \subseteq Places
  BY DEF Places, Launches, Ended
<1>1. /\ at' = at \/ \E how \in Places : at' = [at EXCEPT ![c] = how]
      /\ launch' = launch \/ \E l \in Launches : launch' = [launch EXCEPT ![c] = l]
  BY <1>0 DEF LetGo
<1>2. /\ launch'[c] \in {"over", "lost"}
      /\ \/ at'[c] = at[c]
         \/ at[c] \in {"launch", "local"} /\ at'[c] \in {"failed", "probe", "done"}
  BY DEF LetGo, Types
<1> QED BY <1>1, <1>2, OthersStay

LEMMA LetGoLeaves ==
  ASSUME Types, Tidy, NEW c \in Calls, LetGo(c), launch[c] = "reverse", UNCHANGED slotVars
  PROVE  /\ AgentWaits' = AgentWaits /\ TunnelWaits' = TunnelWaits
         /\ ReverseWaits = {c} /\ ReverseWaits' = {}
         /\ OneBusy' /\ PathInv' /\ LaunchInv'
<1>1. Turn(c)
  BY LetGoStays, BusyPlaces, TurnIsAlone
<1>2. at[c] \notin {"idle", "alias"}
  BY DEF Tidy, LaunchInv
<1>3. /\ at'[c] \notin {"idle", "alias"}
      /\ at'[c] \in {"agent", "tunnel"} \/ at[c] \in {"agent", "tunnel"} => at'[c] = at[c]
      /\ at'[c] \in Path => at[c] \in Path
      /\ launch'[c] # "reverse"
  BY <1>2, LetGoStays DEF Path
<1>4. PathInv'
  BY <1>1, <1>3 DEF Tidy, PathInv, Turn, slotVars
<1> QED BY <1>1, <1>3, <1>4, TurnWaits, TurnKeepsLaunch DEF Tidy

\* It does so without touching a process.
LEMMA LetGoKeeps ==
  ASSUME Types, Tidy, NEW c \in Calls, LetGo(c), launch[c] \in {"wsl", "policy", "lost"},
         UNCHANGED <<ssh, slotVars, revProcess, strays>>
  PROVE  Tidy'
<1>1. Turn(c)
  BY LetGoStays, BusyPlaces, TurnIsAlone
<1>2. at[c] \notin {"idle", "alias"}
  BY DEF Tidy, LaunchInv
<1> QED BY <1>1, <1>2, LetGoStays, TurnWithoutProcess DEF Path

LEMMA ApartFromOne ==
  ASSUME NEW P \in [Procs -> States], NEW k \in Kinds, NEW l \in Kinds, k # l, NEW s, NEW W,
         NEW L, Kept(k, P, s, W, L), NEW d \in Calls, NEW x
  PROVE  Kept(k, [P EXCEPT ![<<l, d>>] = x], s, W, L)
<1>1. \A c \in Calls : [P EXCEPT ![<<l, d>>] = x][<<k, c>>] = P[<<k, c>>]
  BY OthersSpared
<1> QED BY <1>1, KeptApart

LEMMA ApartFromKill ==
  ASSUME NEW P \in [Procs -> States], NEW k \in Kinds, NEW l \in Kinds, k # l, NEW s, NEW W,
         NEW L, Kept(k, P, s, W, L), NEW p \in {None} \cup ({l} \X Calls)
  PROVE  Kept(k, Kill(P, p), s, W, L)
<1>1. \A c \in Calls : Kill(P, p)[<<k, c>>] = P[<<k, c>>]
  BY OthersSpared
<1> QED BY <1>1, KeptApart

-----------------------------------------------------------------------------
(* The tunnel over ssh *)

\* What is swept: the tunnel, and the agent's process if there was a tunnel.
LEMMA SweptClean ==
  ASSUME Types, Kept("agent", ssh, agentProcess, {}, strays), Kept("tunnel", ssh, tunnelProcess, {}, strays),
         NEW W, Kept("reverse", ssh, revProcess, W, strays)
  PROVE  /\ Swept \in [Procs -> States]
         /\ Kept("agent", Swept, IF tunnelProcess = None THEN agentProcess ELSE None, {}, strays)
         /\ Kept("tunnel", Swept, None, {}, strays)
         /\ Kept("reverse", Swept, revProcess, W, strays)
<1>1. CASE tunnelProcess = None
  <2>1. Swept = ssh
    BY <1>1 DEF Swept
  <2> QED BY <1>1, <2>1 DEF Types
<1>2. CASE tunnelProcess # None
  <2> DEFINE P == Kill(ssh, agentProcess)
  <2>1. Swept = Kill(P, tunnelProcess)
    BY <1>2 DEF Swept
  <2>2. /\ agentProcess \in {None} \cup ({"agent"} \X Calls)
        /\ tunnelProcess \in {None} \cup ({"tunnel"} \X Calls)
    BY DEF Kept
  <2>3. /\ ssh \in [Procs -> States]
        /\ P \in [Procs -> States]
        /\ {"agent", "tunnel", "reverse"} = Kinds
    BY KillEffect DEF Types, Kinds
  <2>4. Kept("agent", P, None, {}, strays)
    BY <2>3, KeptKilled
  <2>5. Kept("tunnel", P, tunnelProcess, {}, strays) /\ Kept("reverse", P, revProcess, W, strays)
    BY <2>2, <2>3, ApartFromKill
  <2> HIDE DEF P
  <2>6. Kept("tunnel", Kill(P, tunnelProcess), None, {}, strays)
    BY <2>3, <2>5, KeptKilled
  <2>7. /\ Kept("agent", Kill(P, tunnelProcess), None, {}, strays)
        /\ Kept("reverse", Kill(P, tunnelProcess), revProcess, W, strays)
    BY <2>2, <2>3, <2>4, <2>5, ApartFromKill
  <2>8. Kill(P, tunnelProcess) \in [Procs -> States]
    BY <2>3, KillEffect
  <2> QED BY <1>2, <2>1, <2>6, <2>7, <2>8
<1> QED BY <1>1, <1>2

\* The agent is started, the last one's process killed.
LEMMA SpawnsAgent ==
  ASSUME NEW c \in Calls, NEW P \in [Procs -> States], NEW s, NEW W,
         agentProcess \in {None} \cup ({"agent"} \X Calls),
         Kept("agent", P, agentProcess, {}, strays) \/ Kept("agent", P, None, {}, strays),
         Kept("tunnel", P, s, {}, strays), Kept("reverse", P, revProcess, W, strays)
  PROVE  LET Q == [Kill(P, agentProcess) EXCEPT ![<<"agent", c>>] = "running"]
         IN  /\ Q \in [Procs -> States]
             /\ Kept("agent", Q, None, {c}, strays)
             /\ Kept("tunnel", Q, s, {}, strays)
             /\ Kept("reverse", Q, revProcess, W, strays)
<1> DEFINE K == Kill(P, agentProcess)
<1>1. K \in [Procs -> States] /\ {"agent", "tunnel", "reverse"} = Kinds
  BY KillEffect DEF Kinds
<1>2. Kept("agent", K, None, {}, strays)
  BY <1>1, KeptKilled, NobodyKilled
<1>3. Kept("tunnel", K, s, {}, strays) /\ Kept("reverse", K, revProcess, W, strays)
  BY <1>1, ApartFromKill
<1> HIDE DEF K
<1>4. [K EXCEPT ![<<"agent", c>>] = "running"] \in [Procs -> States]
  BY <1>1 DEF States
<1>5. Kept("agent", [K EXCEPT ![<<"agent", c>>] = "running"], None, {c}, strays)
  BY <1>1, <1>2, KeptSpawned
<1>6. /\ Kept("tunnel", [K EXCEPT ![<<"agent", c>>] = "running"], s, {}, strays)
      /\ Kept("reverse", [K EXCEPT ![<<"agent", c>>] = "running"], revProcess, W, strays)
  BY <1>1, <1>3, ApartFromOne
<1> QED BY <1>4, <1>5, <1>6 DEF K

LEMMA FreshIsTyped ==
  ASSUME Types, NEW c \in Calls, NEW r, FreshTunnel(c, r), UNCHANGED launchVars
  PROVE  Types'
<1>1. PICK how \in {"agent", "port", "uname"} : at' = [at EXCEPT ![c] = how]
  BY DEF FreshTunnel, SpawnAgent, Settle
<1>2. how \in Places
  BY DEF Places, Path
<1>3. at' \in [Calls -> Places] /\ launch' \in [Calls -> Launches]
  BY <1>1, <1>2 DEF Types, launchVars
<1>4. Swept \in [Procs -> States]
  BY KillEffect DEF Swept, Types
<1>5. ssh' = Swept \/ ssh' = [Kill(Swept, agentProcess) EXCEPT ![<<"agent", c>>] = "running"]
  BY DEF FreshTunnel, SpawnAgent
<1>6. ssh' \in [Procs -> States]
  <2>1. Kill(Swept, agentProcess) \in [Procs -> States]
    BY <1>4, KillEffect
  <2>2. [Kill(Swept, agentProcess) EXCEPT ![<<"agent", c>>] = "running"] \in [Procs -> States]
    BY <2>1 DEF States
  <2> QED BY <1>4, <1>5, <2>2
<1> QED BY <1>3, <1>6 DEF Types

\* startSshTunnel with no tunnel to take over.
LEMMA FreshKeeps ==
  ASSUME Types, Tidy, NEW c \in Calls, NEW r, FreshTunnel(c, r), at[c] = "idle",
         \A d \in Calls : ~Busy(d), UNCHANGED launchVars,
         strays' = strays
  PROVE  Tidy'
<1>1. PICK how \in {"agent", "port", "uname"} : at' = [at EXCEPT ![c] = how]
  BY DEF FreshTunnel, SpawnAgent, Settle
<1>2. /\ at'[c] = how /\ at' \in [Calls -> Places]
      /\ UNCHANGED <<launch, revProcess>> /\ Turn(c)
  <2>1. how \in Places
    BY DEF Places, Path
  <2> QED BY <1>1, <2>1 DEF Types, Turn, launchVars
<1>3. /\ Kept("agent", ssh, agentProcess, {}, strays) /\ Kept("tunnel", ssh, tunnelProcess, {}, strays)
      /\ Kept("reverse", ssh, revProcess, ReverseWaits, strays)
  BY <1>2, TurnWaits DEF Tidy
<1>4. /\ Swept \in [Procs -> States]
      /\ Kept("agent", Swept, IF tunnelProcess = None THEN agentProcess ELSE None, {}, strays)
      /\ Kept("tunnel", Swept, None, {}, strays)
      /\ Kept("reverse", Swept, revProcess, ReverseWaits, strays)
  BY <1>3, SweptClean
<1>5. /\ Kept("agent", ssh', agentProcess', IF how = "agent" THEN {c} ELSE {}, strays)
      /\ Kept("tunnel", ssh', None, {}, strays)
      /\ Kept("reverse", ssh', revProcess, ReverseWaits, strays)
  <2>1. CASE ~r.daemon /\ r.path
    <3>1. /\ ssh' = [Kill(Swept, agentProcess) EXCEPT ![<<"agent", c>>] = "running"]
          /\ agentProcess' = None /\ at' = [at EXCEPT ![c] = "agent"]
      BY <2>1 DEF FreshTunnel, SpawnAgent, Settle
    <3>2. how = "agent"
      BY <1>2, <3>1 DEF Types
    <3>3. agentProcess \in {None} \cup ({"agent"} \X Calls)
      BY <1>3 DEF Kept
    <3>4. Kept("agent", Swept, agentProcess, {}, strays) \/ Kept("agent", Swept, None, {}, strays)
      BY <1>4
    <3> QED BY <1>4, <3>1, <3>2, <3>3, <3>4, SpawnsAgent
  <2>2. CASE ~(~r.daemon /\ r.path)
    <3>1. /\ ssh' = Swept /\ agentProcess' = IF tunnelProcess = None THEN agentProcess ELSE None
          /\ \E h \in {"port", "uname"} : at' = [at EXCEPT ![c] = h]
      BY <2>2 DEF FreshTunnel, Settle
    <3>2. how # "agent"
      BY <1>2, <3>1 DEF Types
    <3> QED BY <1>4, <3>1, <3>2
  <2> QED BY <2>1, <2>2
<1>6. tunnelProcess' = None
  BY DEF FreshTunnel
<1>7. /\ OneBusy' /\ TunnelWaits' = {} /\ ReverseWaits' = ReverseWaits
      /\ AgentWaits' = IF how = "agent" THEN {c} ELSE {}
  BY <1>2, TurnWaits
<1>8. PathInv'
  BY <1>6 DEF PathInv
<1>9. LaunchInv'
  BY <1>2, TurnKeepsLaunch DEF Tidy
<1> QED BY <1>2, <1>5, <1>6, <1>7, <1>8, <1>9 DEF Tidy

\* A call is made: it goes its way, or has to open a tunnel.
GoesItsWay(c) ==
  /\ UNCHANGED <<ssh, slotVars, revProcess>>
  /\ \/ launch' = launch /\ \E how \in {"done", "dropped", "alias"} : at' = [at EXCEPT ![c] = how]
     \/ /\ \E l \in {"wsl", "policy"} : launch' = [launch EXCEPT ![c] = l]
        /\ \E how \in {"local", "launch"} : at' = [at EXCEPT ![c] = how]

LEMMA ResolveEffect ==
  ASSUME NEW c \in Calls, NEW r, Resolve(c, r)
  PROVE  GoesItsWay(c) \/ (FreshTunnel(c, r) /\ UNCHANGED launchVars)
<1>1. CASE r.mode = "ssh"
  <2>1. StartSshTunnel(c, r) /\ UNCHANGED launchVars
    BY <1>1 DEF Resolve
  <2>2. CASE ReuseTunnel(c, r)
    BY <2>1, <2>2 DEF ReuseTunnel, Done, Settle, GoesItsWay, launchVars
  <2> QED BY <2>1, <2>2 DEF StartSshTunnel
<1>2. CASE r.mode = "override"
  BY <1>2 DEF Resolve, Done, Settle, GoesItsWay, launchVars
<1>3. CASE r.mode \in {"auto-local", "unknown"}
  BY <1>3 DEF Resolve, Settle, GoesItsWay, launchVars
<1>4. CASE r.mode = "auto-ssh-remote"
  BY <1>4 DEF Resolve, Settle, GoesItsWay, launchVars
<1>5. CASE r.mode = "local"
  BY <1>5 DEF Resolve, Settle, GoesItsWay
<1>6. CASE r.mode \notin {"ssh", "override", "auto-local", "unknown", "auto-ssh-remote", "local"}
  <2>1. BeginLaunch(c, r) /\ UNCHANGED <<slotVars, ssh, revProcess>>
    BY <1>6 DEF Resolve
  <2> QED BY <2>1 DEF BeginLaunch, Settle, GoesItsWay
<1> QED BY <1>1, <1>2, <1>3, <1>4, <1>5, <1>6

LEMMA GoingKeeps ==
  ASSUME Types, NEW c \in Calls, at[c] = "idle", GoesItsWay(c), strays' = strays
  PROVE  Types' /\ (Tidy /\ (\A d \in Calls : ~Busy(d)) => Tidy')
<1>0. /\ {"done", "dropped", "alias", "local", "launch"} \subseteq Places
      /\ {"wsl", "policy"} \subseteq Launches
  BY DEF Places, Ended, Launches
<1>1. /\ \A d \in Calls \ {c} : at'[d] = at[d] /\ launch'[d] = launch[d]
      /\ at' \in [Calls -> Places] /\ launch' \in [Calls -> Launches]
  BY <1>0, OthersStay DEF GoesItsWay
<1>2. /\ at'[c] \in {"done", "dropped", "alias", "local", "launch"}
      /\ launch'[c] \in {launch[c], "wsl", "policy"}
      /\ (at'[c] = "alias" => launch'[c] = launch[c])
  BY DEF GoesItsWay, Types
<1>3. ASSUME Tidy, \A d \in Calls : ~Busy(d)
      PROVE  Tidy'
  <2>1. Turn(c) /\ launch[c] = "none"
    BY <1>1, <1>3 DEF Turn, Tidy, LaunchInv
  <2> QED BY <1>2, <1>3, <2>1, TurnWithoutProcess DEF GoesItsWay, Path
<1> QED BY <1>1, <1>3 DEF Types, GoesItsWay

LEMMA StartKeeps ==
  ASSUME IInv, NEW c \in Calls, Start(c)
  PROVE  IInv'
<1>1. PICK r \in Requests :
        /\ at[c] = "idle" /\ strays' = strays
        /\ mixed' = (mixed \/ \E d \in Calls : Busy(d))
        /\ IF r.serial /\ cache[ProxyRequestFingerprint(r)] # None
             THEN /\ Done(c, r, cache[ProxyRequestFingerprint(r)])
                  /\ UNCHANGED <<goal, slotVars, ssh, dest, agent, deaths, launchVars>>
             ELSE Resolve(c, r)
  BY DEF Start
<1>2. GoesItsWay(c) \/ (FreshTunnel(c, r) /\ UNCHANGED launchVars)
  BY <1>1, ResolveEffect DEF Done, Settle, GoesItsWay, launchVars
<1>3. Types'
  BY <1>1, <1>2, GoingKeeps, FreshIsTyped DEF IInv
<1>4. ASSUME ~mixed'
      PROVE  Tidy'
  <2>1. Tidy /\ \A d \in Calls : ~Busy(d)
    BY <1>1, <1>4 DEF IInv
  <2> QED BY <1>1, <1>2, <2>1, GoingKeeps, FreshKeeps DEF IInv
<1> QED BY <1>3, <1>4 DEF IInv

-----------------------------------------------------------------------------
(* The awaits of startSshTunnel *)

LEMMA UnameKeeps ==
  ASSUME Types, NEW c \in Calls, Uname(c), UNCHANGED launchVars
  PROVE  Types' /\ (Tidy => Tidy')
<1>0. {"deploy", "failed"} \subseteq Places /\ at[c] \in Path /\ at[c] = "uname"
  BY DEF Places, Path, Ended, Uname
<1>1. PICK how \in {"deploy", "failed"} : at' = [at EXCEPT ![c] = how]
  BY DEF Uname, Settle
<1>2. UNCHANGED <<ssh, slotVars, launch, revProcess, strays>>
  BY DEF Uname, launchVars
<1>3. /\ \A d \in Calls \ {c} : at'[d] = at[d] /\ launch'[d] = launch[d]
      /\ at' \in [Calls -> Places] /\ launch' \in [Calls -> Launches] /\ at'[c] = how
  BY <1>0, <1>1, <1>2, OthersStay DEF Types
<1>4. ASSUME Tidy
      PROVE  Tidy'
  <2>1. Turn(c)
    BY <1>0, <1>3, <1>4, BusyPlaces, TurnIsAlone
  <2> QED BY <1>0, <1>2, <1>3, <1>4, <2>1, TurnWithoutProcess
<1> QED BY <1>2, <1>3, <1>4 DEF Types

LEMMA DeployKeeps ==
  ASSUME Types, NEW c \in Calls, Deploy(c), UNCHANGED launchVars
  PROVE  Types' /\ (Tidy => Tidy')
<1>0. {"agent", "failed"} \subseteq Places /\ at[c] \in Path /\ at[c] = "deploy"
  BY DEF Places, Path, Ended, Deploy
<1>1. PICK how \in {"agent", "failed"} : at' = [at EXCEPT ![c] = how]
  BY DEF Deploy, SpawnAgent, Settle
<1>2. UNCHANGED <<tunnelProcess, launch, revProcess, strays>>
  BY DEF Deploy, launchVars
<1>3. /\ \A d \in Calls \ {c} : at'[d] = at[d] /\ launch'[d] = launch[d]
      /\ at' \in [Calls -> Places] /\ launch' \in [Calls -> Launches] /\ at'[c] = how
  BY <1>0, <1>1, <1>2, OthersStay DEF Types
<1>4. CASE SpawnAgent(c, ssh)
  <2>1. /\ ssh' = [Kill(ssh, agentProcess) EXCEPT ![<<"agent", c>>] = "running"]
        /\ agentProcess' = None /\ at'[c] = "agent"
    BY <1>4, <1>3 DEF SpawnAgent, Settle, Types
  <2>2. ssh' \in [Procs -> States]
    BY <2>1, KillEffect DEF Types, States
  <2>3. ASSUME Tidy
        PROVE  Tidy'
    <3>1. Turn(c)
      BY <1>0, <1>3, <2>3, BusyPlaces, TurnIsAlone
    <3>2. /\ AgentWaits = {} /\ TunnelWaits = {} /\ AgentWaits' = {c} /\ TunnelWaits' = {}
          /\ ReverseWaits' = ReverseWaits /\ OneBusy'
      BY <1>0, <1>2, <2>1, <3>1, TurnWaits
    <3>3. /\ Kept("agent", ssh', None, {c}, strays) /\ Kept("tunnel", ssh', tunnelProcess, {}, strays)
          /\ Kept("reverse", ssh', revProcess, ReverseWaits, strays)
      <4>1. agentProcess \in {None} \cup ({"agent"} \X Calls)
        BY <2>3 DEF Tidy, Kept
      <4> QED BY <2>1, <2>3, <3>2, <4>1, SpawnsAgent DEF Tidy, Types
    <3>4. PathInv'
      BY <1>0, <1>2, <1>3, <2>3 DEF Tidy, PathInv
    <3>5. LaunchInv'
      BY <2>1, <2>3, <3>1, TurnKeepsLaunch DEF Tidy
    <3> QED BY <1>2, <2>1, <3>2, <3>3, <3>4, <3>5 DEF Tidy
  <2> QED BY <1>3, <2>2, <2>3 DEF Types
<1>5. CASE ~SpawnAgent(c, ssh)
  <2>1. UNCHANGED <<ssh, slotVars>> /\ at'[c] = "failed"
    BY <1>5, <1>3 DEF Deploy, Settle, slotVars, Types
  <2>2. ASSUME Tidy
        PROVE  Tidy'
    <3>1. Turn(c)
      BY <1>0, <1>3, <2>2, BusyPlaces, TurnIsAlone
    <3> QED BY <1>0, <1>2, <2>1, <2>2, <3>1, TurnWithoutProcess DEF Path
  <2> QED BY <1>3, <2>1, <2>2 DEF Types
<1> QED BY <1>4, <1>5

\* What the steps of startSshTunnel that start or end a process have in common.
LEMMA PathTurn ==
  ASSUME Types, NEW c \in Calls, NEW how \in Places \ {"idle", "alias"}, at[c] \in Path,
         at' = [at EXCEPT ![c] = how], UNCHANGED launchVars
  PROVE  /\ at' \in [Calls -> Places] /\ launch' \in [Calls -> Launches] /\ revProcess' = revProcess
         /\ Tidy =>
              /\ OneBusy' /\ LaunchInv'
              /\ AgentWaits = (IF at[c] = "agent" THEN {c} ELSE {})
              /\ TunnelWaits = (IF at[c] = "tunnel" THEN {c} ELSE {})
              /\ AgentWaits' = (IF how = "agent" THEN {c} ELSE {})
              /\ TunnelWaits' = (IF how = "tunnel" THEN {c} ELSE {})
              /\ ReverseWaits' = ReverseWaits
              /\ tunnelProcess = None
              /\ \A d \in Calls \ {c} : at'[d] \notin Path
<1>1. /\ \A d \in Calls \ {c} : at'[d] = at[d] /\ launch'[d] = launch[d]
      /\ at' \in [Calls -> Places] /\ launch' \in [Calls -> Launches] /\ at'[c] = how
      /\ launch' = launch /\ revProcess' = revProcess
  BY OthersStay DEF Types, launchVars
<1>2. ASSUME Tidy
      PROVE  /\ OneBusy' /\ LaunchInv'
             /\ AgentWaits = (IF at[c] = "agent" THEN {c} ELSE {})
             /\ TunnelWaits = (IF at[c] = "tunnel" THEN {c} ELSE {})
             /\ AgentWaits' = (IF how = "agent" THEN {c} ELSE {})
             /\ TunnelWaits' = (IF how = "tunnel" THEN {c} ELSE {})
             /\ ReverseWaits' = ReverseWaits
             /\ tunnelProcess = None
             /\ \A d \in Calls \ {c} : at'[d] \notin Path
  <2>1. Turn(c)
    BY <1>1, <1>2, BusyPlaces, TurnIsAlone
  <2>2. LaunchInv'
    BY <1>1, <1>2, <2>1, TurnKeepsLaunch DEF Tidy
  <2>3. tunnelProcess = None
    BY <1>2 DEF Tidy, PathInv
  <2>4. \A d \in Calls \ {c} : at'[d] \notin Path
    BY <2>1, BusyPlaces DEF Turn
  <2> QED BY <1>1, <2>1, <2>2, <2>3, <2>4, TurnWaits
<1> QED BY <1>1, <1>2

LEMMA AgentReportsKeeps ==
  ASSUME Types, NEW c \in Calls, AgentReports(c), UNCHANGED launchVars
  PROVE  Types' /\ (Tidy => Tidy')
<1>1. /\ at[c] = "agent" /\ at' = [at EXCEPT ![c] = "port"]
      /\ agentProcess' = <<"agent", c>> /\ tunnelProcess' = tunnelProcess
      /\ ssh' = [ssh EXCEPT ![<<"agent", c>>] = "open"]
      /\ strays' = strays
  BY DEF AgentReports, Settle
<1>2. "agent" \in Path /\ "port" \in Places \ {"idle", "alias"} /\ "port" \in Path
      /\ {"agent", "tunnel", "reverse"} = Kinds
  BY DEF Path, Places, Kinds
<1>3. ssh' \in [Procs -> States]
  BY <1>1 DEF Types, States
<1>4. ASSUME Tidy
      PROVE  Tidy'
  <2>1. /\ OneBusy' /\ LaunchInv' /\ AgentWaits = {c} /\ AgentWaits' = {}
        /\ TunnelWaits = {} /\ TunnelWaits' = {} /\ ReverseWaits' = ReverseWaits
        /\ tunnelProcess = None /\ revProcess' = revProcess
    BY <1>1, <1>2, <1>4, PathTurn
  <2>2. Kept("agent", ssh', <<"agent", c>>, {}, strays)
    BY <1>1, <1>2, <1>4, <2>1, KeptOpened DEF Tidy, Types
  <2>3. Kept("tunnel", ssh', tunnelProcess, {}, strays) /\ Kept("reverse", ssh', revProcess, ReverseWaits, strays)
    BY <1>1, <1>2, <1>4, <2>1, ApartFromOne DEF Tidy, Types
  <2> QED BY <1>1, <2>1, <2>2, <2>3 DEF Tidy, PathInv
<1> QED BY <1>1, <1>2, <1>3, <1>4, PathTurn DEF Types

LEMMA AgentFailsKeeps ==
  ASSUME Types, NEW c \in Calls, AgentFails(c), UNCHANGED launchVars
  PROVE  Types' /\ (Tidy => Tidy')
<1>1. /\ at[c] = "agent" /\ at' = [at EXCEPT ![c] = "failed"]
      /\ agentProcess' = None /\ tunnelProcess' = tunnelProcess
      /\ ssh' = Kill(ssh, <<"agent", c>>) /\ strays' = strays
  BY DEF AgentFails, Settle
<1>2. "agent" \in Path /\ "failed" \in Places \ {"idle", "alias"}
      /\ {"agent", "tunnel", "reverse"} = Kinds
  BY DEF Path, Places, Ended, Kinds
<1>3. ssh' \in [Procs -> States]
  BY <1>1, KillEffect DEF Types
<1>4. ASSUME Tidy
      PROVE  Tidy'
  <2>1. /\ OneBusy' /\ LaunchInv' /\ AgentWaits = {c} /\ AgentWaits' = {}
        /\ TunnelWaits = {} /\ TunnelWaits' = {} /\ ReverseWaits' = ReverseWaits
        /\ tunnelProcess = None /\ revProcess' = revProcess
    BY <1>1, <1>2, <1>4, PathTurn
  <2>2. Kept("agent", ssh', None, {}, strays)
    BY <1>1, <1>2, <1>4, <2>1, KeptGivenUp DEF Tidy, Types
  <2>3. Kept("tunnel", ssh', tunnelProcess, {}, strays) /\ Kept("reverse", ssh', revProcess, ReverseWaits, strays)
    BY <1>1, <1>2, <1>4, <2>1, ApartFromKill DEF Tidy, Types
  <2> QED BY <1>1, <2>1, <2>2, <2>3 DEF Tidy, PathInv
<1> QED BY <1>1, <1>2, <1>3, <1>4, PathTurn DEF Types

\* No connection after 15 s.
LEMMA TunnelTimeoutKeeps ==
  ASSUME Types, NEW c \in Calls, TunnelTimeout(c), UNCHANGED launchVars
  PROVE  Types' /\ (Tidy => Tidy')
<1>1. /\ at[c] = "tunnel" /\ at' = [at EXCEPT ![c] = "failed"]
      /\ tunnelProcess' = None /\ agentProcess' = agentProcess
      /\ ssh' = Kill(ssh, <<"tunnel", c>>) /\ strays' = strays
  BY DEF TunnelTimeout, Settle
<1>2. "tunnel" \in Path /\ "failed" \in Places \ {"idle", "alias"}
      /\ {"agent", "tunnel", "reverse"} = Kinds
  BY DEF Path, Places, Ended, Kinds
<1>3. ssh' \in [Procs -> States]
  BY <1>1, KillEffect DEF Types
<1>4. ASSUME Tidy
      PROVE  Tidy'
  <2>1. /\ OneBusy' /\ LaunchInv' /\ AgentWaits = {} /\ AgentWaits' = {}
        /\ TunnelWaits = {c} /\ TunnelWaits' = {} /\ ReverseWaits' = ReverseWaits
        /\ revProcess' = revProcess
    BY <1>1, <1>2, <1>4, PathTurn
  <2>2. Kept("tunnel", ssh', None, {}, strays)
    BY <1>1, <1>2, <1>4, <2>1, KeptGivenUp DEF Tidy, Types
  <2>3. Kept("agent", ssh', agentProcess, {}, strays) /\ Kept("reverse", ssh', revProcess, ReverseWaits, strays)
    BY <1>1, <1>2, <1>4, <2>1, ApartFromKill DEF Tidy, Types
  <2> QED BY <1>1, <2>1, <2>2, <2>3 DEF Tidy, PathInv
<1> QED BY <1>1, <1>2, <1>3, <1>4, PathTurn DEF Types

LEMMA TunnelUpKeeps ==
  ASSUME Types, NEW c \in Calls, TunnelUp(c), UNCHANGED launchVars
  PROVE  Types' /\ (Tidy => Tidy')
<1>1. /\ at[c] = "tunnel" /\ at' = [at EXCEPT ![c] = "done"]
      /\ tunnelProcess' = <<"tunnel", c>> /\ agentProcess' = agentProcess
      /\ ssh' = [ssh EXCEPT ![<<"tunnel", c>>] = "open"]
      /\ strays' = strays
  BY DEF TunnelUp, Done, Settle
<1>2. "tunnel" \in Path /\ "done" \in Places \ {"idle", "alias"} /\ "done" \notin Path
      /\ {"agent", "tunnel", "reverse"} = Kinds
  BY DEF Path, Places, Ended, Kinds
<1>3. ssh' \in [Procs -> States]
  BY <1>1 DEF Types, States
<1>4. ASSUME Tidy
      PROVE  Tidy'
  <2>1. /\ OneBusy' /\ LaunchInv' /\ AgentWaits = {} /\ AgentWaits' = {}
        /\ TunnelWaits = {c} /\ TunnelWaits' = {} /\ ReverseWaits' = ReverseWaits
        /\ revProcess' = revProcess /\ \A d \in Calls \ {c} : at'[d] \notin Path
    BY <1>1, <1>2, <1>4, PathTurn
  <2>2. Kept("tunnel", ssh', <<"tunnel", c>>, {}, strays)
    BY <1>1, <1>2, <1>4, <2>1, KeptOpened DEF Tidy, Types
  <2>3. Kept("agent", ssh', agentProcess, {}, strays) /\ Kept("reverse", ssh', revProcess, ReverseWaits, strays)
    BY <1>1, <1>2, <1>4, <2>1, ApartFromOne DEF Tidy, Types
  <2>4. PathInv'
    BY <1>1, <1>2, <2>1 DEF PathInv, Types
  <2> QED BY <1>1, <2>1, <2>2, <2>3, <2>4 DEF Tidy
<1> QED BY <1>1, <1>2, <1>3, <1>4, PathTurn DEF Types

LEMMA SpawnTunnelKeeps ==
  ASSUME Types, NEW c \in Calls, SpawnTunnel(c), UNCHANGED launchVars
  PROVE  Types' /\ (Tidy => Tidy')
<1>1. PICK how \in {"tunnel", "failed"} :
        /\ at' = [at EXCEPT ![c] = how]
        /\ ssh' = IF how = "tunnel" THEN [ssh EXCEPT ![<<"tunnel", c>>] = "running"] ELSE ssh
  BY DEF SpawnTunnel, Settle
<1>2. at[c] = "port" /\ UNCHANGED <<tunnelProcess, agentProcess, strays>>
  BY DEF SpawnTunnel, slotVars
<1>3. "port" \in Path /\ how \in Places \ {"idle", "alias"}
      /\ {"agent", "tunnel", "reverse"} = Kinds
  BY DEF Path, Places, Ended, Kinds
<1>4. ssh' \in [Procs -> States]
  BY <1>1 DEF Types, States
<1>5. ASSUME Tidy
      PROVE  Tidy'
  <2>1. /\ OneBusy' /\ LaunchInv' /\ AgentWaits = {} /\ AgentWaits' = {}
        /\ TunnelWaits = {} /\ TunnelWaits' = (IF how = "tunnel" THEN {c} ELSE {})
        /\ ReverseWaits' = ReverseWaits
        /\ tunnelProcess = None /\ revProcess' = revProcess
    BY <1>1, <1>2, <1>3, <1>5, PathTurn
  <2>2. Kept("tunnel", ssh', None, TunnelWaits', strays)
    BY <1>1, <1>3, <1>5, <2>1, KeptSpawned DEF Tidy, Types
  <2>3. Kept("agent", ssh', agentProcess, {}, strays) /\ Kept("reverse", ssh', revProcess, ReverseWaits, strays)
    BY <1>1, <1>3, <1>5, <2>1, ApartFromOne DEF Tidy, Types
  <2> QED BY <1>2, <2>1, <2>2, <2>3 DEF Tidy, PathInv
<1> QED BY <1>1, <1>2, <1>3, <1>4, <1>5, PathTurn DEF Types

-----------------------------------------------------------------------------
(* The ends of processes *)

\* Who awaited the process that has exited fails.
LEMMA ExitPlaces ==
  ASSUME Types, NEW c \in Calls, NEW where \in {"agent", "tunnel"},
         IF at[c] = where THEN Settle(c, "failed") ELSE UNCHANGED at, UNCHANGED launchVars
  PROVE  /\ at' \in [Calls -> Places] /\ launch' = launch /\ revProcess' = revProcess
         /\ \A d \in Calls : at'[d] = IF d = c /\ at[c] = where THEN "failed" ELSE at[d]
         /\ {d \in Calls : at'[d] = where} = {d \in Calls : at[d] = where} \ {c}
         /\ \A p \in {"agent", "tunnel"} \ {where} :
              {d \in Calls : at'[d] = p} = {d \in Calls : at[d] = p}
         /\ ReverseWaits' = ReverseWaits
         /\ OneBusy => OneBusy'
         /\ LaunchInv => LaunchInv'
<1>0. "failed" \in Places /\ "failed" \in Ended
  BY DEF Places, Ended
<1>1. at' \in [Calls -> Places] /\ launch' = launch /\ revProcess' = revProcess
  BY <1>0 DEF Types, Settle, launchVars
<1>2. \A d \in Calls : at'[d] = IF d = c /\ at[c] = where THEN "failed" ELSE at[d]
  BY DEF Types, Settle
<1>3. \A d \in Calls : Busy(d)' => Busy(d)
  BY <1>0, <1>1, <1>2 DEF Busy
<1>4. OneBusy => OneBusy'
  BY <1>3 DEF OneBusy
<1>5. LaunchInv => LaunchInv'
  BY <1>1, <1>2 DEF LaunchInv
<1>6. {d \in Calls : at'[d] = where} = {d \in Calls : at[d] = where} \ {c}
  BY <1>2
<1>7. \A p \in {"agent", "tunnel"} \ {where} :
        {d \in Calls : at'[d] = p} = {d \in Calls : at[d] = p}
  BY <1>2
<1> QED BY <1>1, <1>2, <1>4, <1>5, <1>6, <1>7 DEF ReverseWaits

LEMMA AgentExitKeeps ==
  ASSUME Types, NEW c \in Calls, AgentExit(c), UNCHANGED launchVars
  PROVE  Types' /\ (Tidy => Tidy')
<1>1. /\ ssh[<<"agent", c>>] = "dying" /\ ssh' = [ssh EXCEPT ![<<"agent", c>>] = "gone"]
      /\ agentProcess' = None /\ tunnelProcess' = tunnelProcess
      /\ IF at[c] = "agent" THEN Settle(c, "failed") ELSE UNCHANGED at
      /\ strays' = strays \cup Ousted(agentProcess, <<"agent", c>>)
  BY DEF AgentExit
<1>2. {"agent", "tunnel", "reverse"} = Kinds
  BY DEF Kinds
<1>3. ssh' \in [Procs -> States]
  BY <1>1 DEF Types, States
<1>4. /\ at' \in [Calls -> Places] /\ launch' = launch /\ revProcess' = revProcess
      /\ \A d \in Calls : at'[d] \in {at[d], "failed"}
      /\ AgentWaits' = AgentWaits \ {c}
      /\ TunnelWaits' = TunnelWaits
      /\ ReverseWaits' = ReverseWaits
      /\ OneBusy => OneBusy'
      /\ LaunchInv => LaunchInv'
  BY <1>1, ExitPlaces DEF AgentWaits, TunnelWaits
<1>5. ASSUME Tidy
      PROVE  Tidy'
  <2>0. /\ Kept("tunnel", ssh, tunnelProcess, TunnelWaits, strays')
        /\ Kept("reverse", ssh, revProcess, ReverseWaits, strays')
        /\ ssh \in [Procs -> States]
    BY <1>1, <1>5, KeptWhenMoreAreLost DEF Tidy, Types
  <2>1. Kept("agent", ssh', None, AgentWaits \ {c}, strays')
    BY <1>1, <1>2, <1>5, KeptReaped DEF Tidy, Types
  <2>2. /\ Kept("tunnel", ssh', tunnelProcess, TunnelWaits, strays')
        /\ Kept("reverse", ssh', revProcess, ReverseWaits, strays')
    BY <1>1, <1>2, <1>5, <2>0, ApartFromOne
  <2>3. PathInv'
    BY <1>1, <1>4, <1>5 DEF Tidy, PathInv, Path
  <2> QED BY <1>1, <1>4, <1>5, <2>1, <2>2, <2>3 DEF Tidy
<1> QED BY <1>3, <1>4, <1>5 DEF Types

LEMMA TunnelExitKeeps ==
  ASSUME Types, NEW c \in Calls, TunnelExit(c), UNCHANGED launchVars
  PROVE  Types' /\ (Tidy => Tidy')
<1>1. /\ ssh[<<"tunnel", c>>] = "dying" /\ ssh' = [ssh EXCEPT ![<<"tunnel", c>>] = "gone"]
      /\ tunnelProcess' = None /\ agentProcess' = agentProcess
      /\ IF at[c] = "tunnel" THEN Settle(c, "failed") ELSE UNCHANGED at
      /\ strays' = strays \cup Ousted(tunnelProcess, <<"tunnel", c>>)
  BY DEF TunnelExit
<1>2. {"agent", "tunnel", "reverse"} = Kinds
  BY DEF Kinds
<1>3. ssh' \in [Procs -> States]
  BY <1>1 DEF Types, States
<1>4. /\ at' \in [Calls -> Places] /\ launch' = launch /\ revProcess' = revProcess
      /\ AgentWaits' = AgentWaits
      /\ TunnelWaits' = TunnelWaits \ {c}
      /\ ReverseWaits' = ReverseWaits
      /\ OneBusy => OneBusy'
      /\ LaunchInv => LaunchInv'
  BY <1>1, ExitPlaces DEF AgentWaits, TunnelWaits
<1>5. ASSUME Tidy
      PROVE  Tidy'
  <2>0. /\ Kept("agent", ssh, agentProcess, AgentWaits, strays')
        /\ Kept("reverse", ssh, revProcess, ReverseWaits, strays')
        /\ ssh \in [Procs -> States]
    BY <1>1, <1>5, KeptWhenMoreAreLost DEF Tidy, Types
  <2>1. Kept("tunnel", ssh', None, TunnelWaits \ {c}, strays')
    BY <1>1, <1>2, <1>5, KeptReaped DEF Tidy, Types
  <2>2. /\ Kept("agent", ssh', agentProcess, AgentWaits, strays')
        /\ Kept("reverse", ssh', revProcess, ReverseWaits, strays')
    BY <1>1, <1>2, <1>5, <2>0, ApartFromOne
  <2> QED BY <1>1, <1>4, <1>5, <2>1, <2>2 DEF Tidy, PathInv
<1> QED BY <1>3, <1>4, <1>5 DEF Types

\* A process dies, of a kind or another.
LEMMA DyingKeeps ==
  ASSUME Types, NEW p \in Procs, Alive(p), ssh' = [ssh EXCEPT ![p] = "dying"],
         UNCHANGED <<at, launch, slotVars, revProcess, strays>>
  PROVE  Types' /\ (Tidy => Tidy')
<1>1. Lives(ssh[p]) /\ {"agent", "tunnel", "reverse"} = Kinds
  BY DEF Alive, Lives, Kinds
<1>2. Types'
  BY DEF Types, States
<1>3. ASSUME Tidy
      PROVE  Tidy'
  <2>1. /\ Kept("agent", ssh', agentProcess, AgentWaits, strays)
        /\ Kept("tunnel", ssh', tunnelProcess, TunnelWaits, strays)
        /\ Kept("reverse", ssh', revProcess, ReverseWaits, strays)
    BY <1>1, <1>3, KeptDying DEF Tidy, Types
  <2> QED BY <1>3, <2>1 DEF Tidy, OneBusy, Busy, PathInv, LaunchInv, AgentWaits, TunnelWaits,
                            ReverseWaits, slotVars
<1> QED BY <1>2, <1>3

LEMMA NothingKeeps ==
  ASSUME Types, UNCHANGED <<at, launch, ssh, slotVars, revProcess, strays>>
  PROVE  Types' /\ (Tidy => Tidy')
  BY DEF Types, Tidy, OneBusy, Busy, PathInv, LaunchInv, AgentWaits, TunnelWaits,
         ReverseWaits, slotVars

LEMMA MishapKeeps ==
  ASSUME Types, Mishap
  PROVE  Types' /\ (Tidy => Tidy')
<1>1. CASE AgentEnds
  BY <1>1, NothingKeeps DEF AgentEnds, Mishap, callVars, launchVars
<1>2. CASE ProcDies
  BY <1>2, DyingKeeps DEF ProcDies, Mishap, callVars, launchVars
<1>3. ASSUME NEW c \in Calls, AgentLeaves(c)
      PROVE  Types' /\ (Tidy => Tidy')
  <2>1. <<"agent", c>> \in Procs
    BY DEF Procs, Kinds
  <2>2. Alive(<<"agent", c>>) /\ ssh' = [ssh EXCEPT ![<<"agent", c>>] = "dying"]
        /\ UNCHANGED <<at, launch, slotVars, revProcess, strays>>
    BY <1>3 DEF AgentLeaves, Alive, Mishap, callVars, launchVars
  <2> QED BY <2>1, <2>2, DyingKeeps
<1> QED BY <1>1, <1>2, <1>3 DEF Mishap, SshMishap

-----------------------------------------------------------------------------
(* Launches *)

\* The reverse tunnel.
LEMMA ReverseUpKeeps ==
  ASSUME Types, NEW c \in Calls, ReverseUp(c)
  PROVE  Types' /\ (Tidy => Tidy')
<1>1. /\ launch[c] = "reverse" /\ revProcess' = <<"reverse", c>> /\ UNCHANGED slotVars
      /\ ssh' = [ssh EXCEPT ![<<"reverse", c>>] = "open"]
      /\ strays' = strays
      /\ LetGo(c)
  BY DeliverLetsGo DEF ReverseUp
<1>2. {"agent", "tunnel", "reverse"} = Kinds
  BY DEF Kinds
<1>3. ssh' \in [Procs -> States]
  BY <1>1 DEF Types, States
<1>4. ASSUME Tidy
      PROVE  Tidy'
  <2>1. /\ AgentWaits' = AgentWaits /\ TunnelWaits' = TunnelWaits
        /\ ReverseWaits = {c} /\ ReverseWaits' = {}
        /\ OneBusy' /\ PathInv' /\ LaunchInv'
    BY <1>1, <1>4, LetGoLeaves
  <2>2. Kept("reverse", ssh', <<"reverse", c>>, {}, strays)
    BY <1>1, <1>2, <1>4, <2>1, KeptOpened DEF Tidy, Types
  <2>3. /\ Kept("agent", ssh', agentProcess, AgentWaits, strays)
        /\ Kept("tunnel", ssh', tunnelProcess, TunnelWaits, strays)
    BY <1>1, <1>2, <1>4, ApartFromOne DEF Tidy, Types
  <2> QED BY <1>1, <2>1, <2>2, <2>3 DEF Tidy, slotVars
<1> QED BY <1>1, <1>3, <1>4, LetGoStays DEF Types

LEMMA ReverseTimeoutKeeps ==
  ASSUME Types, NEW c \in Calls, ReverseTimeout(c)
  PROVE  Types' /\ (Tidy => Tidy')
<1>1. /\ launch[c] = "reverse" /\ revProcess' = None /\ UNCHANGED slotVars
      /\ ssh' = Kill(ssh, <<"reverse", c>>) /\ strays' = strays
      /\ LetGo(c)
  BY RejectedLetsGo DEF ReverseTimeout
<1>2. {"agent", "tunnel", "reverse"} = Kinds
  BY DEF Kinds
<1>3. ssh' \in [Procs -> States]
  BY <1>1, KillEffect DEF Types
<1>4. ASSUME Tidy
      PROVE  Tidy'
  <2>1. /\ AgentWaits' = AgentWaits /\ TunnelWaits' = TunnelWaits
        /\ ReverseWaits = {c} /\ ReverseWaits' = {}
        /\ OneBusy' /\ PathInv' /\ LaunchInv'
    BY <1>1, <1>4, LetGoLeaves
  <2>2. Kept("reverse", ssh', None, {}, strays)
    BY <1>1, <1>2, <1>4, <2>1, KeptGivenUp DEF Tidy, Types
  <2>3. /\ Kept("agent", ssh', agentProcess, AgentWaits, strays)
        /\ Kept("tunnel", ssh', tunnelProcess, TunnelWaits, strays)
    BY <1>1, <1>2, <1>4, ApartFromKill DEF Tidy, Types
  <2> QED BY <1>1, <2>1, <2>2, <2>3 DEF Tidy, slotVars
<1> QED BY <1>1, <1>3, <1>4, LetGoStays DEF Types

LEMMA ReverseExitKeeps ==
  ASSUME Types, NEW c \in Calls, ReverseExit(c)
  PROVE  Types' /\ (Tidy => Tidy')
<1>1. /\ revProcess' = None /\ UNCHANGED slotVars
      /\ ssh[<<"reverse", c>>] = "dying" /\ ssh' = [ssh EXCEPT ![<<"reverse", c>>] = "gone"]
      /\ strays' = strays \cup Ousted(revProcess, <<"reverse", c>>)
  BY DEF ReverseExit
<1>2. {"agent", "tunnel", "reverse"} = Kinds
  BY DEF Kinds
<1>3. ssh' \in [Procs -> States]
  BY <1>1 DEF Types, States
<1>4. ASSUME Tidy, ReverseWaits' = ReverseWaits \ {c}, AgentWaits' = AgentWaits,
             TunnelWaits' = TunnelWaits, OneBusy', PathInv', LaunchInv'
      PROVE  Tidy'
  <2>0. /\ Kept("agent", ssh, agentProcess, AgentWaits, strays')
        /\ Kept("tunnel", ssh, tunnelProcess, TunnelWaits, strays')
        /\ ssh \in [Procs -> States]
    BY <1>1, <1>4, KeptWhenMoreAreLost DEF Tidy, Types
  <2>1. Kept("reverse", ssh', None, ReverseWaits \ {c}, strays')
    BY <1>1, <1>2, <1>4, KeptReaped DEF Tidy, Types
  <2>2. /\ Kept("agent", ssh', agentProcess, AgentWaits, strays')
        /\ Kept("tunnel", ssh', tunnelProcess, TunnelWaits, strays')
    BY <1>1, <1>2, <1>4, <2>0, ApartFromOne
  <2> QED BY <1>1, <1>4, <2>1, <2>2 DEF Tidy, slotVars
<1>5. CASE launch[c] = "reverse"
  <2>1. LetGo(c)
    BY <1>5, RejectedLetsGo DEF ReverseExit
  <2>2. Tidy => Tidy'
    BY <1>1, <1>4, <1>5, <2>1, LetGoLeaves
  <2> QED BY <1>3, <2>1, <2>2, LetGoStays DEF Types
<1>6. CASE launch[c] # "reverse"
  <2>1. UNCHANGED <<at, launch>>
    BY <1>6 DEF ReverseExit
  <2>2. ReverseWaits' = ReverseWaits \ {c} /\ AgentWaits' = AgentWaits /\ TunnelWaits' = TunnelWaits
    BY <1>6, <2>1 DEF ReverseWaits, AgentWaits, TunnelWaits
  <2>3. Tidy => OneBusy' /\ PathInv' /\ LaunchInv'
    BY <1>1, <2>1 DEF Tidy, OneBusy, Busy, PathInv, LaunchInv, slotVars
  <2> QED BY <1>3, <1>4, <2>1, <2>2, <2>3 DEF Types
<1> QED BY <1>5, <1>6

\* What came of a launch is looked at.
LEMMA OutcomeKeeps ==
  ASSUME Types, NEW c \in Calls, LetGo(c), launch[c] \in {"wsl", "policy", "lost"},
         UNCHANGED <<ssh, slotVars, revProcess, strays>>
  PROVE  Types' /\ (Tidy => Tidy')
<1>1. Types'
  BY LetGoStays DEF Types
<1> QED BY <1>1, LetGoKeeps

\* The agent of this machine is known, or that there is none: a reverse tunnel may follow.
LEMMA AfterPolicyKeeps ==
  ASSUME Types, NEW c \in Calls, NEW gen, AfterPolicy(c, gen), launch[c] = "policy",
         UNCHANGED <<slotVars, strays>>
  PROVE  Types' /\ (Tidy => Tidy')
<1>1. CASE ~Reverses(c) \/ ReverseFits(c, gen)
  <2>1. UNCHANGED <<ssh, revProcess>> /\ \E o : Deliver(c, o)
    BY <1>1 DEF AfterPolicy, StartReverse
  <2>2. LetGo(c)
    BY <2>1, DeliverLetsGo
  <2> QED BY <2>1, <2>2, OutcomeKeeps
<1>2. CASE ~(~Reverses(c) \/ ReverseFits(c, gen))
  <2> DEFINE K == Kill(ssh, revProcess)
  <2>1. /\ ssh' = [K EXCEPT ![<<"reverse", c>>] = "running"]
        /\ revProcess' = None /\ at' = at /\ launch' = [launch EXCEPT ![c] = "reverse"]
    BY <1>2 DEF AfterPolicy, StartReverse
  <2>2. K \in [Procs -> States] /\ {"agent", "tunnel", "reverse"} = Kinds
    BY KillEffect DEF Types, Kinds
  <2>3. Types'
    <3>1. ssh' \in [Procs -> States]
      BY <2>1, <2>2 DEF States
    <3>2. launch' \in [Calls -> Launches]
      BY <2>1 DEF Types, Launches
    <3> QED BY <2>1, <3>1, <3>2 DEF Types
  <2>4. ASSUME Tidy
        PROVE  Tidy'
    <3>1. launch'[c] = "reverse" /\ at[c] \notin {"idle", "alias"}
          /\ \A d \in Calls \ {c} : at'[d] = at[d] /\ launch'[d] = launch[d]
      BY <2>1, <2>4 DEF Types, Tidy, LaunchInv
    <3>2. Turn(c)
      BY <2>4, <3>1, BusyPlaces, TurnIsAlone
    <3>3. /\ AgentWaits' = AgentWaits /\ TunnelWaits' = TunnelWaits
          /\ ReverseWaits = {} /\ ReverseWaits' = {c} /\ OneBusy'
      BY <2>1, <3>1, <3>2, TurnWaits
    <3>4. PathInv' /\ LaunchInv'
      BY <2>1, <2>4, <3>1, <3>2, TurnKeepsLaunch DEF Tidy, PathInv, slotVars
    <3>5. revProcess \in {None} \cup ({"reverse"} \X Calls)
      BY <2>4 DEF Tidy, Kept
    <3>6. /\ Kept("agent", K, agentProcess, AgentWaits, strays)
          /\ Kept("tunnel", K, tunnelProcess, TunnelWaits, strays)
      BY <2>2, <2>4, <3>5, ApartFromKill DEF Tidy, Types
    <3>7. Kept("reverse", K, None, {}, strays)
      BY <2>2, <2>4, <3>3, KeptKilled DEF Tidy, Types
    <3> HIDE DEF K
    <3>8. /\ Kept("agent", ssh', agentProcess, AgentWaits, strays)
          /\ Kept("tunnel", ssh', tunnelProcess, TunnelWaits, strays)
      BY <2>1, <2>2, <3>6, ApartFromOne
    <3>9. Kept("reverse", ssh', None, {c}, strays)
      BY <2>1, <2>2, <3>7, KeptSpawned
    <3> QED BY <2>1, <3>3, <3>4, <3>8, <3>9 DEF Tidy, slotVars
  <2> QED BY <2>3, <2>4
<1> QED BY <1>1, <1>2

\* The steps of a call that touch no process: it goes on or fails, it begins a launch, or
\* its launch goes another way.
GoesOn(c) ==
  /\ at[c] \in {"alias", "launch", "probe", "again", "asked"} /\ launch' = launch
  /\ \E how \in {"done", "failed", "asked", "again"} : at' = [at EXCEPT ![c] = how]

Begins(c) ==
  /\ at[c] = "alias" /\ at' = [at EXCEPT ![c] = "launch"]
  /\ \E l \in {"wsl", "policy"} : launch' = [launch EXCEPT ![c] = l]

Diverts(c) ==
  /\ launch[c] = "wsl" /\ at' = at
  /\ launch' = [launch EXCEPT ![c] = "policy"]

LEMMA PlainStepIs ==
  ASSUME NEW c \in Calls,
         Alias(c) \/ CallerTimeout(c) \/ WslFails(c) \/ Probe(c) \/ Answer(c) \/ NobodyToAsk(c)
  PROVE  /\ UNCHANGED <<ssh, slotVars, revProcess, strays>>
         /\ GoesOn(c) \/ Begins(c) \/ Diverts(c)
<1>1. CASE Alias(c)
  <2>1. at[c] = "alias" /\ UNCHANGED <<ssh, slotVars, revProcess, strays>>
    BY <1>1 DEF Alias
  <2>2. CASE \E r : BeginLaunch(c, r)
    BY <2>1, <2>2 DEF BeginLaunch, Settle, Begins
  <2>3. CASE Settle(c, "failed") /\ UNCHANGED launch
    BY <2>1, <2>3 DEF Settle, GoesOn
  <2> QED BY <1>1, <2>1, <2>2, <2>3 DEF Alias
<1>2. CASE CallerTimeout(c)
  BY <1>2 DEF CallerTimeout, Settle, launchVars, GoesOn
<1>3. CASE WslFails(c)
  BY <1>3 DEF WslFails, callVars, Diverts
<1>4. CASE Probe(c)
  BY <1>4 DEF Probe, Done, Settle, launchVars, GoesOn
<1>5. CASE Answer(c)
  BY <1>5 DEF Answer, Settle, launchVars, GoesOn
<1>6. CASE NobodyToAsk(c)
  BY <1>6 DEF NobodyToAsk, Settle, launchVars, GoesOn
<1> QED BY <1>1, <1>2, <1>3, <1>4, <1>5, <1>6

LEMMA PlainStepKeeps ==
  ASSUME Types, NEW c \in Calls, GoesOn(c) \/ Begins(c) \/ Diverts(c),
         UNCHANGED <<ssh, slotVars, revProcess, strays>>
  PROVE  Types' /\ (Tidy => Tidy')
<1>1. /\ {"done", "failed", "asked", "again", "launch"} \subseteq Places
      /\ {"wsl", "policy"} \subseteq Launches
  BY DEF Places, Ended, Launches
<1>2. /\ \A d \in Calls \ {c} : at'[d] = at[d] /\ launch'[d] = launch[d]
      /\ at' \in [Calls -> Places] /\ launch' \in [Calls -> Launches]
  BY <1>1, OthersStay DEF GoesOn, Begins, Diverts
<1>3. \/ /\ at[c] \in {"alias", "launch", "probe", "again", "asked"}
         /\ at'[c] \in {"done", "failed", "asked", "again"} /\ launch'[c] = launch[c]
      \/ at[c] = "alias" /\ at'[c] = "launch" /\ launch'[c] \in {"wsl", "policy"}
      \/ at'[c] = at[c] /\ launch[c] = "wsl" /\ launch'[c] = "policy"
  BY DEF GoesOn, Begins, Diverts, Types
<1>4. ASSUME Tidy
      PROVE  Tidy'
  <2>1. Busy(c)
    BY BusyPlaces DEF GoesOn, Begins, Diverts
  <2>2. Turn(c)
    BY <1>2, <1>4, <2>1, TurnIsAlone
  <2>3. at[c] \in {"idle", "alias"} => launch[c] = "none"
    BY <1>4 DEF Tidy, LaunchInv
  <2>4. at'[c] \notin {"idle", "alias"}
    BY <1>3, <2>3 DEF GoesOn, Begins, Diverts
  <2> QED BY <1>3, <1>4, <2>2, <2>3, <2>4, TurnWithoutProcess DEF Path
<1> QED BY <1>2, <1>4 DEF Types

LEMMA StepKeeps ==
  ASSUME Types, NEW c \in Calls, Step(c)
  PROVE  Types' /\ (Tidy => Tidy')
<1>1. CASE SshStep(c) /\ UNCHANGED launchVars
  BY <1>1, UnameKeeps, DeployKeeps, AgentReportsKeeps, AgentFailsKeeps, AgentExitKeeps,
     SpawnTunnelKeeps, TunnelUpKeeps, TunnelTimeoutKeeps, TunnelExitKeeps DEF SshStep
<1>2. CASE Alias(c) \/ CallerTimeout(c) \/ WslFails(c) \/ Probe(c) \/ NobodyToAsk(c)
  BY <1>2, PlainStepIs, PlainStepKeeps
<1>3. CASE WslReady(c)
  <2>1. LetGo(c) /\ launch[c] = "wsl" /\ UNCHANGED <<ssh, slotVars, revProcess, strays>>
    BY <1>3, DeliverLetsGo DEF WslReady
  <2> QED BY <2>1, OutcomeKeeps
<1>4. CASE PolicyReady(c) \/ PolicyFails(c)
  <2>1. launch[c] = "policy" /\ UNCHANGED <<slotVars, strays>> /\ \E gen : AfterPolicy(c, gen)
    BY <1>4 DEF PolicyReady, PolicyFails
  <2> QED BY <2>1, AfterPolicyKeeps
<1>5. CASE PolicyMissing(c)
  <2>1. LetGo(c) /\ launch[c] = "policy" /\ UNCHANGED <<ssh, slotVars, revProcess, strays>>
    BY <1>5, RejectedLetsGo DEF PolicyMissing
  <2> QED BY <2>1, OutcomeKeeps
<1>6. CASE ReverseUp(c) \/ ReverseTimeout(c) \/ ReverseExit(c)
  BY <1>6, ReverseUpKeeps, ReverseTimeoutKeeps, ReverseExitKeeps
<1>7. CASE MailboxTimeout(c)
  <2>1. LetGo(c) /\ launch[c] = "lost" /\ UNCHANGED <<ssh, slotVars, revProcess, strays>>
    BY <1>7, DeliverLetsGo DEF MailboxTimeout
  <2> QED BY <2>1, OutcomeKeeps
<1> QED BY <1>1, <1>2, <1>3, <1>4, <1>5, <1>6, <1>7 DEF Step, LaunchStep

LEMMA ReplyKeeps ==
  ASSUME Types, NEW c \in Calls, Reply(c)
  PROVE  Types' /\ (Tidy => Tidy')
  BY PlainStepIs, PlainStepKeeps DEF Reply

-----------------------------------------------------------------------------

LEMMA MixedStays ==
  ASSUME CallGoesOn \/ Mishap
  PROVE  mixed' = mixed
<1>1. ASSUME NEW c \in Calls, SshStep(c)
      PROVE  mixed' = mixed
  BY <1>1 DEF SshStep, Uname, Deploy, AgentReports, AgentFails, AgentExit, SpawnTunnel, TunnelUp,
              TunnelTimeout, TunnelExit
<1>2. ASSUME NEW c \in Calls, LaunchStep(c) \/ Reply(c)
      PROVE  mixed' = mixed
  BY <1>2 DEF LaunchStep, Reply, Alias, CallerTimeout, WslReady, WslFails, PolicyReady, PolicyFails,
              PolicyMissing, ReverseUp, ReverseTimeout, ReverseExit, MailboxTimeout, Probe, Answer,
              NobodyToAsk
<1>3. CASE Mishap
  BY <1>3 DEF Mishap, SshMishap, AgentEnds, ProcDies, AgentLeaves
<1> QED BY <1>1, <1>2, <1>3 DEF CallGoesOn, Step

LEMMA NextKeeps ==
  ASSUME IInv, [Next]_vars
  PROVE  IInv'
<1>1. CASE CallMade
  BY <1>1, StartKeeps DEF CallMade
<1>2. CASE CallGoesOn \/ Mishap
  <2>1. Types' /\ (Tidy => Tidy')
    BY <1>2, StepKeeps, ReplyKeeps, MishapKeeps DEF CallGoesOn, IInv
  <2> QED BY <1>2, <2>1, MixedStays DEF IInv
<1>3. CASE UNCHANGED vars
  <2>1. UNCHANGED <<at, launch, ssh, slotVars, revProcess, mixed, strays>>
    BY <1>3 DEF vars, sshVars, callVars, launchVars
  <2> QED BY <2>1, NothingKeeps DEF IInv
<1> QED BY <1>1, <1>2, <1>3 DEF Next

LEMMA InitHolds ==
  ASSUME Init
  PROVE  IInv
<1>1. Types
  BY DEF Init, SshInit, Types, Places, Ended, Launches, States
<1>2. /\ \A c \in Calls : ~Busy(c) /\ at[c] = "idle" /\ launch[c] = "none"
      /\ AgentWaits = {} /\ TunnelWaits = {} /\ ReverseWaits = {}
      /\ \A p \in Procs : ssh[p] = "none"
      /\ tunnelProcess = None /\ agentProcess = None /\ revProcess = None
  BY DEF Init, SshInit, Busy, Ended, AgentWaits, TunnelWaits, ReverseWaits
<1>3. \A k \in Kinds : Kept(k, ssh, None, {}, strays)
  BY <1>2, ProcsOfKinds DEF Kept, Lives
<1>4. Tidy
  BY <1>2, <1>3 DEF Tidy, OneBusy, PathInv, LaunchInv, Kinds
<1> QED BY <1>1, <1>4 DEF IInv

\* NothingOrphaned: while calls do not overlap, every ssh process that lives is in its slot
\* of common/proxy.ts or awaited, for any number of calls, hosts and requests and however late
\* exits are handled, but for one whose slot the exit of an older process cleared.
THEOREM NoProcessIsOrphaned == Spec => []NothingOrphaned
<1>1. Init => IInv
  BY InitHolds
<1>2. IInv /\ [Next]_vars => IInv'
  BY NextKeeps
<1>3. IInv => NothingOrphaned
  BY DEF IInv, Tidy, Kept, Lives, Alive, AgentWaits, TunnelWaits, ReverseWaits, NothingOrphaned
<1> QED BY <1>1, <1>2, <1>3, PTL DEF Spec

=============================================================================
