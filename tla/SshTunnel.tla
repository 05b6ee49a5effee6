-------------------------------- MODULE SshTunnel --------------------------------
(***************************************************************************)
(* How a Probe Agent on another machine is reached (common/proxy.ts):      *)
(* startSshTunnel deploys the helper over ssh, starts the agent and opens  *)
(* an `ssh -L` tunnel to it, or takes the tunnel that is already there.    *)
(* The tunnel and the agent's ssh process live in slots of the module,     *)
(* shared by every call; a call awaits between reading and writing them,   *)
(* and the exit of a process is handled some time after it died.           *)
(***************************************************************************)
EXTENDS Naturals, FiniteSets

CONSTANTS
  None,       \* no value
  Here,       \* this machine
  Calls,      \* calls of handleHostConfig, each made once
  Hosts,      \* machines reached over ssh
  Requests,   \* the host configurations a call may be given
  MaxAgents,  \* bound: agents started on one machine
  MaxDeaths   \* bound: ssh processes that die by themselves

Given == 0         \* the agent the user started, whose port and token are configured
Kinds == {"agent", "tunnel", "reverse"}
Procs == Kinds \X Calls

ASSUME SshAssumption ==
  /\ MaxAgents \in Nat
  /\ MaxDeaths \in Nat
  /\ None \notin Procs

VARIABLES
  at,             \* call -> where it awaits
  req,            \* call -> its host configuration
  goal,           \* call -> the agent its tunnel is to reach, as [host, gen]
  endpoint,       \* call -> pvtProxyPort (through which process) and pvtProxyToken
  ssh,            \* process -> "none", "running", "open", "dying" (exit to come), "gone"
  dest,           \* process -> the agent it forwards to
  agent,          \* machine -> its agent: [gen, up]
  tunnelProcess,  \* sshTunnelProcess
  tunnelConfig,   \* sshTunnelConfig
  agentProcess,   \* sshAgentProcess
  cache,          \* resolvedHostConfigs: request -> endpoint
  deaths,         \* processes that died by themselves
  mixed,          \* two attempts were under way at once (history)
  strays          \* processes whose slot the exit of an older one cleared (history)

callVars == <<at, req, goal, endpoint>>
slotVars == <<tunnelProcess, tunnelConfig, agentProcess>>
sshVars  == <<callVars, slotVars, cache, ssh, dest, agent, deaths, mixed, strays>>

\* The fields that decide which agent a request resolves to.
ProxyRequestFingerprint(r) == [mode |-> r.mode, host |-> r.host, daemon |-> r.daemon, path |-> r.path]

SshInit ==
  /\ at = [c \in Calls |-> "idle"]
  /\ req = [c \in Calls |-> None]
  /\ goal = [c \in Calls |-> None]
  /\ endpoint = [c \in Calls |-> None]
  /\ ssh = [p \in Procs |-> "none"]
  /\ dest = [p \in Procs |-> None]
  /\ agent = [h \in Hosts \cup {Here} |-> [gen |-> 0, up |-> FALSE]]
  /\ tunnelProcess = None
  /\ tunnelConfig = None
  /\ agentProcess = None
  /\ cache = [k \in {ProxyRequestFingerprint(r) : r \in Requests} |-> None]
  /\ deaths = 0
  /\ mixed = FALSE
  /\ strays = {}

-----------------------------------------------------------------------------
(* Processes. *)

Alive(p) == ssh[p] \in {"running", "open"}

\* kill() of the process of a slot, if there is one.
Kill(P, p) == IF p # None /\ P[p] \in {"running", "open"} THEN [P EXCEPT ![p] = "dying"] ELSE P

\* `mdbg proxy` on machine h: the agent that runs, or a new one.
Discovered(h) == IF agent[h].up THEN agent[h].gen ELSE agent[h].gen + 1
Launched(h) == agent' = [agent EXCEPT ![h] = [gen |-> Discovered(h), up |-> TRUE]]

\* An agent idles out, is stopped, or its machine restarts.
AgentEnds ==
  \E h \in DOMAIN agent :
    /\ agent[h].up /\ agent[h].gen < MaxAgents
    /\ agent' = [agent EXCEPT ![h].up = FALSE]
    /\ UNCHANGED <<callVars, slotVars, ssh, dest, deaths, mixed, strays, cache>>

\* A tunnel breaks, or an ssh process is killed from outside.
ProcDies ==
  \E p \in Procs :
    /\ Alive(p) /\ deaths < MaxDeaths
    /\ ssh' = [ssh EXCEPT ![p] = "dying"]
    /\ deaths' = deaths + 1
    /\ UNCHANGED <<callVars, slotVars, dest, agent, mixed, strays, cache>>

\* The exit of a process clears the slot of its kind, whoever is in it.
Ousted(slot, p) == {slot} \ {None, p}

-----------------------------------------------------------------------------
(* startSshTunnel, up to its first await. *)

Settle(c, how) == at' = [at EXCEPT ![c] = how]

\* The call returns an endpoint; getProxyForSerialPorts keeps it.
Done(c, r, ep) ==
  /\ Settle(c, "done")
  /\ endpoint' = [endpoint EXCEPT ![c] = ep]
  /\ cache' = IF r.serial THEN [cache EXCEPT ![ProxyRequestFingerprint(r)] = ep] ELSE cache

\* The config fields that decide whether a tunnel can be taken over.
SshCacheFingerprint(r) == [host |-> r.host, daemon |-> r.daemon, path |-> r.path]

\* The tunnel in the slot fits the request.
TunnelFits(r) ==
  /\ tunnelProcess # None
  /\ tunnelConfig # None
  /\ tunnelConfig.fingerprint = SshCacheFingerprint(r)

\* A tunnel and its token, as the host configuration keeps them.
Endpoint(p, token) == [via |-> p, token |-> token]

ReuseTunnel(c, r) ==
  /\ TunnelFits(r)
  /\ Done(c, r, Endpoint(tunnelConfig.process, tunnelConfig.token))
  /\ UNCHANGED <<goal, slotVars, ssh>>

\* startSshProxyServer: any stale agent process is killed first.
SpawnAgent(c, P) ==
  /\ ssh' = [Kill(P, agentProcess) EXCEPT ![<<"agent", c>>] = "running"]
  /\ agentProcess' = None
  /\ Settle(c, "agent")

\* Only the tunnel is killed.
SweptTunnelOnly == IF tunnelProcess = None THEN ssh ELSE Kill(ssh, tunnelProcess)

\* Whatever the slot holds is killed: killSshAgent, killSshTunnel.
Swept == IF tunnelProcess = None THEN ssh ELSE Kill(Kill(ssh, agentProcess), tunnelProcess)

FreshTunnel(c, r) ==
  /\ ~TunnelFits(r)
  /\ tunnelProcess' = None
  /\ tunnelConfig' = IF tunnelProcess = None THEN tunnelConfig ELSE None
  /\ IF ~r.daemon /\ r.path
       THEN SpawnAgent(c, Swept)
       ELSE /\ ssh' = Swept
            /\ agentProcess' = IF tunnelProcess = None THEN agentProcess ELSE None
            /\ Settle(c, IF r.daemon THEN "port" ELSE "uname")
  /\ goal' = [goal EXCEPT ![c] = IF r.daemon THEN [host |-> r.host, gen |-> Given] ELSE None]
  /\ UNCHANGED <<endpoint, cache>>

StartSshTunnel(c, r) ==
  /\ ReuseTunnel(c, r) \/ FreshTunnel(c, r)
  /\ UNCHANGED <<dest, agent, deaths>>

-----------------------------------------------------------------------------
(* The awaits of startSshTunnel. *)

\* sshRunHelper("uname -sm"): done, or a bad exit, a timeout, an unknown machine.
Uname(c) ==
  /\ at[c] = "uname"
  /\ \E ok \in BOOLEAN : Settle(c, IF ok THEN "deploy" ELSE "failed")
  /\ UNCHANGED <<req, goal, endpoint, slotVars, ssh, dest, agent, deaths, mixed, strays, cache>>

\* sshCopyHelper streams the helper; then the agent is started.
Deploy(c) ==
  /\ at[c] = "deploy"
  /\ \/ SpawnAgent(c, ssh)
     \/ Settle(c, "failed") /\ UNCHANGED <<agentProcess, ssh>>
  /\ UNCHANGED <<req, goal, endpoint, tunnelProcess, tunnelConfig, dest, agent, deaths, mixed, strays, cache>>

\* The agent's discovery line: its port and the token it really has.
AgentReports(c) ==
  LET h == req[c].host
  IN  /\ at[c] = "agent" /\ ssh[<<"agent", c>>] = "running"
      /\ Launched(h)
      /\ goal' = [goal EXCEPT ![c] = [host |-> h, gen |-> Discovered(h)]]
      /\ agentProcess' = <<"agent", c>>
      /\ ssh' = [ssh EXCEPT ![<<"agent", c>>] = "open"]
      /\ Settle(c, "port")
      /\ UNCHANGED <<req, endpoint, tunnelProcess, tunnelConfig, dest, deaths, mixed, strays, cache>>

\* A bad line, a port of zero, or 30 s without one (bind errors are waited out).
AgentFails(c) ==
  /\ at[c] = "agent" /\ ssh[<<"agent", c>>] = "running"
  /\ ssh' = Kill(ssh, <<"agent", c>>)
  /\ agentProcess' = None
  /\ Settle(c, "failed")
  /\ UNCHANGED <<req, goal, endpoint, tunnelProcess, tunnelConfig, dest, agent, deaths, mixed, strays, cache>>

\* The agent's ssh process is reaped.
AgentExit(c) ==
  /\ ssh[<<"agent", c>>] = "dying"
  /\ ssh' = [ssh EXCEPT ![<<"agent", c>>] = "gone"]
  /\ agentProcess' = None
  /\ strays' = strays \cup Ousted(agentProcess, <<"agent", c>>)
  /\ IF at[c] = "agent" THEN Settle(c, "failed") ELSE UNCHANGED at
  /\ UNCHANGED <<req, goal, endpoint, tunnelProcess, tunnelConfig, dest, agent, deaths, mixed, cache>>

\* The launcher on the other machine has done its work and exits.
AgentLeaves(c) ==
  /\ ssh[<<"agent", c>>] = "open"
  /\ ssh' = [ssh EXCEPT ![<<"agent", c>>] = "dying"]
  /\ UNCHANGED <<callVars, slotVars, dest, agent, deaths, mixed, strays, cache>>

\* getAnyFreePort, and the tunnel is spawned on that port.
SpawnTunnel(c) ==
  /\ at[c] = "port"
  /\ \/ /\ ssh' = [ssh EXCEPT ![<<"tunnel", c>>] = "running"]
        /\ dest' = [dest EXCEPT ![<<"tunnel", c>>] = goal[c]]
        /\ Settle(c, "tunnel")
     \/ Settle(c, "failed") /\ UNCHANGED <<ssh, dest>>
  /\ UNCHANGED <<req, goal, endpoint, slotVars, agent, deaths, mixed, strays, cache>>

\* The poll connects.  The promise is resolved, and handleHostConfig reads the
\* port of the tunnel in the slot, before anything else runs.
TunnelUp(c) ==
  LET p == <<"tunnel", c>>
  IN  /\ at[c] = "tunnel" /\ ssh[p] = "running"
      /\ ssh' = [ssh EXCEPT ![p] = "open"]
      /\ tunnelProcess' = p
      /\ tunnelConfig' = [fingerprint |-> SshCacheFingerprint(req[c]), process |-> p, token |-> goal[c]]
      /\ Done(c, req[c], Endpoint(tunnelConfig'.process, goal[c]))
      /\ UNCHANGED <<req, goal, agentProcess, dest, agent, deaths, mixed, strays>>

\* 15 s without a connection.
TunnelTimeout(c) ==
  /\ at[c] = "tunnel"
  /\ ssh' = Kill(ssh, <<"tunnel", c>>)
  /\ tunnelProcess' = None
  /\ Settle(c, "failed")
  /\ UNCHANGED <<req, goal, endpoint, tunnelConfig, agentProcess, dest, agent, deaths, mixed, strays, cache>>

\* The tunnel's process is reaped, 10 ms later; the configuration stays.
TunnelExit(c) ==
  LET p == <<"tunnel", c>>
  IN  /\ ssh[p] = "dying"
      /\ ssh' = [ssh EXCEPT ![p] = "gone"]
      /\ tunnelProcess' = None
      /\ strays' = strays \cup Ousted(tunnelProcess, p)
      /\ IF at[c] = "tunnel" THEN Settle(c, "failed") ELSE UNCHANGED at
      /\ UNCHANGED <<req, goal, endpoint, tunnelConfig, agentProcess, dest, agent, deaths, mixed, cache>>

SshStep(c) ==
  \/ Uname(c) \/ Deploy(c)
  \/ AgentReports(c) \/ AgentFails(c) \/ AgentExit(c)
  \/ SpawnTunnel(c) \/ TunnelUp(c) \/ TunnelTimeout(c) \/ TunnelExit(c)

SshMishap == AgentEnds \/ ProcDies \/ \E c \in Calls : AgentLeaves(c)

=============================================================================
