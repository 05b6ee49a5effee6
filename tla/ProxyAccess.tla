------------------------------- MODULE ProxyAccess -------------------------------
(***************************************************************************)
(* handleHostConfig and getProxyForSerialPorts (common/proxy.ts): how a    *)
(* debug session or a serial view gets the endpoint of a Probe Agent, over *)
(* ssh (SshTunnel) or from the agent of this machine, which is launched or *)
(* reused through the Windows host of a WSL guest, through the             *)
(* mcu-debug-proxy extension with a reverse tunnel when the session runs   *)
(* on another machine, or through a mailbox file when the CLI asks.        *)
(* A launch goes on after its caller has given up.                         *)
(***************************************************************************)
EXTENDS SshTunnel

Failed == 99   \* the port -1 of a launch that failed

VARIABLES
  launch,      \* call -> its launch: "none", "wsl", "policy", "reverse", "lost", "over"
  found,       \* call -> the agent its launcher reported
  revProcess,  \* sshRevTunnelProcess
  revConfig,   \* sshRevTunnelConfig
  cli,         \* the caller is the command line tool, not the extension
  dawn         \* call -> machine -> the first agent that can be up since the call was made (history)

launchVars == <<launch, found, revProcess, revConfig>>
vars == <<sshVars, launchVars, cli, dawn>>

Init ==
  /\ SshInit
  /\ launch = [c \in Calls |-> "none"]
  /\ found = [c \in Calls |-> None]
  /\ revProcess = None
  /\ revConfig = None
  /\ cli \in BOOLEAN
  /\ dawn = [c \in Calls |-> [h \in DOMAIN agent |-> 0]]

Ended == {"idle", "done", "failed", "dropped"}

Busy(c) == at[c] \notin Ended \/ launch[c] \notin {"none", "over"}

-----------------------------------------------------------------------------
(* handleHostConfig, up to its first await. *)

\* What the extension may be asked to launch with: the mode decides.
NeedsWslHost(r) == r.mode \in {"auto-wsl", "auto-wsl-nat", "auto-wsl-container"}
IsWslNatMode(r) == r.mode = "auto-wsl-nat"

\* awaitWithTimeout(launchProxyServerFromExtension(...)): first over the WSL host,
\* else by the command of the proxy extension.
BeginLaunch(c, r) ==
  /\ Settle(c, "launch")
  /\ launch' = [launch EXCEPT ![c] = IF NeedsWslHost(r) THEN "wsl" ELSE "policy"]

\* The branches of handleHostConfig.
Resolve(c, r) ==
  CASE r.mode = "ssh" ->
         StartSshTunnel(c, r) /\ UNCHANGED launchVars
    [] r.mode = "override" ->
         /\ Done(c, r, Endpoint(Here, [host |-> Here, gen |-> Given]))
         /\ UNCHANGED <<goal, slotVars, ssh, dest, agent, deaths, launchVars>>
    [] r.mode \in {"auto-local", "unknown"} ->
         /\ Settle(c, "dropped")
         /\ UNCHANGED <<goal, endpoint, cache, slotVars, ssh, dest, agent, deaths, launchVars>>
    [] r.mode = "auto-ssh-remote" ->
         /\ Settle(c, "alias")
         /\ UNCHANGED <<goal, endpoint, cache, slotVars, ssh, dest, agent, deaths, launchVars>>
    [] r.mode = "local" ->
         /\ Settle(c, "local")
         /\ launch' = [launch EXCEPT ![c] = "policy"]
         /\ UNCHANGED <<goal, endpoint, cache, slotVars, ssh, dest, agent, deaths, found, revProcess, revConfig>>
    [] OTHER ->
         /\ BeginLaunch(c, r)
         /\ UNCHANGED <<goal, endpoint, cache, slotVars, ssh, dest, agent, deaths, found, revProcess, revConfig>>

\* A session is launched, or a serial view asks; the view takes what is cached.
Start(c) ==
  \E r \in Requests :
    /\ at[c] = "idle"
    /\ req' = [req EXCEPT ![c] = r]
    /\ mixed' = (mixed \/ \E d \in Calls : Busy(d))
    /\ dawn' = [dawn EXCEPT ![c] = [h \in DOMAIN agent |-> Discovered(h)]]
    /\ UNCHANGED <<strays, cli>>
    /\ IF r.serial /\ cache[ProxyRequestFingerprint(r)] # None
         THEN /\ Done(c, r, cache[ProxyRequestFingerprint(r)])
              /\ UNCHANGED <<goal, slotVars, ssh, dest, agent, deaths, launchVars>>
         ELSE Resolve(c, r)

\* The ssh host alias of the remote window, or the configured one; there is neither, or the
\* command is rejected.
Alias(c) ==
  /\ at[c] = "alias"
  /\ \/ BeginLaunch(c, req[c])
     \/ Settle(c, "failed") /\ UNCHANGED launch
  /\ UNCHANGED <<req, goal, endpoint, slotVars, cache, ssh, dest, agent, deaths, mixed, strays, found, revProcess, revConfig>>

-----------------------------------------------------------------------------
(* The outcome of a launch, and who still waits for it. *)

Outcome(gen, via) == [gen |-> gen, via |-> via]
OwnAgent(gen) == [host |-> Here, gen |-> gen]

\* handleHostConfig goes on with what launchProxyServerFromExtension returned.
TakeOutcome(c, o) ==
  IF o = None \/ o.gen = Failed
    THEN Settle(c, "failed") /\ UNCHANGED <<endpoint, cache>>
    ELSE IF IsWslNatMode(req[c])
           THEN Settle(c, "probe") /\ UNCHANGED <<endpoint, cache>>
           ELSE Done(c, req[c], Endpoint(o.via, OwnAgent(o.gen)))

\* handleLocalHostConfig looks at no port.
TakeLocal(c, o) == Done(c, req[c], Endpoint(Here, OwnAgent(o.gen)))

Deliver(c, o) ==
  /\ launch' = [launch EXCEPT ![c] = "over"]
  /\ CASE at[c] = "launch" -> TakeOutcome(c, o)
       [] at[c] = "local"  -> TakeLocal(c, o)
       [] OTHER            -> UNCHANGED <<at, endpoint, cache>>

\* A command that rejects is caught; through the mailbox nobody is told.
Rejected(c) ==
  IF cli THEN launch' = [launch EXCEPT ![c] = "lost"] /\ UNCHANGED <<at, endpoint, cache>>
         ELSE Deliver(c, None)

\* awaitWithTimeout gives up after 10 s.  The launch goes on.
CallerTimeout(c) ==
  /\ at[c] = "launch"
  /\ Settle(c, "failed")
  /\ UNCHANGED <<req, goal, endpoint, slotVars, cache, ssh, dest, agent, deaths, mixed, strays, launchVars>>

-----------------------------------------------------------------------------
(* startOrReuseProxyServerOnWslHost. *)

WslReady(c) ==
  /\ launch[c] = "wsl"
  /\ Launched(Here)
  /\ found' = [found EXCEPT ![c] = Discovered(Here)]
  /\ \/ Deliver(c, Outcome(Discovered(Here), Here))
     \/ Deliver(c, None)    \* it reported bind errors
  /\ UNCHANGED <<req, goal, slotVars, ssh, dest, deaths, mixed, strays, revProcess, revConfig>>

\* The launcher exits, cannot run, or is silent for 15 s: another way is tried.
WslFails(c) ==
  /\ launch[c] = "wsl"
  /\ launch' = [launch EXCEPT ![c] = "policy"]
  /\ UNCHANGED <<callVars, slotVars, cache, ssh, dest, agent, deaths, mixed, strays, found, revProcess, revConfig>>

-----------------------------------------------------------------------------
(* startProxyServerWithPolicy and, in the proxy extension, the reverse tunnel. *)

Reverses(c) == req[c].mode = "auto-ssh-remote"

\* The reverse tunnel goes to the host, whatever the port it forwards to.
ReverseFitsAnyPort(c, gen) ==
  /\ revProcess # None
  /\ revConfig # None
  /\ revConfig.host = req[c].host

\* The reverse tunnel in the slot leads to this port.
ReverseFits(c, gen) ==
  /\ revProcess # None
  /\ revConfig # None
  /\ revConfig.host = req[c].host
  /\ revConfig.port = gen

StartReverse(c, gen) ==
  IF ReverseFits(c, gen)
    THEN Deliver(c, Outcome(gen, revConfig.remote)) /\ UNCHANGED <<ssh, dest, revProcess, revConfig>>
    ELSE /\ ssh' = [Kill(ssh, revProcess) EXCEPT ![<<"reverse", c>>] = "running"]
         /\ dest' = [dest EXCEPT ![<<"reverse", c>>] = OwnAgent(gen)]
         /\ revProcess' = None
         /\ revConfig' = IF revProcess = None THEN revConfig ELSE None
         /\ launch' = [launch EXCEPT ![c] = "reverse"]
         /\ UNCHANGED <<at, endpoint, cache>>

AfterPolicy(c, gen) ==
  /\ found' = [found EXCEPT ![c] = gen]
  /\ IF Reverses(c) THEN StartReverse(c, gen)
     ELSE Deliver(c, Outcome(gen, Here)) /\ UNCHANGED <<ssh, dest, revProcess, revConfig>>

\* The launcher's line reports the agent that runs, started or reused.
PolicyReady(c) ==
  /\ launch[c] = "policy"
  /\ Launched(Here)
  /\ AfterPolicy(c, Discovered(Here))
  /\ UNCHANGED <<req, goal, slotVars, deaths, mixed, strays>>

\* It exits without one, cannot run, or takes 10 s: the port is -1.
PolicyFails(c) ==
  /\ launch[c] = "policy"
  /\ AfterPolicy(c, Failed)
  /\ UNCHANGED <<req, goal, slotVars, agent, deaths, mixed, strays>>

\* The extension is not there, or the mailbox cannot be reached.
PolicyMissing(c) ==
  /\ launch[c] = "policy" /\ at[c] # "local"
  /\ Rejected(c)
  /\ UNCHANGED <<req, goal, slotVars, ssh, dest, agent, deaths, mixed, strays, found, revProcess, revConfig>>

\* "Allocated port ... for remote forward"
ReverseUp(c) ==
  LET p == <<"reverse", c>>
  IN  /\ launch[c] = "reverse" /\ ssh[p] = "running" /\ found[c] # Failed
      /\ ssh' = [ssh EXCEPT ![p] = "open"]
      /\ revProcess' = p
      /\ revConfig' = [host |-> req[c].host, port |-> found[c], remote |-> p]
      /\ Deliver(c, Outcome(found[c], p))
      /\ UNCHANGED <<req, goal, slotVars, dest, agent, deaths, mixed, strays, found>>

\* 15 s without a port.
ReverseTimeout(c) ==
  /\ launch[c] = "reverse"
  /\ ssh' = Kill(ssh, <<"reverse", c>>)
  /\ revProcess' = None
  /\ Rejected(c)
  /\ UNCHANGED <<req, goal, slotVars, dest, agent, deaths, mixed, strays, found, revConfig>>

ReverseExit(c) ==
  LET p == <<"reverse", c>>
  IN  /\ ssh[p] = "dying"
      /\ ssh' = [ssh EXCEPT ![p] = "gone"]
      /\ revProcess' = None
      /\ strays' = strays \cup Ousted(revProcess, p)
      /\ IF launch[c] = "reverse" THEN Rejected(c) /\ UNCHANGED revConfig
         ELSE revConfig' = None /\ UNCHANGED <<at, endpoint, cache, launch>>
      /\ UNCHANGED <<req, goal, slotVars, dest, agent, deaths, mixed, found>>

\* The mailbox is watched without a timer.
MailboxWaits(c) == FALSE /\ UNCHANGED vars

\* proxyServerCommand: no results file for 15 s.
MailboxTimeout(c) ==
  /\ launch[c] = "lost"
  /\ Deliver(c, None)
  /\ UNCHANGED <<req, goal, slotVars, ssh, dest, agent, deaths, mixed, strays, found, revProcess, revConfig>>

-----------------------------------------------------------------------------
(* WSL with NAT: the firewall may have to be opened. *)

\* tcpReachable; the second refusal is final.
Probe(c) ==
  /\ at[c] \in {"probe", "again"}
  /\ \/ Done(c, req[c], Endpoint(Here, OwnAgent(found[c])))
     \/ Settle(c, IF at[c] = "probe" THEN "asked" ELSE "failed") /\ UNCHANGED <<endpoint, cache>>
  /\ UNCHANGED <<req, goal, slotVars, ssh, dest, agent, deaths, mixed, strays, launchVars>>

\* The user retries or cancels.
Answer(c) ==
  /\ at[c] = "asked"
  /\ \E how \in {"again", "failed"} : Settle(c, how)
  /\ UNCHANGED <<req, goal, endpoint, slotVars, cache, ssh, dest, agent, deaths, mixed, strays, launchVars>>

\* There is no user in the CLI.
NobodyToAsk(c) ==
  /\ at[c] = "asked" /\ cli
  /\ Settle(c, "failed")
  /\ UNCHANGED <<req, goal, endpoint, slotVars, cache, ssh, dest, agent, deaths, mixed, strays, launchVars>>

-----------------------------------------------------------------------------

LaunchStep(c) ==
  \/ CallerTimeout(c) \/ WslReady(c) \/ WslFails(c)
  \/ PolicyReady(c) \/ PolicyFails(c) \/ PolicyMissing(c)
  \/ ReverseUp(c) \/ ReverseTimeout(c) \/ ReverseExit(c)
  \/ MailboxTimeout(c) \/ Probe(c) \/ NobodyToAsk(c) \/ (cli /\ Alias(c))

Step(c) ==
  /\ (SshStep(c) /\ UNCHANGED launchVars) \/ LaunchStep(c)
  /\ UNCHANGED <<cli, dawn>>

\* What no timer ends, outside the CLI and its mailbox: the user's choice, and the host that
\* the proxy extension is asked for.
Reply(c) ==
  /\ ~cli /\ (Alias(c) \/ Answer(c))
  /\ UNCHANGED <<cli, dawn>>

CallMade == \E c \in Calls : Start(c)
CallGoesOn == \E c \in Calls : Step(c) \/ Reply(c)
Mishap == SshMishap /\ UNCHANGED <<launchVars, cli, dawn>>

Next == CallMade \/ CallGoesOn \/ Mishap

Spec == Init /\ [][Next]_vars

\* Timers fire and exits are noticed.  Nothing is assumed of what has no timer.
FairSpec == Spec /\ \A c \in Calls : WF_vars(Step(c))

-----------------------------------------------------------------------------
(* Properties. *)

\* A serial view takes what an earlier resolution left (proxy.ts:847).
FromCache(c) == req'[c].serial /\ cache[ProxyRequestFingerprint(req'[c])] # None

\* A request over ssh wants an agent of its machine, the user's or one we start.
Wanted(r, token) ==
  r.mode = "ssh" => token.host = r.host /\ (token.gen = Given <=> r.daemon)

\* An agent, up at some time since the call was made or given by the user.
Current(c, token) == token.gen = Given \/ token.gen \in dawn[c][token.host] .. agent'[token.host].gen

\* A local launch that failed is taken for an endpoint, with port -1.
NoPort(c) == req'[c].mode = "local" /\ endpoint'[c].token.gen = Failed

\* What a call returns is one agent's: a tunnel whose end nobody has noticed forwards to the
\* agent whose token goes with it, and that agent is the one the request is for and was up
\* since the call was made.  This holds while calls, late exits, retries and restarted agents
\* cross, and a call takes a tunnel that another opened.  Except (NoPort) for a local launch
\* that failed; a serial view may be given what was cached (FromCache) although its tunnel
\* has ended since; and a call that awaits nothing (`idle'), because it finds its answer in
\* the cache or a tunnel that matches, does not learn whether the agent is still up.
EndpointMatches ==
  [][\A c \in Calls : at[c] # "done" /\ at'[c] = "done" /\ ~NoPort(c) =>
       LET ep == endpoint'[c]
       IN  /\ Wanted(req'[c], ep.token)
           /\ ep.via # Here => dest'[ep.via] = ep.token /\ (FromCache(c) \/ ssh'[ep.via] # "gone")
           /\ at[c] # "idle" => Current(c, ep.token)]_vars

\* As long as no two attempts were under way at once, every ssh process that lives is in its
\* slot, where the next call finds or kills it, or is being awaited: none is left to run on
\* unknown, however late the exits of killed ones are handled.  Except (`strays') for one whose
\* slot the exit of an older one of its kind cleared.
NothingOrphaned ==
  ~mixed => \A c \in Calls :
    /\ Alive(<<"agent", c>>) => agentProcess = <<"agent", c>> \/ at[c] = "agent" \/ <<"agent", c>> \in strays
    /\ Alive(<<"tunnel", c>>) => tunnelProcess = <<"tunnel", c>> \/ at[c] = "tunnel" \/ <<"tunnel", c>> \in strays
    /\ Alive(<<"reverse", c>>) => revProcess = <<"reverse", c>> \/ launch[c] = "reverse" \/ <<"reverse", c>> \in strays

Waits(c) == ~cli /\ at[c] \in {"alias", "asked"}

\* A call that was made returns or fails, and its launch ends, whatever hangs, unless it
\* waits for what has no timer (Waits): the user's choice, or the host of the remote window.
CallsSettle == \A c \in Calls : Busy(c) ~> ~Busy(c) \/ Waits(c)

=============================================================================
