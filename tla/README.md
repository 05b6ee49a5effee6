# A verification project for mcu-debug

mcu-debug debugs microcontrollers from VS Code or a terminal.  A TypeScript debug
adapter drives gdb and a gdb-server (openocd, J-Link, ...).  The gdb-server, and serial
ports, may be on another machine: there a Rust program, the *Probe Agent* (`mdbg proxy`),
launches the server and forwards its TCP ports and the serial ports over one socket, the
*funnel*, usually through an ssh tunnel.  The same Rust program is the *debug helper* of the
adapter, which reads the executable.

This directory holds TLA+ modules translated from that code, TLC configurations that check
them on small instances, and theorems TLAPS proves for every value of the constants.
`PROJECT.json` lists the runs, the source lines of every definition, the hazards, the
findings, and for each property a plausible bug of the code that breaks it.

    tlc -workers 2 -config MCSerialPort.cfg MCSerialPort.tla     # one run
    tlapm SerialPortProofs.tla                                   # the proofs

## Inventory

Paths: `mdbg/` is `packages/mdbg/src/`, `mcu/` is `packages/mcu-debug/src/`.

| Component | State | Operations | Interacts with |
|---|---|---|---|
| Receive ring `mdbg/serial/ring.rs` | buffer, write position, fill | push, snapshot | the port, under its lock |
| Port handle `mdbg/serial/port.rs` | ring, clients with a bounded queue each, reader and drain threads | open, attach, detach, write, reconfigure, subscribe to errors, close | device; bridge and registry attach writers |
| TCP bridge `mdbg/serial/bridge.rs` | accept thread, tracked connection, stop flag | accept, serve, stop | attaches one client at a time to the port |
| Registry and `serial.*` `mdbg/proxy_helper/proxy_server/serial.rs` | path -> open port, references, funnel channels; per session: routes, marks | open, close, end of session, force close, list | every session, under one lock; error events |
| Hot-plug hub `serial_available.rs` | last list, revision, subscribers | poll, subscribe, unsubscribe | sessions |
| Session `proxy_server/{mod,gdb_server}.rs`, `port_monitor.rs` | streams, reservations, gdb-server child, flags, event channel | initialize, allocatePorts, syncFile, startGdbServer, startStream, duplicateStream, endSession, data | its threads (reaper, monitor, waiters, forwarders) report to its loop |
| Agent entry `run.rs`, `listeners.rs`, `lifetime.rs`, `admin.rs` | listeners, session count, drain and idle deadlines | accept, discriminate, add or drop a listener, drain, shut down | sessions, singleton |
| Singleton `singleton.rs` | advisory lock, endpoint file | claim, publish, supersede | other agents, through the file system |
| Proxy client `mcu/adapter/proxy-client.ts` | requests in flight and timers, streams, local servers and sockets | start, allocatePorts, launchServer, startStream, stop | session over the funnel; gdb over local TCP |
| Server session `mcu/adapter/server-session.ts` | launch promise, timers, stop flag | startServer, stopServer | proxy client or a local process |
| gdb/MI channel `mcu/adapter/gdb-mi/` | queue, command in flight, its timer | send, receive, exit | gdb process |
| Debug session `mcu/adapter/gdb-session.ts`, `seq-debug-session.ts`, `breakpoints.ts` | queue of requests, run state, breakpoints | DAP requests, launch tail, disconnect | gdb/MI, server session |
| Variables `mcu/adapter/variables.ts`, `var-scopes.ts`, `shared/.../handles.ts` | handles, containers, gdb's variable objects | scopes, variables, evaluate, set | debug session, gdb |
| Live watch `live-watch-monitor.ts`, `frontend/views/live-watch.ts` | lines, requests, updates, second gdb | add, rename, remove, edit, poll | debug session, target |
| Built-in RTT `rtt-builtin.ts`, `memory.ts` | ring descriptors, poll loops, write buffer | search, poll, type, stop | live gdb, target memory |
| Disassembly helper `mdbg/da_helper/`, `mcu/adapter/helper.ts`, `disassembly-new.ts` | load state, waiting requests, listing | load, query, dispose | adapter over stdio |
| Serial manager `mcu/common/serial-manager.ts`, `serial-view.ts` | connection, open ports, listeners, views, reconnect timers | connect, open, reconnect, close | session over the funnel, terminals |
| Provisioning `mcu/common/proxy.ts`, `shared/proxy-starter.ts`, proxy extension | slots of tunnel and agent processes, caches, launches | resolve, deploy, launch, tunnel, reverse tunnel | agent entry, ssh |
| Port search `find-free-ports.ts`, chained sessions `frontend/extension.ts`, `cli-session.ts`, `config-provider.ts` | claims, ports in use, tree of sessions | search, launch children, end them | adapters of one machine |
| Server controllers, CLI, cockpit, decoders, manifest | command lines, user interface | | debug session |

What is hard in this code: the hand-over from history to live data when a client attaches
to a port; threads joined while others may be parked in blocking writes; a registry whose
lock is let go in the middle of an operation; the order in which the end of the gdb-server,
its output and its connections reach the client; requests that are never answered or
answered late; connections that end, or go silent, at any moment; breakpoints set while the
target runs; gdb objects kept from one stop to the next; rings shared with a running
firmware; processes that start, hand over and die with only a lock and a file between them.
The list, line by line, is under `hazards` in `PROJECT.json`.

What makes each part correct:

* **port, bridge**: every client is given an unbroken run of the device's output, whatever
  the others do; one connection at a time on the bridge; threads end.
* **registry**: the books of the registry and of the sessions agree; nobody takes what
  another session holds.
* **agents**: one agent per user and instance is reached, the endpoint file leads to it, an
  agent that ends cuts nobody off, a start comes to an end.
* **session and client**: no gdb-server outlives its session; the launch, the local
  connections and the stop come to an end; each local connection has one conversation.
* **debug session**: every request is answered, and once; breakpoints of gdb and of the
  adapter agree; the client knows whether the target runs.
* **variables, live watch**: what is shown is what the target has; no object is lost or
  left behind.
* **helper, RTT**: an answer belongs to its request; RTT is not missed; bytes in order.
* **serial manager**: a view shows its port's bytes, an unused port is not kept, a device
  that comes back is reconnected.
* **provisioning**: an endpoint leads to the agent whose token it carries; no ssh process
  is forgotten.
* **sessions of a machine**: no two share a port; the children of an ended session end.

## Modules

| Module | Models | Composed with |
|---|---|---|
| `SerialRing` | ring.rs: `Push`, `Snapshot` as operators | |
| `SerialFeed` | abstract: what an open port promises its clients | implemented by `SerialPort` |
| `SerialPort` | port.rs: reader, fan-out, attach, detach, drains, close | `SerialRing` |
| `SerialBridge` | bridge.rs | extends `SerialPort` |
| `SerialRegistry` | serial.rs: one path, several sessions, both transports | |
| `ProxySession` | mod.rs, gdb_server.rs, port_monitor.rs: one session of the agent | |
| `ProxyClient` | proxy-client.ts and server-session.ts | extends `ProxySession` |
| `ProxyAgents` | singleton.rs, run.rs, listeners.rs, lifetime.rs, admin.rs | |
| `GdbChannel` | gdb-instance.ts, and gdb as the adapter sees it | |
| `DebugSession` | seq-debug-session.ts, gdb-session.ts, breakpoints.ts | extends `GdbChannel` |
| `Variables` | variables.ts, var-scopes.ts, handles.ts | |
| `LiveWatch` | live-watch.ts, live-watch-monitor.ts, with the part of variables.ts they use | |
| `RttBuffer` | rtt-builtin.ts, memory.ts | |
| `DisasmWindow` | get_assembly.rs: the window of a listing, as operators, and what callers expect | |
| `DisasmHelper` | run.rs, request_handler.rs, disasm_worker.rs; helper.ts, disassembly-new.ts | extends `DisasmWindow` |
| `SerialAgent` | the hub and one session's serial half, as the manager meets them | |
| `SerialManager` | serial-manager.ts, serial-view.ts | extends `SerialAgent` |
| `SshTunnel` | proxy.ts: deployment, agent and tunnel over ssh | |
| `ProxyAccess` | proxy.ts, proxy-starter.ts, the proxy extension, the CLI's mailbox | extends `SshTunnel` |
| `PortScan` | find-free-ports.ts, several processes | |
| `ChainedSessions` | extension.ts, cli-session.ts, config-provider.ts | extends `PortScan` |
| `MC*` | TLC instances; `MCSerialPort`, `MCSerialManager` and `MCAdapter` hold several scenes that share nothing, told apart in the first state | |
| `*Proofs` | theorems about the module they are named for; `SerialPortProofs` holds the ring's and the bridge's too, `HelperRttProofs` the helper's and RTT's | |

A definition whose comment begins "Faulty variant" is a plausible mistake in the code it
stands beside; no specification uses it.  Putting it in place of the original makes the
property named in `PROJECT.json` fail, which shows that the property depends on that code.

Most histories are sets or flags (`lapse`, `upsets`, `doubt`, `mixed`, ...) that record that
something befell the system which the code knowingly does not make up for.  A property that
excepts such a state says so in its comment; the sections below say what the exception is.

### SerialRing, SerialPort, SerialBridge

A byte is its position in the device's output, so "nothing lost, nothing repeated" is
arithmetic.  All that the code does under one acquisition of the `clients` lock is one
step: the reader's push and fan-out (`ReaderFanOut`), attach's snapshot and insert
(`Attach`), detach's removal (`Detach`).  The device read, the drain threads' `recv` and
`write_all`, the join in `detach_client` and the two halves of `close` interleave freely.
A client's peer may stop reading (`PeerStalls`) or vanish (`PeerLeaves`); a failed write
leaves any prefix of its chunk written.  `received`, `joined` and `owed` are history.  Not
modelled: line parameters, `reconfigure`, `write_to_port`.

The bridge's accept loop is a program counter (`acceptor`), its connection's TCP-to-serial
thread another (`upstream`); `stop()` has its four stages, flag, take, wake, join, as
actions.  Attaching and detaching are the port's actions, taken by the bridge's thread.  An
error of `accept()` ends the loop at any time (`AcceptFails`), and what waits is reset.

### SerialRegistry

One device path, sessions that open and close it with either transport, an operator who
force-closes it, a device that dies and comes back.  A handler is cut where it lets go of
the registry lock: opening a funnel takes `OpenFunnel`, `AllocChannel`, `Subscribe`; a
close that retires a port is `Close` and then `FinishDrop`, outside the lock.  A handle is
alive while someone holds a strong reference, which `entry` and `held` are.  A fatal error
reaches each subscribed session later, as an event that names the path and not the handle.
`upsets` records where the code tells a session nothing or too late: the port was
force-closed; it died under a session that had not subscribed yet, or was shared after its
death ("untold"); it was opened anew while a session had yet to read of an older death, whose
handler or close then takes what belongs to the new handle ("late"); a channel was recorded
in the entry of another handle ("crossed").  A death by itself is no upset: the books agree
through it, and what a session keeps in `serial_direct_paths` of a port that is gone it keeps
until it has read of the death.  That the last session out takes the entry holds after every
upset but "crossed".

### ProxySession and ProxyClient

All threads of a session report to its loop through one channel.  An event waits in its
sender's variables (`reaper = "reporting"`, `conn[k].at = "connected"`, `pipe`, ...) until
the loop takes it: the order of one sender's events is kept, the order between senders is
open.  The funnel is two sequences of frames, reliable and in order as TCP is, until the
link freezes (nothing arrives any more, nobody notices) or breaks (both ends see it close).

| Code | Actions |
|---|---|
| message_loop, control frames | `Initialize`, `AllocatePorts`, `SyncFile`, `StartGdbServer`, `StartStream`, `DuplicateStream`, `EndSession`; `ForwardIn` for data, `ClientClosed` for the end of the socket |
| message_loop, events | `PortReady`, `PortConnected(k)`, `PortFailed(k)`, `StreamData(k)`, `StreamClosed(k)`, `Output`, `GdbServerExited` |
| reap_gdb_server | `ReaperPolls`, `ReaperJudges`, `ReaperCancelled` (polling and looking at the flag are two steps); `ReaperFails` (it cannot poll the process) |
| wait_for_ports | `MonitorFinds`, `MonitorFails` (it gives up silently when lsof or netstat fails) |
| spawn_port_waiters | `WaiterConnects(k)`, `WaiterFails(k)`, `WaiterCancelled(k)`; a loop that takes over 2 s leaves a connection nobody forwards: `PortConnectedLate(k)` |
| Drop | `DropSession` |
| startServer, launchServer | `SendSetup` (four requests, one after another), `Listening`, `ExitTimer`, `LaunchTimer`; `SpawnsLocally` (a stop has taken the proxy client away) |
| sendControlCommand, failPendingCommands | `Ask`, `Timeout(r)`, `SocketCloses` |
| handleProxyMessageInternal | `Receive` |
| RemoteServer, RemoteStream | `Connect(l)`, `LocalSends(l)`, `LocalCloses(l)`, `FromProxy`, `SetStreamId` |
| stopServer, stop | `Stop`, `HalfClose`, `CloseTimer` |

The adapter is one event loop: a frame, timer or socket event and the promise
continuations it resolves are one step.  One port is forwarded; streams duplicated from it
are the second and later connections to it.  An unknown stream, a stream already
connected, and a duplicate of one that is not, get no answer, as in the code.  Once a local
client has hung up or been timed out (`restless`), `OneConversation` promises nothing: the
code may then hand one client's stream to the other.

### ProxyAgents

Every `mdbg proxy --daemonized` of a user and instance is a process with a program counter:
`off`, `probing`, then `probed`, `waiting`, `freed`, `taking`, `owner`, `binding`,
`serving`, `joined`, `finishing`, `removing`, `exited` for one that becomes the agent, or
`held`, `asking`, `reusing`, `reused` for one that finds the lock held.  A probe takes the
lock and drops it again in a step of its own, as `try_write().is_err()` does.

| Code | Actions |
|---|---|
| acquire_or_reuse | `Probe`, `DropProbe`, `ProbeAgain`, `WaitTimesOut`, `Take`, `RemoveStale`; `ReadEndpoint`, `ReadGivesUp`, `Ask`, `AskAnswered`, `AskFails`, `Reuse` |
| widen_running_proxy | `AskToWiden` |
| run | `Launch`, `Serve`, `BindFails`, `HandOver`, `Finish`, `Exit` |
| accept_loop | `Accept`, `LoopStops`, `SessionBegins`, `ThreadEnds` |
| AcceptSet | `Widen`, `WidenFails`, `WakeAll`, `JoinListeners` |
| wait_until_idle, trigger_graceful_shutdown | `MonitorFires`, `MonitorWakes` (flag and wake-up are two steps) |
| begin_drain, begin_upgrade, publish_hosts | `Shutdown`, `Upgrade`, `ReadFile`, `WriteFile`, `UpgradeTriggers`, `UpgradeWakes` |
| environment | `ClientConnects`, `OperatorConnects`, `Crash` |

A connection is `<<who, kind>>` and waits in the backlog of its address until an accept
loop returns it; a loop that stops closes what hangs on it.  A wake-up is kept as the set
`woken` of addresses with a self-connection pending.  `strayed` and `late` are history: an
agent without the lock has written `endpoint.json`; an address was added after the stop
flag was set.  The code prevents neither.  Not modelled: `narrow` (nothing in the
repository sends it), the `--heartbeat` reference (the launcher does not pass it to the
daemon), `status`, the wildcard address, tokens, the `state` field of the file (nobody
reads it).  The idle timeout is taken to be longer than a start.

### GdbChannel and DebugSession

| Code | Actions |
|---|---|
| sendCommand, processCommandQueue | `Send`, `SendNext`: one command at a time is given to gdb |
| handleOutputLine, handleStopped | `ReceiveResult`, `ReceiveAsync` |
| the timer of a command; handleExit, handleStdoutClose | `TimerExpires`; `SeesExit`, `StdoutCloses` |
| gdb and its target | `GdbReads`, `TargetStops`, `GdbDies` |
| dispatchRequest, processQueue | `Ask`, `Enqueue`, `Taken`; a request to end is taken at once |
| a handler, up to its first await | `Inspect`, `Continue`, `GotoTargets`, `Pause`, `Reset`, `ConfigurationDone`, `SetBreakpoints`, `Disconnect` |
| what follows its awaits | `Reading`, `Clearing`, `Continuing`, `Jumping`, `Pausing`, `Resetting`, `Resuming`, ... on the result of the command it waits for |
| executeWhileStopped and the manager's methods | `Interrupting`, `Deleted`, `Inserted`, `OperationEnds`, `Return` |
| runSessionModeCommands, sendContinueWhenPossible | `ModeCommands`, `RunsOn`, `Flushing`, `Kicking`, of task 0 |
| finishSession | `FinishInterrupted`, `FinishSettles`, `FinishDeleted`, `FinishLeft`, `FinishStopped`, `FinishServer` |

A task is a request or, as 0, the tail of the launch.  What a promise resolves runs before
the next timer or request (`Calm`), but gdb's records may come in one piece or in several.
gdb and its target (marked external in the map) do what the adapter can tell apart: they
refuse what needs a halted target, stop some time after an interrupt, and may die.
Breakpoint numbers are given out by gdb; `table` is gdb's list, `book` the adapter's.
`lapse` records that a timer expired or a reset or jump failed, `missed` that the client was
not told of the last stop because it came between the resumption after an operation and the
`finally` of the handler; `ViewIsTrue` allows the client to be wrong in that case only.  Commands
that the code sends in one go for a set of breakpoints or requests go in any order.

### Variables

Requests are served one at a time, so that a handler with all its gdb commands is one step;
what is hard is their sequence.  Handles are positions in a sequence, references are
computed by the shifts and masks of var-scopes.ts, and gdb's objects report only what
changed since their last report.  Places (`Place`) are where a value lives; `answer` holds
what the last response showed, with the place it was read for.  The histories `moved`,
`stale`, `leaked` except what is known to be kept too long: after a step, which clears
nothing, registers and the variables of a function that was stepped into.  One thread;
children of a structure are one member.

### LiveWatch

View and adapter are two event loops joined by ordered links.  View: `Adds`, `Renames`,
`Removes`, `Edits`, `Refresh`, `HearsValue`, `HearsUpdates`, `HearsDeleted`, ...  Adapter:
`Arrives`, `Serves`, then `Registers`, `Evaluates` (`Creates`, `Queries`, `Evaluated`),
`Writes` (`Assigns`, `Pokes`, `Confirms`), `Deletes`; `Tick` and `Halts` start updates,
`UpdateAnswered` and `ChainedUpdate` end them.  An answer of gdb and the step it wakes are
one action, because gdb answers in order.  A value is the number of the change that made
it, so that a later value is a larger one.

Histories except the following, each from the step at which it happens.  `doubt` names the
line and why: an update that names its object before the view knows the name, so that the
change is lost ("early"); a second evaluation, answered with the value the container took
down at the first ("stale"); the answer of an expression that the line no longer has
("crossed"); an object deleted for an earlier line of the same expression ("deleted"); what
a second write overwrites of a report not yet passed on ("overwritten"); an evaluation turned
away by a continue, until another answers ("refused"); a write to a stopped target that no
update has followed yet ("unasked").  `leaked` names the object of a line removed while it is
evaluated, and that of setExpression.  `late` is a live gdb that connects to a target already
running, whose timer is not started before the next run.  A registration cancelled by a
continue leaves the view without a live session: nothing is claimed of it.  Not modelled: children, formats, the death of the live
gdb, memory requests.

### RttBuffer

Every access to the target's memory is a command to gdb and takes a turn of the event loop,
during which the firmware prints and reads on.  The actors are the poll loops, of which each
report that the target runs may start another (`OnRunning`), and the writer.  A loop goes
`Begins`, `Polls`, `Searches`, `Counts`, `ReadsDesc`, `ReadsChunk`, `Acks`; writing is `ReadsDown`,
`Writes`, `WritesRest`, `Publishes`.  Bytes are numbered.  The search is two awaited reads:
the block is `found` by the first, the channels are `counted` by the second, and what is
typed in between takes the descriptor of the firmware's own ring for its own (`astray`,
`Points`, `Puts`).  `lapse` names what befell: two loops polling or two drains at once, a
write that overtakes another, a ring short of room, bytes that went astray, a gdb command
that failed before bytes were acknowledged or in the last poll.  What is shown is excepted
from the first, the failures and bytes astray; what the firmware reads from all.  Bound:
after bytes went astray neither the target nor the user does any more (`BytesAstray`).

### DisasmWindow and DisasmHelper

`Window` is `get_window` over a set of addresses; `Centred` is what its callers count on
(the instruction asked for at its place, neighbours in order, padding at the ends), written
independently.  The adapter asks by `AskHelper`, waits for the symbols (`SymbolsThere`,
`SymbolsLate`), may time out (`RequestTimesOut`), be disposed of, or find the helper dead
(`HelperExits`).  The helper's main thread goes `MainFindsSymbols`, `MainLoads`,
`MainReady`, `MainServes`; its worker `WorkerLists` or `WorkerFails`, `WorkerLearns`,
`WorkerServes`; either may die (`HelperDies`).  `loadSymbols` waiting for the RTT block is
`RttSettles`.

### SerialAgent and SerialManager

JavaScript runs one continuation at a time: an action is what happens between two awaits.
`createSerialPorts` and each path's `attemptReconnect` are tasks that await a connection, a
snapshot, an answer or the binding of a listener, which may fail (`BindFails`).  A view has
the socket that connected last (`link`); those still dialing (`dials`) and those its listener
destroyed (`cut`) are out of its reach, and a view that another replaced keeps its own
(`Old`).  A path is `labelled` when its tab has a name of its own, a label or the CLI's
prefix: the host finds the tab of any other again by the device's name, and hands it out as
it is (`ShowView`).  `doubt` records what befell a path and until when.  Until the next open
is answered: an answer that came after its timer (`late`), an error or a close that crossed
an open (`crossed`; `crossing` while the open is still on its way), an agent that died
(`lost`), a listener that was not bound (`unbound`).  Until the view is dialed again: a tab
handed out without a socket (`undialed`), and one dialed while it was dialing (`redialed`).
`ViewsAreFed` excepts the first four, and the last two only where it says that the view is
connected.  Assumed: a listener is bound within the 3 s of a reconnect's timer (`Binding`);
one reconnect attempt for a path and one `createSerialPorts` at a time; a byte crosses the
loopback in one step.  `OwnBytesInOrder` is promised while the agent lives.

### SshTunnel and ProxyAccess

The tunnel's and the agent's processes live in slots of the module shared by every call; a
call awaits between reading and writing them, and the exit of a process is handled some
time after it died.  A call resolves its request (`Start`, `Resolve`), deploys and launches
over ssh (`Uname`, `Deploy`, `SpawnAgent`, `AgentReports`, `SpawnTunnel`, `TunnelUp`), or
launches locally, through WSL (`WslReady`), through the proxy extension with a reverse
tunnel (`StartReverse`, `ReverseUp`) or through the CLI's mailbox (`MailboxTimeout`).  A
launch goes on after its caller gave up (`CallerTimeout`).  What an awaited answer without a
timer says, of the user or of the remote window, is `Reply`, which is under no fairness.
`mixed` excepts two attempts that overlap; `strays` are the processes whose slot was cleared
by the late exit of an older one; `dawn` is the first agent that can have been up since a
call was made, and `NoPort`, `FromCache` and the call that never awaits are what
`EndpointMatches` excepts.

### PortScan and ChainedSessions

A port is claimed by listening on it; the claim is given back before the gdb-server is
started, and then only the list of ports to avoid keeps sessions apart.  A session searches
for its server's ports, side by side, and then for those of RTT (`Binds`, `Skips`, `Finds`).
Machines differ in whether loopback and the wildcard address are separate, what the adapter
measured of it, where its server listens and which ports are taken.  The extension learns of
ports, launches and ends by events that arrive in order but late (`mail`): `PortsUsed`,
`Chained`, `Terminating`, `Removed`.  `blind` records two sessions resolved before the one
had its ports, `missed` a child that was not in the tree when its parent said it would end.
A child on its parent's server has no RTT of its own here; a session ended by its parent
keeps its server until `Exits`.

## Runs

| Run | Shows |
|---|---|
| `port` | Types, exactly-once delivery, flush on detach, refinement of `SerialFeed`; the bridge serves one connection; `close()` and a hang-up are not held up; the bridge's `stop()` returns, or waits for a client it could not see. |
| `registry` | The last session out takes the entry; the books of registry and sessions agree through a death; one channel per session and handle. |
| `proxy_life` | A whole session with a failing server, a stopping user and a link that breaks or freezes: no server left behind, whichever end goes first is noticed, `stop` returns. |
| `agents` | An agent and a newer process started at any moment, with a session, an operator's shutdown, a widening and a crash: types, one listens, the file names it, no accepted connection is cut, starts and hand-overs end. |
| `debug` | Requests of every kind while gdb, its target and the launch go on: answered once, breakpoints on record, the client's view is true; requests and the session end. |
| `disasm` | The helper, with timeouts, death and disposal: answers reach their own requests, windows are centred, RTT is not missed; requests settle. |
| `rtt` | Both rings beside a running firmware, through a stop: bytes in order, and what was printed is shown. |
| `live_watch` | Two expressions through edits, stops, updates and deletions: objects of view and gdb balance, and lines catch up with the target. |
| `serial` | One port, whose tab has a label or not, whose device, agent, answers and listener fail; two ports with traffic; two sessions: a port is held if and only if a connected view shows it, bytes are the view's own, and a device that is back is reconnected. |
| `access` | Two calls with any two of nine configurations, an agent or ssh that dies: an endpoint leads to the agent of its token, nothing is orphaned, calls settle. |
| `adapter` | Three scenes.  gdb and the live-watch gdb on one port: one conversation each.  Variables over two stops: what is shown is true, objects hold.  Sessions that launch each other: they hold what they gather, share no port, and children follow their parents. |
| `references` | *Violated:* the eighth scope given out is taken for a variable (finding). |

A violated property states what a comment of the repository says; `findings` quotes it.
Violation runs of other disagreements gave way to components; they are listed below.

### Bounds

* `port`: ring of 2, reads of up to 2, queues of 1, 3 bytes, two clients of which one has a
  flaky peer.  The third byte wraps the ring and a full read replaces it; a client one chunk
  behind is dropped.  The theorems remove the bounds.  In the scene with the bridge two
  connections come, so that one waits while one is served.
* `registry`: two sessions and the operator; the device is opened twice, dies once; two
  client ids per handle.  A second handle is what makes stale references possible.
* `proxy_life`: one local client, one connection, one chunk of output, every mishap (user
  stop, link, server exit, server hang-up) at every moment.
* `agents`: two processes, one version apart, one session, one operator, one crash; the
  newer wants one address more.  The theorems are for any number.
* `debug`: three requests of seven kinds, four breakpoint numbers, one breakpoint a request,
  one fault.  Three let one be handled, one wait, and one end the session.
* `disasm`: two requests, so that one can time out under the other; four listings (empty,
  one instruction, mixed sizes, a hole) and five places to look from.
* `rtt`: rings of 3 that start at 2, chunks of 2, two bytes each way, one resume: both rings
  wrap, and two loops can overlap.
* `live_watch`: two expressions, two lines of which one is restored, one change, one stop,
  two edits, one session.
* `serial`: one path with two plugs and two sessions, and with it one death of the agent, or
  a late answer or a listener that is not bound and one closing by the user, or a label and
  one closing; two paths with two bytes and one closing; two paths with a byte each, two
  sessions and one closing.  A listener keeps one byte for a view to come, and one byte of a
  channel can be early.
* `access`: two calls, two hosts, two generations of an agent, one death.
* `adapter`: two local clients with a chunk each way and a server that hangs up; two stops,
  two frames, two requests a stop; three sessions in a chain or two strangers, six ports,
  two cores and one RTT channel, four machines, one end of each session by itself.
  Strangers are neither stopped nor exit.
* `Prompt` of the session's client: an agent that is going to answer does so within the timer of the
  request.  Otherwise a late answer could follow any timeout; what the code does then (the
  answer is ignored as unknown) is in `Receive`.

### Fairness

Weakly fair is what the program's own scheduling ensures: threads run, and joins return when
their thread has ended; an event loop delivers events and its timers fire; a process's exit
is noticed; gdb, in `debug` and `live_watch`, answers a command unless it dies (its own
timer covers the case that it does not).  Nothing is assumed of devices, firmware,
gdb-servers, local clients, users or the link: they may stop for ever.  In `access` a call
that waits for the user's choice (`proxy.ts:805`) or, outside the CLI, for the host of the
remote window (`proxy.ts:709`) may wait for ever, and `CallsSettle` says so.  `MonitorFails`,
`ReaperFails`, `AcceptFails`,
`PortConnectedLate`, `WriteFails`, deaths and faults may happen and need not.

`ProxyAgents` and `DebugSession` need a single condition on all steps of the program,
`Progress`: no behaviour takes infinitely many of them, so that one condition leaves none
enabled for ever.  The idle monitor of an agent is not in it (`--idle-timeout 0` disables
it), nor are connections, the end of sessions and crashes.

`CHECK_DEADLOCK FALSE` in every run: every system here comes to rest (a closed port, an
ended session), and bounded sources run dry.

## Proofs

Every theorem holds for all values of the constants that the `ASSUME` of its module allows;
sizes are naturals, and the rest are conditions that the code meets by construction (the
marker `None` is no process, "setup" and "stop" name no local client, a session was launched
by one parent at most).  None of the
properties is inductive except where said.  In each module `IInv` is the inductive
invariant, which TLC checked on the run's instance before it was proved; there is one lemma
or step for each action, and the temporal step is PTL at the end.

| Theorem | States |
|---|---|
| `PushType`, `PushKeepsTheLast` | A push keeps a ring well-formed, and the ring then reads back as the last `Cap` bytes of what it held followed by the slice. |
| `PortTypes`, `PortDeliversExactlyOnce`, `PortDetachFlushes` | `TypeOK`, `ExactlyOnce`, `DetachFlushes` of `PortSpec`. |
| `PortImplementsFeed` | Every behaviour of the port is one of `SerialFeed`. |
| `BridgeServesOneAtATime` | `BridgeServesOne`, in both scenes of its run. |
| `BridgeKeepsThePromises` | `ExactlyOnce`, `DetachFlushes` and the refinement of `SerialFeed`, of the port under the bridge. |
| `AgentsTypeCorrect`, `OneFrontDoorHolds`, `EndpointNamesHolderHolds`, `SessionsFinishHolds` | The three invariants and the action property of the agents. |
| `RegistryTypes`, `BookkeepingHolds` | Types (a reference count is never below zero) and `Bookkeeping` of the registry. |
| `StoppedServersAreGone`, `ConversationsStayApart` | `NoServerLeftBehind` and `OneConversation` of the session with its client. |
| `RequestsAreAnsweredOnce` | `AnsweredOnce` of the debug session. |
| `BreakpointsStayOnRecord`, `ViewComesTrue` | `BreakpointsOnRecord` and `ViewIsTrue` of the debug session. |
| `AnswersAreTheirOwn`, `RttIsFoundIfThere` | `AnswersOwnRequest` and `RttNotMissed` of the helper. |
| `RttBytesInOrder` | `BytesInOrder` of the built-in RTT. |
| `SearchHoldsWhatItGathers`, `PortsStayApart`, `ChildrenEndWithTheirParent` | `HoldsWhatItGathers`, `PortsKeptApart` and `ChildrenFollow` of the sessions of a machine. |
| `NoProcessIsOrphaned` | `NothingOrphaned` of the provisioning. |

**Port.**  `IInv` says three things more than `ExactlyOnce`.  `RingInv`: the ring holds
exactly the bytes before `pushed`, as many as fit, and the reader's buffer the ones after,
so that a seed is a run.  `StreamInv`: what a client was written, the chunk in flight and
its queue concatenate to one run, stated on positions so that each thread's step moves a
boundary without touching the bytes.  `ClientInv`: a client in the map whose drain runs is
owed everything pushed, and one whose drain has ended was written all it was owed unless its
peer broke.  The ring's part rests on `PushKeepsTheLast`.  The refinement maps `pushed`,
`joined` and `received` to themselves: a fan-out is `Publish`, an attach `Join`, a write
`Deliver`, all else stutters.

**Bridge.**  What the bridge does to the port is what the port allows any caller, or a cut of
sockets, which to the port is what a peer may do by itself (`BridgeUsesPort`); so the port's
invariant holds under the bridge, and the refinement with it.  That one connection is served
needs where the accept thread is: outside its check it has a connection of its own, because
the one that `stop()` queues to wake it comes after the flag is set and is discarded
(`BridgeInv`); and the port by itself lets nobody in (`PortLetsNobodyIn`).

**Agents.**  Who has taken the lock has it until it lets go itself (`HolderInv`); a process
listens on loopback only while it serves, and has been told to stop if it no longer does
(`DoorInv`); a connection with a thread belongs to a process that has yet to join it
(`ThreadInv`); what a thread is about to write to the file names the holder if the thread's
agent still has the lock (`FileInv`); a launcher that goes on has read a file (`SeenInv`).

**Registry.**  A session that allocates a channel does so on the handle it captured before
it let go of the lock (`HeldInv`), so that what it finds there must be known of every
handle: ids are given out in order (`IdsInv`), one handle at most is alive and not dead
(`MadeInv`), and while nothing went wrong another one has no client (`ClientsMatch`); routes
and channels match one to one (`RoutesMatch`), and references count sessions (`RefsMatch`, by
the library's theorems on cardinality).  A death leaves no book wrong because of `ToldInv`:
whoever holds the dead handle has an event to read, and while somebody has, the registered
handle is the dead one, so that the entry an event's handler removes is never a later one.
`OwnedInv`, which needs none of that, is what makes the last session out take the entry.

**Session and client.**  That the server is killed before endSession is answered is not the
order of two statements alone: no other answer may carry that request's number, and a
session that has lost its handle on the server, because the reaper reported it, must have
none left that runs.  `NumberInv`: request numbers are given out once, and every frame,
connection and pending request has one given out.  `StopInv`: the number of a pending stop
is carried by endSession only, no connection is owed an answer with it, and an answer with
it means that the loop and the server have ended.  `ServerInv`: a server that runs has a
handle in the session, the reaper has seen none that runs, and a dropped session has none.
The client's steps are one lemma (`ClientKeeps`: it sends data, or a request with a new
number), the agent's another (`SessionKeeps`: it answers what is owed, and ends before it
answers a stop); each action is shown to be a case of its side's.

**One conversation.**  The invariant is `Talk`, for as long as no local client has hung up or
been timed out and the local server is there (`Calm`; what ends the calm is one of the two,
so a calm step has a calm state before it).  Who has a stream and its connection have each
received a first part, and the rest is on its way (`Serves`), said of the positions of the
frames (`Carries`, `OnTheWay`) and of no filtered sequence, so that a step of either pipe
needs no induction.  That this survives a new stream needs four more facts.  At most
one local client waits for one, because a second is turned away while a socket has no id
(`LocalRequests`, `LocalSide`).  A request is in one place at a time: on the pipe, owed by a
connection, or answered (`PlaceInv`, `Asking`).  The stream that an answer names is nobody's
yet, and its connection has received nothing (`Fresh`).  And no chunk overtakes the answer
that tells whose it is (`Owners`), although a thread of the session writes it.  Two facts
about the launch carry these: a stream's port is announced once, before any connection
(`LaunchInv`, by the order of the four requests, `SetupInv`), and ids are given out in the
order of the connections (`IdsInv`).  Each step of the session is one of six kinds
(`SessionStep`); of those of the adapter most are `Idle`.

**Debug session.**  A handler that goes on after an await does not answer a second time
because of where it is: `CountInv` relates answers to the places (`Open`) of handlers that
have yet to answer.  `continue` may answer all that wait in the queue because none of it has
been started (`ComingInv`) and each waits once (`QueueInv`).

**Debug session at rest.**  That gdb and the adapter agree when nothing is under way needs
to know by how much they differ when something is.  `LiveInv` says it, for as long as
nothing has befallen the session that the code does not make up for (`Live`: no `lapse`,
gdb has not died, the end has not begun; none of these ever mends, and the
properties except them too).  At most one command is out, and it is in one of four places:
not read, obeyed, answered, heard (`TurnInv`).  gdb's breakpoints are the adapter's changed
by what the answer on its way says, and by nothing else (`BookInv`).  One request at a time
edits breakpoints, and the commands it has yet to hear of are those queued and in flight, so
that its last answer leaves none behind (`SetInv`, `EditInv`, by the library's theorems on
cardinality).  The last record about the target that is on its way is right, or the status
is if there is none (`StatusInv`).  The client is wrong only while a record or a command to
resume is under way, or a task has yet to resume the target or report it, or when the last
stop came in the one place where it is lost (`ViewInv`, `missed`), and
`continuing` outlasts no such command (`BusyInv`).

**Helper.**  What a request is answered with was on the pipe before, and the request in the
queues of the helper: `AskedInv` says what all of them carry.  RTT is given up on the
message that the symbols have been read, so the proof is about the order of two messages on
the pipe: until the adapter knows the address, the one about the block is ahead (`RttInv`).

**RTT.**  Both rings are read by how far a place is ahead of another (`Distance`), so that no
remainder is left in the invariant.  Of the ring from the target: what has not been taken
stands in it in its place, one loop polls, and the bytes shown and not yet given back are
those that this loop has read (`UpInv`).  Of the ring to the target: typed bytes are heard,
in the ring, in the parcel that one actor writes, or waiting, in this order (`Line`,
`DownRing`); the parcel fits, and the part already written is where it will be read
(`Parcel`), which is why a write in two pieces is not torn by the firmware's reads.  Each is
claimed while the lapses that its half of the property excepts have not happened.

**Sessions of a machine.**  No session looks at another's ports; each is told once, when it
is resolved.  The proof follows a port from the session that was granted it (`ScanInv`, what
it has gathered it need not avoid and lies below where it searches), by the event on its way
(`AnnouncedInv`) and the extension's list (`EnrolledInv`), to what a later session avoids
(`ApartInv`).

That a child ends with its parent is a matter of the parent's last words.  Its mail says that
it is about to end once it leaves, and no launch behind that (`LastWord`); who is in the tree
has come up (`TreeInv`).  So when the extension has read of the end (`Follows`), a managed
child ends too, or was launched and not in the tree, which is what `missed` records, or is
not launched and no word is left that would launch it.

**Provisioning.**  Agent, tunnel and reverse tunnel are kept alike, so one predicate of a kind
(`Kept`) serves for the three: what lives is in the slot, awaited or lost to a late exit, and
the slot is empty while one is awaited, so that a kill of the slot or of the awaited process
leaves none.  One attempt at a time is on its way (`OneBusy`, the history `mixed` excepts
the rest, as the property does), and one past its alias has closed the last tunnel
(`PathInv`).  The handler of a late exit empties the slot whoever is in it (`proxy.ts:312`,
`:448`): the process that was in it is a stray from then on (`KeptReaped`), which the property
excepts; nothing is assumed of when exits are handled.

### What stays with TLC

* Liveness under fairness, and so every temporal property of the runs: the provers have
  neither ENABLED nor fairness.
* `WindowsCentred`: the window is built with `SelectSeq` and sorted sequences, which are
  recursive definitions; what they compute for every input needs induction over data, whose
  theorems take an operator as a parameter that none of the provers can instantiate.
* `ObjectsBalance`, `ShownIsTrue` and `ObjectsHold` are about lists of variables that the
  code sorts or folds (`SetToSortSeq`, `FoldLeft`), and stay with TLC for the same reason.
* Not proved yet: the serial manager's invariants.

## Not modelled

See `components` in `PROJECT.json` for the reason in each case.

* No state or pure input and output: command lines of the server kinds
  (`servers/common.ts` and beside it), parsing of MI, ELF, DWARF and objdump output, SWO and
  RTT decoders, enumeration of serial devices, the manifest, the cockpit.
* Serial `reconfigure` with its fallbacks; several RTT channels; children in the live watch;
  several threads of a target; C++ and Rust layers of a type; disassembly by gdb.
* The CLI's driver, but for its mailbox; the front end, but for its sessions.
* A local gdb-server: `ProxyClient` has the one behind the agent, and only that a local one
  is spawned in its place.

## Where code and expectation part

One disagreement has a run, `references`; its comment is quoted under `findings`.  The
others were met while modelling and are recorded here, with the line where they show.  Where
a property would trip over one, a history excepts it.

*Serial.*  A client the port drops for being slow stays connected to the bridge, silent, for
ever (`bridge.rs:248`).  An error of `accept()` ends the bridge, and nobody is told
(`bridge.rs:160`).  A session may hold a re-opened port whose death it is not told of
(`serial.rs:706`), and after a force-close, closing a stale channel takes another session's
(`serial.rs:736`).  A tab that is found by its name after a
reconnect is not dialed (`serial-view.ts:38`), and shows nothing until the port is opened once
more.  A view told another listener while it dials has two sockets, and loses the later one
when the earlier closes (`serial-view.ts:174`).  An error or a close of a port between the
answer of its open and its view leaves a view without a port, or a port without a view
(`serial-manager.ts:797`).  A listener that could not be bound leaves the port held
(`serial-manager.ts:989`), and is not tried again.  `ViewsAreFed` excepts these as `undialed`,
`redialed`, `crossed` and `unbound`.

*Agent and client.*  The exit of the gdb-server may be announced before its last output
(`gdb_server.rs:656`).  The loss of the proxy under a running session is told to nobody
(`proxy-client.ts:400`).  Of two processes started after a kill, one may reuse the dead
agent (`run.rs:605`).  A rejected launch leaves its timers set, and a stop during the launch
leaves `startServer` pending until its five minutes are over.  A stop before the ports are
allocated takes the proxy client away (`server-session.ts:314`), and `startServer` goes on to
spawn a gdb-server on the adapter's own machine (`server-session.ts:145`, `SpawnsLocally`),
which nothing stops any more.  A reaper that cannot poll its process says nothing
(`gdb_server.rs:646`); `ExitIsReported` excepts it.

*Debug session.*  A stop that comes after `setBreakPointsRequest` resumed the target and before
its `finally` is reported to nobody, and no task makes up for it (`gdb-session.ts:347`;
`missed` in `ViewIsTrue`).  When gdb dies with a command in flight, a disconnect waits for ever
(`gdb-instance.ts:230`; `Orphaned` in `DisconnectEnds`).  `execute-command` without a
command, and the custom `disassemble`, are never answered.

*Variables.*  Thread numbers of 16 and more alias in a reference, although
`var-scopes.ts:21` speaks of 53 bits.  `setVariable` finds no item of the Global and Static
scopes (`ItemsCanBeSet` states the comment at `variables.ts:1573`; it does not hold).  After
a step registers are not read again, and a local of the function stepped into shows the
value of its namesake in the caller.  A structure shows the value of the first member that
changed.  `setExpression` leaves its object in gdb, and after the next continue a watch on
that expression is refused.

*Live watch.*  See the histories above: each is a way in which a line shows an old value, an
object is left in gdb, or the view is not updated any more.  The `finally` of a write clears
the flag of the request after it.

*RTT, helper.*  A ring whose read offset is 0 is taken to have one byte more room than it
has (`rtt-builtin.ts:280`).  Typing is let through once the block is found
(`rtt-builtin.ts:241`, `:434`), but the place of the descriptor counts on `numRdChannels`
(`:272`), which is 0 until the next answer (`:437`): bytes typed in between are written over
what the firmware prints, and its `WrOff` is moved.  A disassembly may return fewer instructions than it was asked
for.

*Provisioning.*  A failed local launch, with port -1, is cached for ever, against the comment
at `proxy.ts:875-877`; a cached endpoint outlives its tunnel (`proxy.ts:850`).  The exit
handler of an old tunnel or agent clears the slot of a newer one (`proxy.ts:312`, `:448`,
`extension.ts:174` of the proxy extension), and of two overlapping calls one leaves a tunnel
nobody knows.  A session that takes a tunnel in its slot does not learn that the agent behind it
was replaced, and gets the old one's token (`proxy.ts:347`).  A failed launch kills a reverse tunnel that is in use (`extension.ts:126`,
`:217`).  A launcher's `exit` may come before the `data` of its output
(`proxy-starter.ts:392`).  A fresh ssh tunnel does not set the host that the comment at
`proxy.ts:325` says it sets.  The CLI is not told of a rejected command, and may read its
results file half-written.

*Sessions of a machine.*  The wait for a detached launch that is not the last of its list
fails always, and the rest is never launched: `prevStartedPromise` is used in its own
initialiser (`extension.ts:584`).  The `overrides` of chained sessions are one object,
changed by each launch.  Resetting a managed grandchild loops for ever
(`extension.ts:180-195`).  `findChainedSession` goes by the name alone.  Children that are
due or not yet announced when their parent ends are left running.  A session that is
terminated says so only with the disconnect that follows.  In server mode one session clears
and releases the ports of the others of its process.

*Server launch.*  `assignPorts` gives every simple channel the first port, and advanced
decoders the number of their channel (`common.ts:574-595`).  Openocd's Tcl channel resolves
at most one queued command for each piece of output.

## Plan

1. Proofs: `OwnBytesInEveryScene` and `ViewsAreFedInEveryScene` of the serial manager.
2. `SerialPort` extended by `reconfigure`; a local gdb-server beside the one of the agent;
   the server controllers' port assignment as a pure function.
3. Pure algorithms against reference definitions: frame reassembly, address ranges.

Each run asks something no other does.  A new component comes with a scene or run of its
own.
