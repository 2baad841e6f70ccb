# idx-agent in TLA+

TLA+ specifications of `idx-agent` (Go): the agent process that keeps a session
with a dashboard, runs the dashboard's tasks and operates tunnels. They are
translated from the source under `src/`. TLC checks small instances of them and
TLAPS proves theorems for every instance. File names below without a directory
are `main.go` = `cmd/agent/main.go`, `manager.go` = `pkg/tunnelmgr/manager.go`, and
`runner.go`, `http.go`, `udp.go`, `fileshare.go`, `codec.go` in
`pkg/xtprocore/clientcore/`; `tasks.go` is `pkg/fm/tasks.go`, `pty.go` is `pkg/pty/pty.go`.

## 1. Inventory

| Component | State it keeps | Operations | What makes it hard | What makes it correct |
|---|---|---|---|---|
| Dashboard session (`main.go:286-628`, `933-968`) | `client`, `initialized`, `agentConfig`, `reloadStatus`, `reloadSigChan`, `prevDashboardBootTime`, `geoipReported`, `hostStatus`, `ipStatus`; a context and two daemons per session | dial, report host, open streams, wait, retry; receive and run tasks; report state, host and address; apply a configuration after 10 s | daemons outlive their session and share globals with those of the next; answers come late; a reload is signalled when nobody listens | one report at a time; no session left alive; no reload and no update lost; a lost daemon leads to a reconnect |
| Tunnel manager (`manager.go`) | `instances`, `lastVersion`, the status of each tunnel | `ApplyDesiredState`, `Snapshot`, `Close`, the callback `OnStatus` | a desired state fails half-way; cancelled runners go on and report | one live runner per tunnel, always reachable; unchanged tunnels untouched |
| Tunnel runner (`runner.go`, `http.go`, `fileshare.go`) | control connection, encoder, `done`, backoff, status, counters | connect, register, receive, heartbeat, proxy, HTTP request, close, back off, stop | goroutines of an earlier connection meet the fields of a closed client; a cancellation at any point | it stops when cancelled, if the server answers, and only then; one registration; a status that fits |
| UDP sessions (`udp.go`) | `udpSessions`, a socket, timer and `idleCount` per session, channel, ping | open, close, data both ways, idle wait, handshake, ping, close all | ids are used again while reader, timer callback and a datagram of the former session are at work | no socket or timer out of reach; everything ends after close |
| Tunnel control (`main.go:247-284`, `971-993`, `pkg/tunnelmgr/poller.go`) | none besides the manager and the configuration | poll, apply, push; apply for a task | two sources of desired states, nothing compares their versions; a state fails half-way; a restart forgets all | versions fit tunnels; the last state wins and is told |
| Command tasks (`main.go:866-908`, `pkg/processgroup`) | process group, timer, `endCh`, the result | start, wait, time out, dispose | the timer goroutine outlives a failed command; two sides close a channel, and two wait for one process; process ids are used again | a result that is true; nothing signalled after a success; what keeps either side is known |
| Self update (`main.go:296-316`, `631-770`, `pkg/fsnotifyx`) | stat file, executable | check, choose a repository, update, wait for another process, exit | goroutines of several processes race for a file; exit or crash with the file in place; a removal nobody sees; repositories that differ | one updater; no step back within a repository; all processes arrive at the last release once the repositories agree |
| File manager (`pkg/fm`) | the message at hand, the open file | list, download, upload | a download runs beside the next request and reads the message at hand; uploads and requests come on one stream | who waits for answers gets what was asked for; contents are no requests |
| Terminal and NAT streams (`main.go:1011-1237`, `pty.go`) | shell or connection, stream, keepalive | copy both ways, resize, keep alive, close | three goroutines end in any order, and each may wait for somebody else | all of them end, the shell too if its terminal can be closed |
| Task dispatch (`main.go:492-530`) | none | hand a task to its component | results of goroutines meet on one stream | - |
| Ping tasks (`main.go:772-832`) | none | one request each | - | - |
| Configuration (`model/config.go`, `commands/edit.go`) | the file, the identity | read, derive or generate a UUID, validate, save, edit, apply | a save in place; a failure or kill during it; two processes; deferred saves | the identity is stable, and a cause costs it one change |
| uTLS round tripper (`pkg/utls`, `main.go:833-864`) | the remembered protocol, parked connections with their timers | round trip, dial, park, claim, expire | requests share what is remembered, under a name that may not be the one looked up; the server changes between a handshake and its recording; a claim races the timer | few tries; which connections stay open is known, none is closed under its user |
| Monitor (`pkg/monitor/monitor.go`, `myip.go`) | counters, attempts, cached address | speed, sensors, fetch address | first sample, counter restart, attempts | no wrap; a sensor is given up as told |
| Metric collectors, utilities, file share handlers, protocol, service, logging | none of interest | - | - | - |

How they interact. `run` starts one pair of daemons per session; a task handler runs in
a goroutine of its own and calls the tunnel manager (`TunnelSync`, `TunnelReport`),
arms the configuration timer (`ApplyConfig`) or opens a stream of its own (terminal,
NAT, files). A component of a task shares nothing with those of others; the
configuration is read before any of them starts and saved by `ApplyConfig`. The manager
starts a goroutine per runner and is called back by it under
its own lock. A runner owns a client per attempt, whose goroutines share its encoder
and, for UDP tunnels, its session map. Apart from that the parts meet only in global
variables of `main.go`.

`PROJECT.json` lists each component with what is modelled of it, and each hazard of
the code with the properties that watch it.

## 2. Modules

| Module | Stands for | Runs |
|---|---|---|
| `AgentSession` (+ `MCAgentSession`, `AgentSessionProofs`) | the dashboard session | `agent_*` |
| `TunnelRegistry` | what the tunnel manager promises | by refinement |
| `TunnelManager` (+ `MC...`, `...Proofs`) | `tunnelmgr.Manager` and the goroutines it starts | `tunnel_manager` |
| `TunnelControl` (+ `MC...`, `...Proofs`) | the polling loop and `TunnelSync` tasks, on top of `TunnelRegistry` | `tunnel_control` |
| `TunnelAgent` (+ `...Proofs`) | `TunnelControl` with `TunnelManager` in the place of `TunnelRegistry` | none, proved only |
| `RunnerLife` | what the manager relies on in a runner | by refinement |
| `TunnelRunner` (+ `MC...`, `...Proofs`) | `clientcore.Runner.Run` and a client's goroutines | `tunnel_runner*` |
| `UdpSessions` (+ `MC...`, `...Proofs`) | the UDP side of a client | `udp_sessions*` |
| `SelfUpdate` (+ `...Proofs`) | `doSelfUpdate` in several processes | `agent_tasks` |
| `CommandTask` | `handleCommandTask` and `processgroup` | `agent_tasks` |
| `IOStreams` | the terminal, NAT and file manager streams | `agent_tasks` |
| `RoundTripper` | the uTLS round tripper under HTTP queries | `agent_tasks` |
| `Configuration` | the configuration file, its readers and writers | `agent_tasks` |
| `DoTask` (+ `MCDoTask`, `DoTaskProofs`) | the composition of the last five; the proofs are about four of them and about the composition | `agent_tasks` |

### AgentSession

`pc` is the place in `run`: `dial`, `info`, `store`, `tasks`, `state`, `select`, and
`sleep` between attempts. A session is a *slot* with a context `ctx`, the places of its
two daemons `recv` and `rep`, and a count of running `tasks`. A slot is used again only
when its goroutines have all ended; this is a modelling device, the code allocates.
When every slot is busy `run` cannot go on, so an instance needs as many slots as
overlapping sessions are to be seen.

* One step is one statement on shared variables. `geoipReported` is read and stored in
  separate steps (`keep`, `MainStore`, `RepGeoStore`), the daemons read the global
  client without a lock, and `FetchIP` may find a new address, the old one or none.
* The dashboard may restart (`DashboardRestart`) between any two steps; a call that was
  under way then is answered by the old or the new process, or fails.
* Clocks are abstracted: what is due after a period may be due at any time.
* `handleApplyConfigTask` is two steps: the test of `disable_command_execute`
  (`AdmitConfig`, `main.go:934`), and the compare-and-swap of `reloadStatus` with the rest of
  the handler up to `time.AfterFunc` (`ApplyConfig`), or with its early return
  (`RefuseConfig`). Handlers between the two are counted in `admitted`, by the configuration
  they found; a callback of an earlier task may run meanwhile. `carrier` remembers which
  configuration the handler found whose timer runs, and is not in the code. `TimerApply` is
  the callback up to the change of `agentConfig`, `TimerFinish` the rest of it, after which
  the goroutine is one of `senders` until `run` receives. `LockedConfigs` are those with
  `disable_command_execute`.
* Every other handler is counted in `tasks` and ends by `RunTask`, or never does anything to
  its session again: some handlers block for ever (section 4), and `RunTask` is both.

### TunnelManager, TunnelRegistry

A variant stands for a `TunnelSpec` without its id; `Rejected` variants cannot be started.
`ApplyAccepted` and `ApplyRefused` are `ApplyDesiredState` under `m.mu`, from its first
statement to either return: the order in which Go ranges over maps decides how much
of a refused state is carried out, so `ApplyRefused` takes any prefix of any order.
Runners are goroutines with `pc`, `cancelled`, `owner` and `variant`; their callback
`OnStatus` finds the tunnel by its id, as the code does. `status` records who wrote it,
which the code does not, so that a foreign status can be told. Of the states a runner
that is not stopped publishes, `active` stands for connecting and degraded too.

`TunnelRegistry` knows only which variant of each tunnel is in force. The refinement
mapping (`Registry` in `TunnelManager`) reads it off `instances` and `variant`.
`ImplementsRegistry` says more than `Registry!Spec`: since many desired states have the
same outcome, a step that did the wrong thing with one of them could be explained by
another. `SameRequests` therefore names the request: what the manager does with a
desired state is what the registry does with the *same* state.

### TunnelControl

The manager is an `INSTANCE` of `TunnelRegistry`, whose actions `Accept` and `Refuse` are
the two outcomes of `ApplyDesiredState`. That is sound because `TunnelManager` is proved
to implement it request by request and the manager keeps its lock throughout.
`wanted` is the number of the current desired state at its owner; the loop gets it
when its request is answered (`Fetched`), applies it later (`LoopApplies`), takes a
snapshot later still (`LoopTakesSnapshot`) and has it pushed after that (`Pushed`). A task
carries the state from when it was sent, is tested against `disable_command_execute`
(`SyncAdmitted`) and carried out in another step (`SyncApplies`). Of configuration tasks,
which `AgentSession` has in detail, two steps are left: one finds commands enabled
(`ConfigAdmitted`), and from then on (`reloading`) the configuration may be replaced at any
time (`Reconfigure`), a locked one too. A restart forgets the tunnels, as nothing stores
them, and starts with any configuration: the file may have been edited, or `Save` may not
have got to the end (`config.go:159`), so a lock does not have to survive it. A
state with a tunnel that has no id (`nameless`) is refused before anything
is done, so it is no step of the manager; the loop takes a snapshot all the same.

### TunnelAgent

The two put together: `ApplyDesiredState` of `TunnelManager` where the loop or a task calls
it, steps of runners at any time (`RunnersGoOn`), and the steps of `TunnelControl` that do
not call the manager (`ControlGoesOn`). `Restart` takes all runners away. The refinement
mapping to `TunnelControl` is `InForce` and `lastVersion`. `Close` has no caller in the agent
and is left out. `ImplementsControl` says that the two fit together; it is proved, for
constants that `TunnelControl` admits (`ConstantsFit`), and in no run.

### TunnelRunner, RunnerLife

`pc` is the place in `Run`; a client is one attempt's `runtimeClient` with its connection
`control`, its `enc` and its `done`; handlers are goroutines of `handleProxy` and
`handleHTTPRequest`, with `of` the client they belong to. The server may answer, send or
break the connection at any point. `closeControl` is one step, see the module. An
`Encode` through a nil encoder sets `crashed`: there is no recover on that path, so
nothing happens after it. `Collect` is Go's finalizer for the connection that a failed
registration leaves behind. A proxied connection may lead to the file share of the tunnel
(`RequestBegins`): `stop` waits in `Shutdown`, which has no time limit, until neither a
handler of `handleHTTPRequest` nor such a connection has a request there.

`RunnerLife` is the life of a runner as the manager sees it. `TunnelManager` uses
runners of this shape and `TunnelRunner` implements it, so that the two compose.

### UdpSessions

Everything under `udpMu` or `udpCtrlMu` is one step. `reader` is the goroutine of each
session, `calls` are callbacks of timers that have fired, `ctl` is `readUDPControl`. Each
remembers what it read before it lost the lock. `handleBackendTimeout` reads and writes
`idleCount` without the lock, so that is two steps. `stage` counts how far
`closeControl` has come (sessions, ping, channel). `GoQuiet` is the environment: from
then on neither side sends data.

### SelfUpdate

An updater is a goroutine that calls `doSelfUpdate`: the periodic check of `run`, or an
Upgrade task (`Forced`). Each test or call on the stat file is a step of its own, so that
`os.Stat` and `watcher.Add`, `os.Stat` and `O_EXCL`, timeout and `os.Remove` can have other
updaters between them. The code knows the file by its name only; `stat` also records
who created it and `stolen` whether the file of an updater at work was removed by
another, both for the properties. `RemoveStat` wakes those who watch the directory; a
woken waiter may still run into its timeout. `Down` takes all goroutines of the process
away wherever they are, without their deferred removals, as `os.Exit` does.
`Sources` are the repositories that configuration, country and chance choose from
(`main.go:701-749`). They publish on their own (`Release`), `LastRelease` asks any of them, and
what differs from the version at hand is installed, older or newer: so with two sources
the executable may go back and forth, and `origin` records where it came from. Which
sources are asked in an installation is a constant; the instance has two.
The repositories and the library that replaces the executable are the environment.

### CommandTask

`command` is the place of the handler, `watcher` that of the goroutine beside it. Both call
`Wait` of `os/exec`, the watcher within `Dispose`, and may be in it at once; so it is a
step per access to what they share: it looks whether `ProcessState` is set (`waited`),
reaps the shell, after which its process id is free, or comes too late for it, sets
`ProcessState`, to nil if it came too late, and receives the end of the copying of the
output, which comes when no process holds that any more (`members` that are `piped`), and
comes once (`copied`): if both look at the channel before either has received, one of them
waits for ever. `Dispose` finds a group only by the process id of the shell;
`taken` tells that the id belongs to somebody else by then and `hit` who signalled that
one, which the code cannot know. It sends SIGTERM and nothing stronger, and nothing says
that a process heeds it. A panic of the handler is recovered in
`receiveTasksDaemon` and loses the result; one of the watcher ends the agent.

### IOStreams

One stream, of which `use` tells the kind. The handler's loop, the keepalive, the pump
from the backend and each download are processes; `half` records `CloseSend`. Messages are
numbers: `latest` is that of `t.remoteData`, and a download remembers with which number it
was asked (`asked`) and which it read when it came to run (`opened`). `owed` is what the
dashboard has still to send of an upload, `left` what `upload` still waits for. A `polite`
dashboard makes a request when the last one was answered. `spoilt` tells that an upload
failed, from when on the two no longer agree. `CloseFails` is `Pty.Close` when the terminal
cannot be closed: it returns before it kills the shell, which lives on (`abandoned`) while
the handler gets through its other deferred calls.

### RoundTripper

Requests go through the places of `RoundTrip` and `dialOrGetTLSWithExpectedALPN`; from `dial`
to the end of the recording they hold `accessDialingConnection`. The handshake
(`Handshake`) negotiates what the server speaks at that moment, and `DialMatches` or
`DialDiffers` records it later; the server may change its protocol and other requests may
begin or read the memory in between. `memory` is `connectWithH1` of the host, `pending` is
`pendingConn`, `from` the number of switches of the server when a request began, or when
the last handshake was made if that was still to be recorded. `found` tells whether the
name in the URL is the one the memory is kept by: it is not for an IPv6 address, which
the transports pass on in brackets, nor for an international name, which they pass on in
its ASCII form. The three ways for `dialTLS` to fail differ in what they leave: nothing
(`DialFails`), or after a failed handshake (`HandshakeFails`) a connection that is open and
that nobody holds (`lost`), until Go's finalizer finds it (`Collect`). The transports of the
Go library hold connections (`by`), use them again and drop them when they like.

### Configuration

`Read` is one step up to its deferred `Save`: the three ways to a UUID are `ReadKeeps`,
`ReadDerives` and `ReadGenerates`. `Save` truncates (`SaveOpens`) and writes (`SaveWrites`);
an error (`SaveFails`) or a kill in between leaves any part of the text, which never has the
UUID, as that comes last of what matters here. Two processes do this at once, the agent and
`nezha-agent edit`; in the agent `ApplyConfig` changes and saves what it has, and does not
check it (`ApplyRemote`, `ApplyIdentity`). `used` is the UUID in `auth`, set at start only.
`cut` and `excused` are not in the code and say why another UUID may come: `cut` that the
file does not have what was saved last, `excused` which UUIDs were chosen or read from such a
file, or are held by the editor since before the last change. Both are taken back: a
complete `Save` ends `cut`, and when the agent gets another UUID no cause remains but what
the editor still holds. So a disturbed `Save` accounts for one change, not for all that
follow.

### DoTask

The components share no variable, so any interleaving of them is one of each. `DoTask`
therefore lets one of them run in each behaviour, which keeps the sum of their state
spaces instead of the product. `TaskSpec` has no fairness: each liveness property names what
it needs of its component as a hypothesis.

## 3. Runs

All take at most about four minutes with two workers. `CHECK_DEADLOCK FALSE` is set for
`TunnelRunner` and `UdpSessions` only: a cancelled runner, a crashed process and a closed
client have nothing left to do.

| Run | Checks | Shows |
|---|---|---|
| `agent_geo` | `SingleFlight`, `GeoEverReported` | with up to three sessions at work and a dashboard that restarts, reports exclude each other and the address is not taken for reported when nobody received it |
| `agent_reload` | `NoOrphanSession`, `NoLostReload`, `NoLostUpdate`, `LockStopsLaterTasks`, `SessionIsolation` | three configurations are applied by tasks of two sessions, the second locks the agent: none is lost or overwritten, and who replaces the lock was let in before it |
| `agent_live` | `DeadDaemonLeadsToReconnect`, `DaemonsEnd` | half a session is given up; both daemons of a cancelled session end, whatever its tasks do |
| `agent_config` | `ConfigTakesEffect` | an accepted configuration reaches a session |
| `agent_geo_stale` | `GeoReportedSinceRestart`, violated | finding 1 |
| `tunnel_manager` | `OneRunnerPerTunnel`, `RegisteredRunners`, `StoppedIsForeign`, `NoNeedlessRestart`, `ImplementsRegistry` | the manager keeps its promises over accepted and refused states while old runners linger |
| `tunnel_control` | `VersionsFit`, `LastStateWins`, `DashboardKnows` | states overtake each other, one of them fails half-way and one at once, the agent restarts: what is reported fits, and polling repairs the rest |
| `tunnel_runner` | `OneRegistration`, `StatusFits`, `GaugeCoversCopies`, `ImplementsRunnerLife`, `StopsWhenCancelled`, `KeepsTrying` | reconnects with goroutines of two connections at work; with a server that answers, a cancelled runner ends wherever it is, unless the file share is busy; one left alone tries again |
| `tunnel_runner_encoder` | `NilEncoderIsSurvived`, violated | finding 2 |
| `udp_sessions` | `SocketsAreReachable`, `TimersAreOfOpenSessions`, `PingEndsWithChannel`, `NothingSurvivesClose` | an id is used again and closed from every side; the UDP side ends with its client |
| `udp_sessions_idle` | `IdleSessionIsClosed`, violated | finding 3 |
| `agent_tasks` | `TasksTypeOK` | of the five components |
| | `ExclusiveUpdate`, `ForwardPerSource`, `UpdatesArrive` | the stat file excludes updaters unless one is given up; no repository takes the executable back to an older release of its own; once the repositories agree, all processes come to run their last release, in spite of stale files |
| | `ResultIsTrue`, `CommandEnds` | a command that is stopped is told as one, a success is followed by no signal, and three things are all that can keep the two goroutines after two hours |
| | `StreamsEnd`, `PoliteDashboardIsServed` | when the dashboard goes no goroutine and no backend is left of a stream, but for three exceptions that are named, a shell whose terminal cannot be closed among them; who waits for answers gets the right ones |
| | `RetriesAreExplained`, `ConnectionsAreAccounted` | requests cost each other no tries if the host is looked up as it is kept; parked connections neither leak nor close under a transport, and only a failed handshake leaves one open |
| | `IdentityIsStable` | restarts, edits and remote configurations keep the UUID; another one needs a choice or a `Save` that did not get to the end, and each of those accounts for one change |

`TypeOK` of the modules that have proofs, and `BackoffIsBounded`, are proved for every
instance (section 5) and are in no run. Nor is `TunnelAgent`: its parts are checked in
`tunnel_manager` and `tunnel_control`, and that they fit together is proved.

### Bounds

* `agent_geo`: three slots, so that two left-over daemons and the current one meet in the
  compare-and-swap; two boots, so that a late answer crosses a restart. No tasks.
* `agent_reload`: two slots, one task in each, so that tasks of an old and of the current
  session compete for `reloadStatus`; three configurations, so that a task which was let in
  under the first waits until the second, the locked one, is in force and then replaces
  it. One boot: the reload does not look at it.
* `agent_live`: two slots, so that the goroutines of a session that is over coexist with
  the session that follows; one task, which may last for ever; no reconfiguration
  (`MaxConfig` is 1, and locked), one boot: what reloads add is in `agent_reload` and
  `agent_config`.
* `agent_config`: two configurations, so that a second one is accepted while the first
  waits for a session; one slot, since a session that is over has no part in it.
* `tunnel_manager`: two ids, so that one tunnel is changed while the other must be left
  alone; three runners, so that a replaced one, its successor and another tunnel's
  coexist; one plain, one file share and one rejected variant; one version, since
  whether it is stored is seen when it takes the place of none.
* `tunnel_control`: four desired states, so that older ones can come back: the first
  leaves a tunnel out without replacing, the second cannot be carried out in full, the
  third not at all as a tunnel of it has no id, the last replaces all; one task identity,
  used again and again, so that tasks and the loop overtake each other (the proofs cover any
  number); one restart.
* `tunnel_runner`: two clients, the current and an earlier one; one handler, which
  belongs to either (the proofs cover any number); backoff 2 to 5, so that doubling has
  to be cut off (2, 4, 5); `MaxActive` 2 bounds the gauge. Clients are used again when
  all their goroutines have ended; while both are in use no attempt is made, which
  `KeepsTrying` allows for.
* `udp_sessions`: one id and two sessions, so that the id is used again while the
  goroutines of its former session are at work (the proofs cover any ids); one
  callback at a time; `backendIdleRetries` is 3 as in the code.
* `agent_tasks`, updates: a process with both kinds of updater and one with a check, so that a
  process ends under another updater and a waiter meets a foreign file; two repositories of
  which the second is ahead (`First`), so that the executable goes forth and back until the
  first has caught up with it; one fault (`MaxFaults`), which leaves a stale file or spoils a
  download (the proofs cover any number).
* `agent_tasks`, streams: three messages and uploads of up to two, so that a request
  follows a whole upload, or another request while a download is pending; two downloads,
  so that one reads the message of the other.
* `agent_tasks`, queries: two requests and two connections, so that one is parked, or lost
  by a failed handshake, while the other is dialled, and a parked one is claimed or expires
  under the next; one switch
  of the server, so that what is remembered is wrong in both directions (the proofs
  cover any numbers).
* `agent_tasks`, configuration: two random UUIDs (`MaxFresh`), the one that was generated
  first and one that takes its place. A command has no bounds.

Symmetry is used for identities in runs without liveness only.

### Fairness

* `MainFairness`, `SessionFairness`, `TimerFairness` (`AgentSession`): goroutines go on and
  timers fire. Each call has a timeout (`main.go:329-386`, `546-628`), so it succeeds or fails
  eventually; `Recv` has none and is only sure to fail once its context is cancelled.
  Nothing is assumed of tasks: `RunTask` is fair, but it stands for a handler that has ended
  as well as for one that never does anything to its session again. A configuration
  handler between its two steps is fair only where it refuses (`RefuseConfig`).
* `DashboardFairness` is a hypothesis of `ConfigTakesEffect` in `AgentSession`, and of
  `LastStateWins` and `DashboardKnows` in `TunnelControl`, and of nothing else: the calls
  that a loop repeats for ever succeed in the end, if they are possible again and again.
* `FairSpec` (`TunnelControl`): the loop goes on, since its HTTP client has a timeout of 30
  seconds (`main.go:251`), and a task ends. `Polling` is the other hypothesis of its two
  liveness properties: the address stays, and the loop was started with one.
* `RunFairness` (`TunnelRunner`): `Run` goes on where it does not wait for the server.
  `tls.Dial`, the registration and `Decode` have no deadline in the code. That the server
  answers, sends something or breaks the connection is `ServerFairness`, a hypothesis of
  `StopsWhenCancelled`: without it a cancelled runner waits as long as the server is silent.
* `GoroutineFairness` (`TunnelRunner`): a request to the local service ends, since it has a
  timeout. Of heartbeats, of what a handler sends to the server and of proxied connections
  nothing is assumed, nor of the requests they make to the file share, for which `Shutdown`
  waits without limit.
* `UpdateFairness` and `DownloadFairness` (`SelfUpdate`) are hypotheses of `UpdatesArrive`:
  checks are periodic, a call that was begun goes on (the wait has a timeout of three
  minutes, the HTTP client of the library is *assumed* to have one), the service manager
  restarts (`main.go:402`), and downloads succeed in the end: otherwise waiters that give up
  and processes that exit under each other can interrupt every download there is.
* `CommandFairness` (`CommandTask`) is a hypothesis of `CommandEnds`: both goroutines go on
  and two hours pass. Nothing is assumed of processes, signalled or not.
* `StreamFairness` (`IOStreams`) is a hypothesis of `StreamsEnd`: goroutines go
  on where they do not wait for the
  dashboard or the backend. A `Send` or `Recv` is sure to end only when the stream has
  ended, a `Write` to the backend only when that takes input, a `Read` only when it is gone
  or closed.
* `RoundTripper` and `Configuration` have safety properties only and no fairness.
* `FairSpec` (`UdpSessions`): timers fire and goroutines go on; a read is only sure to
  end once its socket is closed.

## 4. Findings

1. **`geoipReported` survives a restart of the dashboard** (`main.go:571`). The comment
   at `main.go:59` says the flag tells whether the address was reported since the dashboard
   restarted. A daemon of the former session that gets its answer late stores `true`
   after `run` has cleared the flag. Run `agent_geo_stale`.
2. **An answer through a cleared encoder ends the agent** (`http.go:55`, also
   `runner.go:297`, `310`, `319`). `closeControl` sets `c.enc = nil` (`runner.go:354`) while
   handlers and the heartbeat are at work; only `sendHTTPError` (`http.go:67`) looks first,
   and it too looks and uses in two steps. Run `tunnel_runner_encoder`.
3. **An idle UDP session is never closed** (`udp.go:205`). Each wait is begun by
   `startBackendWait`, which sets `idleCount` to 0, so the limit of `udp.go:224` is not
   reached. Run `udp_sessions_idle`.

Seen while modelling, part of the models and excepted by name in the properties, since no
line of the repository promises otherwise:

* A command that failed by itself is still watched: two hours later its result is written
  again and the group of its process id signalled, whoever has that id by then
  (`main.go:889-899`). A command that ends as its time is over may lose its result or end
  the agent, through the second `close(endCh)` (`main.go:893`, `902`).
* `disable_command_execute` is not final: a configuration task that passed the test at
  `main.go:934` before the lock came into force may win the compare-and-swap (`938`) after it,
  and ten seconds later its configuration replaces the locked one without another test
  (`960`). The lock may also get lost when `Save` fails or is cut off (`961`, `config.go:159`).
* A command that was signalled may keep its handler or the goroutine beside it for ever:
  SIGTERM is all that is sent (`process_group.go:52`); a process that outlives its shell and
  holds the output is not signalled, as `Dispose` does not find its group (`46`); and of two
  `Wait`s that are at it at once (`main.go:899`, `process_group.go:54`) one may wait for a
  result that the other has received.
* Handlers that never return, besides: a terminal or NAT handler that writes to a backend
  which takes no input (`main.go:1078`, `1154`), and `listDir` when the home directory cannot be
  read (`tasks.go:47`). Their goroutines outlive the session.
* When closing a terminal fails its shell is neither killed nor waited for (`pty.go:79-81`).
* A cancelled runner waits in `Shutdown(context.Background())` as long as a request over a
  proxied connection to its file share takes (`runner.go:180`, `fileshare.go:36-50`), and for
  a silent server without limit.
* While the repositories of a release differ, updates alternate: whatever repository is asked
  next replaces the executable, by an older version too, and ends the process
  (`main.go:701-759`). This is so for an agent in China, for which chance decides, and after
  the country or the configuration has changed.
* An impatient dashboard downloads the wrong file, and after a failed `Recv` of an upload
  a pending download reads through a nil message and ends the agent (`tasks.go:37`, `70`, `148`).
* What a failed upload has still to send is taken for requests (`tasks.go:129`, `140`, `158`).
* A server with an IPv6 address or an international name that speaks only HTTP/1 is never
  reached (`roundtripper.go:88` against `149` and `176`); a server that is silent after the TCP
  connection blocks all HTTPS queries (`146`, `219`); and one whose handshake fails leaves a
  connection that nobody closes (`219-222`).
* `Save` may lose the UUID when it is cut off (`config.go:159`); the editor saves over a file
  it could not read (`edit.go:19`); a remote configuration may take away what the next
  start requires (`config.go:183`), and its secret and UUID are not used before that
  (`main.go:287`).

## 5. Proofs

The theorems hold for any constants that satisfy the `ASSUME`s of their module:
bounds are numbers, `None` is no runner, variant or session, `Nobody` is no client or
updater, there is a slot, file shares can be started, the handlers of a runner are
finitely many, each desired state of `TunnelControl` is one, and `NoConn` is no connection.
Those about `TunnelAgent` name what it needs beyond the `ASSUME` of `TunnelManager`:
`ConstantsFit`, which says of its desired states what `TunnelControl` assumes of them.

| Theorem | Property | Inductive invariant |
|---|---|---|
| `TypeCorrect` | `TypeOK` | `TypeInv`: a configuration is armed only below `MaxConfig`, or applying it would leave the type |
| `UpdatesAreNotLost` | `NoLostUpdate` | `ReloadInv`, with `NoLostReload`: an armed configuration was copied from the one in force |
| `LocksStopLaterTasks` | `LockStopsLaterTasks` | `LockInv`: each handler that was let in, and the one whose timer runs, found a configuration without the lock, the one of now or an earlier one; so the one that replaces a locked configuration came before it |
| `ReloadsAreNotLost` | `NoLostReload` | together with the typing of `senders`; a session that is dialled reads the configuration in force |
| `SessionsAreNotOrphaned` | `NoOrphanSession` | itself |
| `SessionsAreIsolated` | `SessionIsolation` | `TypeInv`: each action that cancels is one of the session itself or of the main loop |
| `ReportsAreExclusive` | `SingleFlight` | with: a new slot has finished daemons, so taking it puts nobody into a report |
| `GeoIsReported` | `GeoEverReported` | with what a daemon or the loop has read but not stored (`keep`, `reply`): it too implies that the address was received |
| `ManagerTypeCorrect`, `RunnersAreReachable`, `RegisteredAreLive`, `StoppedStatusIsForeign` | `TypeOK`, `OneRunnerPerTunnel`, `RegisteredRunners`, `StoppedIsForeign` | `ManagerInv`, their conjunction: reachability of runners needs that the registered one is alive, and the reverse |
| `ManagerRefinesRegistry` | `ImplementsRegistry` | `ManagerInv`, then step by step: accepted to `Accept`, refused to `Refuse`, `Close` to `CloseAll`, runners stutter |
| `NoRunnerIsReplacedNeedlessly` | `NoNeedlessRestart` | `ManagerInv` |
| `ControlTypeCorrect`, `VersionsAlwaysFit` | `TypeOK`, `VersionsFit` | `ControlInv`: a state in hand is no newer than `wanted`; the snapshot in hand is explained too |
| `AgentImplementsControl` | `ImplementsControl` | `AgentInv`: `ManagerInv` and, through the mapping, `ControlInv`; then step by step, with what `ManagerRefinesRegistry` rests on where the manager is called |
| `AgentVersionsFit` | `VersionsFit` of `TunnelControl` | `AgentInv` |
| `AgentKeepsRunners`, `AgentSparesTunnels` | `OneRunnerPerTunnel`, `RegisteredRunners`; `StoppedIsForeign`, `NoNeedlessRestart` | `AgentInv`: a restart leaves the manager in an initial state |
| `RunnerTypeCorrect`, `RegistrationIsOne`, `StatusIsTold`, `DelaysAreBounded`, `GaugesCoverCopies` | `TypeOK`, `OneRegistration`, `StatusFits`, `BackoffIsBounded`, `GaugeCoversCopies` | `RunnerInv`, of `PlaceInv` (what holds at each place of `Run`) and `GaugeInv` (the gauge is at least the number of copies, hence never below zero) |
| `RunnerRefinesLife` | `ImplementsRunnerLife` | `RunnerInv`, then step by step |
| `UdpTypeCorrect`, `SocketsStayReachable`, `TimersStayOfOpenSessions`, `PingEnds` | `TypeOK`, `SocketsAreReachable`, `TimersAreOfOpenSessions`, `PingEndsWithChannel` | `UdpInv`, with `MapInv`: the map and the sockets determine each other |
| `UpdateTypeCorrect`, `UpdatesAreExclusive`, `UpdatesGoForward` | `TypeOK`, `ExclusiveUpdate`, `ForwardPerSource` | `UpdateInv`: while nothing was stolen, who is at work owns the file, and what it downloads is no older than the executable if that came from the same repository; what came from a repository was released there |
| `ResultsAreTrue` | `ResultIsTrue` | `CommandInv`: what each place of one goroutine says of the other, through `endCh` and the result; a success is only sent by a handler that closed `endCh`, after which the watcher cannot fire |
| `PoliteDashboardsAreServed` | `PoliteDashboardIsServed` | `StreamInv`: `UploadFits`, what the dashboard has still to send is what `upload` still waits for, as long as no upload failed and the stream is open; `DownloadsFit`, of a polite dashboard one download is pending at most, and it reads the message it was asked with, as nothing replaces that before the answer |
| `IdentitiesAreStable` | `IdentityIsStable` | `ConfigInv`: `DerivedIsName`, a derived UUID is that of the name; `ReadersHaveOne`, who has read has a UUID; `KnownIdentities`, each UUID in memory, and in a file that is not cut, is the one in use or one that is excused |
| `RetriesStayExplained` | `RetriesAreExplained` | `TriesInv`: the tries of a request, what it is going to lose (a stale transport, a wrong memory, a handshake that is not recorded yet) and its start never exceed the switches plus one; it needs that who dials is alone and that `memory` does not change meanwhile |
| `ConnectionsStayAccounted` | `ConnectionsAreAccounted` | `ConnInv`: of each connection alone (held, in the hands of who dials, lost, open with its timer, or closed), that an unclaimed one is parked under its own protocol, and that what is in hand speaks what the last handshake negotiated |
| `TasksAreComponents` | - | none: each step of `DoTask` is one of a component and leaves the variables of the others |
| `TasksTypeCorrect`, `TasksAreCorrect` | `TasksTypeOK`; all safety and action properties of `agent_tasks` | by `TasksAreComponents` from the invariants of the components |

In `TunnelControl` the argument for `VersionsFit` goes through `Explained`: each tunnel is
as the version says, or as a refused state left it. It is inductive because an accepted
state decides every tunnel it names, a refused one leaves the version alone, and a
snapshot is taken under one lock. It has to be carried along for the snapshot in the
hands of the loop as well, as that is what is pushed later.

The lemmas about `Reconcile` (what becomes of a tunnel that is absent, changed or
kept) are stated once in `TunnelManagerProofs` and used by both the invariance and the
refinement. `TunnelAgentProofs` rests on these modules alone: a call of the manager is
`Registry!Accept` or `Registry!Refuse` of the same state (`RequestsAgree`), which is what
`TunnelControl` says of it, and runners change neither of the two variables it looks at.
`Proved` there is `TunnelControl` once more, as an instance of the module with its proofs;
`SameModule` says that it makes no difference.

`StreamInv` and `ConfigInv` are about `IOStreams` and `Configuration` alone, as the other
invariants are about their components. `TasksAreComponents` says that a behaviour of
`DoTask` is one of each component, so that nothing has to be proved again for the
composition.

Model-checked only: everything under fairness (`DeadDaemonLeadsToReconnect`,
`DaemonsEnd`, `ConfigTakesEffect`, `LastStateWins`, `DashboardKnows`,
`StopsWhenCancelled`, `KeepsTrying`, `NothingSurvivesClose`, `UpdatesArrive`, `CommandEnds`,
`StreamsEnd`), which the prover does not handle, as it does not handle `ENABLED`,
induction over data or `RECURSIVE` operators (none is used). Every other property of a
passing run is proved. The three properties of the runs that expect a violation are
false of the code, and section 4 says why.

## 6. Not modelled

* Bytes: gRPC and JSON messages, UDP packets (`buildUDPMessage` writes lengths above 65535
  wrongly, which only a test of the format would show), answers of the file manager,
  encryption, log output.
* Metric collectors, GPU and disk parsers, service control, DNS set-up: input and output
  without state that outlives a call. Generated protocol code.
* `monitor.go`: the network speed is arithmetic on two samples, guarded by
  `SubUintChecked`; attempts per sensor are a counter below a limit. The address fetch is
  an answer of `AgentSession`'s environment.
* `pkg/util` and the handlers of the file share: functions of their arguments, which
  tests enumerate.
* Ping and `ReportConfig` tasks: one request or read, one answer.
* The Windows files of `processgroup` and `pty`: job objects and ConPTY in the place of
  process groups.
* Byte counters and `OnEvent` of a runner; `Runner.Close`, which nobody calls.
* Data races beyond those named above: a torn read of `agentConfig` or of the encoder
  interface is taken as the old or the new value. Two goroutines that send on a gRPC
  stream at once (keepalive, pump, downloads, results of tasks) are modelled up to the
  calls; what gRPC does then is not known from this repository.
* The snapshots that `TunnelSync` and `TunnelReport` tasks answer with, and the results of
  tasks in `AgentSession`.

## 7. Plan

What concurrency, failure and order can do to the agent is modelled; what section 6
leaves out has none of the three, or is outside the repository. The safety
and action properties of the runs are proved. What could be added is the same for
`RunnerLife`: that `TunnelManager` with `TunnelRunner` in the place of its runners still does
what `TunnelRegistry` promises.
