---------------------------- MODULE AgentSession ----------------------------
(***************************************************************************)
(* The dashboard session of the agent: run() in cmd/agent/main.go and the  *)
(* goroutines it shares global variables with.                             *)
(*                                                                         *)
(*   - the main loop dials the dashboard, reports the host, opens the two  *)
(*     streams and waits until the session's context is cancelled or a     *)
(*     configuration reload is signalled;                                  *)
(*   - receiveTasksDaemon and reportStateDaemon, one pair per session;     *)
(*     they may outlive their session, so several pairs coexist;           *)
(*   - the goroutines that run tasks, and the timer callback by which      *)
(*     handleApplyConfigTask replaces the configuration.                   *)
(*                                                                         *)
(* A statement of the code on a shared variable is one step.  A statement  *)
(* that reads and then writes geoipReported is two, because nothing        *)
(* synchronises those variables.  Clocks are abstracted: whatever is due   *)
(* after a period may be due at any time.  Timeouts may always fire.       *)
(***************************************************************************)
EXTENDS Naturals, FiniteSets, Functions

CONSTANTS
  Slots,        \* identities of sessions; one is reused when its goroutines ended
  MaxBoot,      \* bound: how often the dashboard process starts
  MaxConfig,    \* bound: how many configurations are ever in force
  MaxTasks,     \* bound: tasks of a session that run at the same time
  LockedConfigs \* configurations with disable_command_execute set

ASSUME BoundsAssumption ==
  /\ MaxBoot \in Nat \ {0}
  /\ MaxConfig \in Nat \ {0}
  /\ MaxTasks \in Nat
  /\ LockedConfigs \subseteq Nat

ASSUME SlotsAssumption == Slots # {}

VARIABLES
  \* the dashboard
  boot,          \* boot time of the dashboard process that is running
  geoKnown,      \* boot times of the processes that received a GeoIP report
  \* the main loop
  pc,            \* where run() is
  sess,          \* the session it works on
  sessCfg,       \* the configuration the session was dialled with
  receipt,       \* dashboardBootTimeReceipt
  keep,          \* the new value of geoipReported, read but not stored yet
  \* global variables
  initialized,
  geoipReported,
  prevBoot,      \* prevDashboardBootTime
  ipChanged,     \* monitor.GeoQueryIPChanged
  hostStatus,
  ipStatus,
  \* sessions
  ctx,           \* the worker context wCtx of each session
  recv,          \* receiveTasksDaemon of each session
  rep,           \* reportStateDaemon of each session: where it is
  force,         \* its forceUpdate argument of reportGeoIP
  reply,         \* the boot time in the reply it received, 0 for none
  keepHost,      \* like keep, for reportHost
  tasks,         \* task goroutines of each session that may still act on it
  admitted,      \* those of them past main.go:934, by the configuration it read
  \* configuration
  cfg,           \* agentConfig, numbered in the order of their application
  base,          \* the configuration tmpConfig was copied from
  carrier,       \* the configuration that its handler found unlocked; a history
                 \* variable for LockStopsLaterTasks, 1 when there is no timer
  timer,         \* the callback of time.AfterFunc in handleApplyConfigTask
  reloadStatus,
  senders        \* callbacks blocked in reloadSigChan <- struct{}{}

dashVars   == <<boot, geoKnown>>
mainVars   == <<pc, sess, sessCfg, receipt, keep>>
geoVars    == <<geoipReported, prevBoot>>
flagVars   == <<initialized, ipChanged, hostStatus, ipStatus>>
daemonVars == <<rep, force, reply, keepHost>>
taskVars   == <<tasks, admitted>>
reloadVars == <<cfg, base, carrier, timer, reloadStatus, senders>>
vars == <<dashVars, mainVars, geoVars, flagVars, ctx, recv, daemonVars, taskVars,
          reloadVars>>

Boots == 1..MaxBoot

MainStates == {"dial", "info", "store", "tasks", "state", "select", "sleep"}

RepStates == {"none", "top", "send", "host", "hostRpc", "hostReply", "hostStore",
              "ip", "fetch", "geoRpc", "geoReply", "geoStore", "sleep", "exit"}

\* reportStateDaemon is between the CompareAndSwap of hostStatus and its reset.
InHost(s) == rep[s] \in {"hostRpc", "hostReply", "hostStore"}

\* reportStateDaemon is between the CompareAndSwap of ipStatus and its reset.
InGeo(s) == rep[s] \in {"fetch", "geoRpc", "geoReply"}

\* Task goroutines of the session, on either side of the test.
Handlers(s) == FoldFunction(+, tasks[s], admitted[s])

\* Both daemons of the session have returned.
DaemonsGone(s) == recv[s] # "run" /\ rep[s] \in {"none", "exit"}

\* Nobody acts for the session any more.
Finished(s) ==
  /\ ctx[s] # "live"
  /\ DaemonsGone(s)
  /\ tasks[s] = 0
  /\ \A c \in 1..MaxConfig : admitted[s][c] = 0

BootsOK ==
  /\ boot \in Boots
  /\ geoKnown \subseteq Boots
  /\ receipt \in 0..MaxBoot
  /\ prevBoot \in 0..MaxBoot

FlagsOK ==
  /\ keep \in BOOLEAN
  /\ initialized \in BOOLEAN
  /\ geoipReported \in BOOLEAN
  /\ ipChanged \in BOOLEAN
  /\ hostStatus \in BOOLEAN
  /\ ipStatus \in BOOLEAN
  /\ reloadStatus \in BOOLEAN

SessionsOK ==
  /\ pc \in MainStates
  /\ sess \in Slots
  /\ ctx \in [Slots -> {"none", "live", "cancelled"}]
  /\ recv \in [Slots -> {"none", "run", "exit"}]
  /\ rep \in [Slots -> RepStates]
  /\ force \in [Slots -> BOOLEAN]
  /\ reply \in [Slots -> 0..MaxBoot]
  /\ keepHost \in [Slots -> BOOLEAN]
  /\ tasks \in [Slots -> Nat]
  /\ admitted \in [Slots -> [1..MaxConfig -> Nat]]

ConfigOK ==
  /\ sessCfg \in 1..MaxConfig
  /\ cfg \in 1..MaxConfig
  /\ base \in 1..MaxConfig
  /\ carrier \in 1..MaxConfig
  /\ timer \in {"idle", "armed", "applied"}
  /\ senders \in Nat

\* The type of every variable, in groups.
TypeOK == BootsOK /\ FlagsOK /\ SessionsOK /\ ConfigOK

Init ==
  /\ boot = 1
  /\ geoKnown = {}
  /\ pc = "dial"
  /\ sess \in Slots
  /\ sessCfg = 1
  /\ receipt = 0
  /\ keep = FALSE
  /\ initialized = FALSE
  /\ geoipReported = FALSE
  /\ prevBoot = 0
  /\ ipChanged = TRUE
  /\ hostStatus = FALSE
  /\ ipStatus = FALSE
  /\ ctx = [s \in Slots |-> "none"]
  /\ recv = [s \in Slots |-> "none"]
  /\ rep = [s \in Slots |-> "none"]
  /\ force = [s \in Slots |-> FALSE]
  /\ reply = [s \in Slots |-> 0]
  /\ keepHost = [s \in Slots |-> FALSE]
  /\ tasks = [s \in Slots |-> 0]
  /\ admitted = [s \in Slots |-> [c \in 1..MaxConfig |-> 0]]
  /\ cfg = 1
  /\ base = 1
  /\ carrier = 1
  /\ timer = "idle"
  /\ reloadStatus = FALSE
  /\ senders = 0

-----------------------------------------------------------------------------
(* The dashboard. *)

\* The dashboard process is replaced.  Unary calls of a client that is still
\* open reach the new process; streams break and are noticed at any later time.
DashboardRestart ==
  /\ boot < MaxBoot
  /\ boot' = boot + 1
  /\ UNCHANGED <<geoKnown, mainVars, geoVars, flagVars, ctx, recv, daemonVars,
                 taskVars, reloadVars>>

-----------------------------------------------------------------------------
(* The main loop of run(). *)

\* retry(): forget the registration, close the connection and start to sleep.
Retry ==
  /\ initialized' = FALSE
  /\ pc' = "sleep"

\* The delay of retry() is over.
MainWake ==
  /\ pc = "sleep"
  /\ pc' = "dial"
  /\ UNCHANGED <<dashVars, sess, sessCfg, receipt, keep, geoVars, flagVars, ctx,
                 recv, daemonVars, taskVars, reloadVars>>

\* grpc.NewClient: a session starts with the configuration of this moment.
MainDial(s) ==
  /\ pc = "dial"
  /\ Finished(s)
  /\ sess' = s
  /\ sessCfg' = cfg
  /\ pc' = "info"
  /\ ctx' = [ctx EXCEPT ![s] = "none"]
  /\ recv' = [recv EXCEPT ![s] = "none"]
  /\ rep' = [rep EXCEPT ![s] = "none"]
  /\ UNCHANGED <<dashVars, receipt, keep, geoVars, flagVars, force, reply,
                 keepHost, taskVars, reloadVars>>

\* grpc.NewClient rejects the server address.
MainDialFails ==
  /\ pc = "dial"
  /\ Retry
  /\ UNCHANGED <<dashVars, sess, sessCfg, receipt, keep, geoVars, ipChanged,
                 hostStatus, ipStatus, ctx, recv, daemonVars, taskVars, reloadVars>>

\* ReportSystemInfo2 is answered.  geoipReported survives only when the boot
\* time is the one seen last; the new value is read here and stored next.
MainInfo ==
  /\ pc = "info"
  /\ receipt' = boot
  /\ keep' = (geoipReported /\ prevBoot > 0 /\ boot = prevBoot)
  /\ pc' = "store"
  /\ UNCHANGED <<dashVars, sess, sessCfg, geoVars, flagVars, ctx, recv,
                 daemonVars, taskVars, reloadVars>>

\* ReportSystemInfo2 fails or takes longer than networkTimeOut.
MainInfoFails ==
  /\ pc = "info"
  /\ Retry
  /\ UNCHANGED <<dashVars, sess, sessCfg, receipt, keep, geoVars, ipChanged,
                 hostStatus, ipStatus, ctx, recv, daemonVars, taskVars, reloadVars>>

\* The assignments that follow, and the creation of wCtx.
MainStore ==
  /\ pc = "store"
  /\ geoipReported' = keep
  /\ prevBoot' = receipt
  /\ initialized' = TRUE
  /\ ctx' = [ctx EXCEPT ![sess] = "live"]
  /\ pc' = "tasks"
  /\ receipt' = 0
  /\ keep' = FALSE
  /\ UNCHANGED <<dashVars, sess, sessCfg, ipChanged, hostStatus, ipStatus, recv,
                 daemonVars, taskVars, reloadVars>>

\* RequestTask opens its stream and receiveTasksDaemon starts.
MainTasks ==
  /\ pc = "tasks"
  /\ recv' = [recv EXCEPT ![sess] = "run"]
  /\ pc' = "state"
  /\ UNCHANGED <<dashVars, sess, sessCfg, receipt, keep, geoVars, flagVars, ctx,
                 daemonVars, taskVars, reloadVars>>

\* ReportSystemState opens its stream and reportStateDaemon starts.
MainState ==
  /\ pc = "state"
  /\ rep' = [rep EXCEPT ![sess] = "top"]
  /\ pc' = "select"
  /\ UNCHANGED <<dashVars, sess, sessCfg, receipt, keep, geoVars, flagVars, ctx,
                 recv, force, reply, keepHost, taskVars, reloadVars>>

\* Mutant: the session is not cancelled when its second stream cannot be opened.
MainStreamFailsUncancelled ==
  /\ pc \in {"tasks", "state"}
  /\ Retry
  /\ UNCHANGED <<dashVars, sess, sessCfg, receipt, keep, geoVars, ipChanged,
                 hostStatus, ipStatus, ctx, recv, daemonVars, taskVars, reloadVars>>

\* One of the two streams cannot be opened: wCancel() and retry().
MainStreamFails ==
  /\ pc \in {"tasks", "state"}
  /\ ctx' = [ctx EXCEPT ![sess] = "cancelled"]
  /\ Retry
  /\ UNCHANGED <<dashVars, sess, sessCfg, receipt, keep, geoVars, ipChanged,
                 hostStatus, ipStatus, recv, daemonVars, taskVars, reloadVars>>

\* case <-reloadSigChan: takes the signal of one blocked callback.
MainReload ==
  /\ pc = "select"
  /\ senders > 0
  /\ senders' = senders - 1
  /\ ctx' = [ctx EXCEPT ![sess] = "cancelled"]
  /\ Retry
  /\ UNCHANGED <<dashVars, sess, sessCfg, receipt, keep, geoVars, ipChanged,
                 hostStatus, ipStatus, recv, daemonVars, taskVars, cfg, base, carrier, timer,
                 reloadStatus>>

\* case <-wCtx.Done()
MainWorkerExit ==
  /\ pc = "select"
  /\ ctx[sess] = "cancelled"
  /\ Retry
  /\ UNCHANGED <<dashVars, sess, sessCfg, receipt, keep, geoVars, ipChanged,
                 hostStatus, ipStatus, ctx, recv, daemonVars, taskVars, reloadVars>>

Main ==
  \/ MainWake
  \/ \E s \in Slots : MainDial(s)
  \/ MainDialFails
  \/ MainInfo
  \/ MainInfoFails
  \/ MainStore
  \/ MainTasks
  \/ MainState
  \/ MainStreamFails
  \/ MainReload
  \/ MainWorkerExit

-----------------------------------------------------------------------------
(* receiveTasksDaemon and the goroutines that run tasks. *)

\* A task that arrived on the stream, perhaps before the session was cancelled,
\* gets a goroutine.
RecvTask(s) ==
  /\ recv[s] = "run"
  /\ Handlers(s) < MaxTasks
  /\ tasks' = [tasks EXCEPT ![s] = @ + 1]
  /\ UNCHANGED <<dashVars, mainVars, geoVars, flagVars, ctx, recv, daemonVars,
                 admitted, reloadVars>>

\* Mutant: the daemon cancels the session that is current now.
RecvFailsElsewhere(s) ==
  /\ recv[s] = "run"
  /\ recv' = [recv EXCEPT ![s] = "exit"]
  /\ ctx' = [ctx EXCEPT ![sess] = "cancelled"]
  /\ UNCHANGED <<dashVars, mainVars, geoVars, flagVars, daemonVars, taskVars,
                 reloadVars>>

\* Mutant: the daemon returns and cancels nothing.
RecvFailsSilently(s) ==
  /\ recv[s] = "run"
  /\ recv' = [recv EXCEPT ![s] = "exit"]
  /\ UNCHANGED <<dashVars, mainVars, geoVars, flagVars, ctx, daemonVars, taskVars,
                 reloadVars>>

\* Recv fails, or no task comes within 30 seconds.
RecvFails(s) ==
  /\ recv[s] = "run"
  /\ recv' = [recv EXCEPT ![s] = "exit"]
  /\ ctx' = [ctx EXCEPT ![s] = "cancelled"]
  /\ UNCHANGED <<dashVars, mainVars, geoVars, flagVars, daemonVars, taskVars,
                 reloadVars>>

\* How the goroutine of a task ends: there is no result or it is sent, or
\* sending it fails and the session is cancelled.
EndTask(s) == ctx' = ctx \/ ctx' = [ctx EXCEPT ![s] = "cancelled"]

\* A task of no consequence for the session, or a configuration that is refused
\* because commands are disabled.  It ends, or it blocks for ever (main.go:899,
\* 1078, 1154, tasks.go:47) and does nothing to the session from then on.
RunTask(s) ==
  /\ tasks[s] > 0
  /\ tasks' = [tasks EXCEPT ![s] = @ - 1]
  /\ EndTask(s)
  /\ UNCHANGED <<dashVars, mainVars, geoVars, flagVars, recv, daemonVars, admitted,
                 reloadVars>>

\* Mutant: disable_command_execute is not looked at.
AdmitConfigUntested(s) ==
  /\ tasks[s] > 0
  /\ cfg < MaxConfig
  /\ tasks' = [tasks EXCEPT ![s] = @ - 1]
  /\ admitted' = [admitted EXCEPT ![s][cfg] = @ + 1]
  /\ UNCHANGED <<dashVars, mainVars, geoVars, flagVars, ctx, recv, daemonVars,
                 reloadVars>>

\* handleApplyConfigTask finds commands enabled, in the configuration of now.
AdmitConfig(s) ==
  /\ tasks[s] > 0
  /\ cfg < MaxConfig
  /\ cfg \notin LockedConfigs
  /\ tasks' = [tasks EXCEPT ![s] = @ - 1]
  /\ admitted' = [admitted EXCEPT ![s][cfg] = @ + 1]
  /\ UNCHANGED <<dashVars, mainVars, geoVars, flagVars, ctx, recv, daemonVars,
                 reloadVars>>

\* A reload is under way, or the task does not parse or validate: reloadStatus
\* is as before.
RefuseConfig(s) ==
  /\ \E c \in 1..MaxConfig :
       admitted[s][c] > 0 /\ admitted' = [admitted EXCEPT ![s][c] = @ - 1]
  /\ EndTask(s)
  /\ UNCHANGED <<dashVars, mainVars, geoVars, flagVars, recv, daemonVars, tasks,
                 reloadVars>>

\* handleApplyConfigTask takes reloadStatus, copies agentConfig, which may be a
\* later one than it tested, amends the copy and arms a timer of ten seconds.
ApplyConfig(s) ==
  /\ cfg < MaxConfig
  /\ ~reloadStatus
  /\ \E c \in 1..MaxConfig :
       /\ admitted[s][c] > 0
       /\ admitted' = [admitted EXCEPT ![s][c] = @ - 1]
       /\ carrier' = c
  /\ reloadStatus' = TRUE
  /\ base' = cfg
  /\ timer' = "armed"
  /\ EndTask(s)
  /\ UNCHANGED <<dashVars, mainVars, geoVars, flagVars, recv, daemonVars, tasks,
                 cfg, senders>>

\* Mutant: the next task is accepted before the client reconnects.
TimerApplyReleasing ==
  /\ timer = "armed"
  /\ timer' = "applied"
  /\ cfg' = cfg + 1
  /\ reloadStatus' = FALSE
  /\ UNCHANGED <<dashVars, mainVars, geoVars, flagVars, ctx, recv, daemonVars,
                 taskVars, base, carrier, senders>>

\* The callback assigns agentConfig and saves it.
TimerApply ==
  /\ timer = "armed"
  /\ timer' = "applied"
  /\ cfg' = cfg + 1
  /\ UNCHANGED <<dashVars, mainVars, geoVars, flagVars, ctx, recv, daemonVars,
                 taskVars, base, carrier, reloadStatus, senders>>

\* Mutant: the signal is dropped when nobody is waiting for it.
TimerFinishDropping ==
  /\ timer = "applied"
  /\ timer' = "idle"
  /\ geoipReported' = FALSE
  /\ reloadStatus' = FALSE
  /\ senders' = IF pc = "select" THEN senders + 1 ELSE senders
  /\ carrier' = 1
  /\ UNCHANGED <<dashVars, mainVars, prevBoot, flagVars, ctx, recv, daemonVars,
                 taskVars, cfg, base>>

\* The callback clears geoipReported and reloadStatus and blocks on the channel.
TimerFinish ==
  /\ timer = "applied"
  /\ timer' = "idle"
  /\ geoipReported' = FALSE
  /\ reloadStatus' = FALSE
  /\ senders' = senders + 1
  /\ carrier' = 1
  /\ UNCHANGED <<dashVars, mainVars, prevBoot, flagVars, ctx, recv, daemonVars,
                 taskVars, cfg, base>>

-----------------------------------------------------------------------------
(* reportStateDaemon and reportState. *)

\* The daemon moves on and changes nothing else.
RepGoto(s, from, to) ==
  /\ rep[s] = from
  /\ rep' = [rep EXCEPT ![s] = to]
  /\ UNCHANGED <<dashVars, mainVars, geoVars, flagVars, ctx, recv, force, reply,
                 keepHost, taskVars, reloadVars>>

\* reportState returns an error: the daemon cancels the session and returns.
RepExit(s, from) ==
  /\ rep[s] = from
  /\ rep' = [rep EXCEPT ![s] = "exit"]
  /\ ctx' = [ctx EXCEPT ![s] = "cancelled"]
  /\ UNCHANGED <<dashVars, mainVars, geoVars, flagVars, recv, force, reply,
                 keepHost, taskVars, reloadVars>>

\* The connection behind the global variable client is open.
ClientOpen == pc \notin {"sleep", "dial"}

\* Mutant: the stream's context is not tested.
RepTopUntested(s) == RepGoto(s, "top", "send")

\* The stream's context is tested, then the state is sent and acknowledged if
\* the agent is registered.
RepTop(s)       == ctx[s] = "live" /\ RepGoto(s, "top", "send")
RepTopExit(s)   == ctx[s] # "live" /\ RepExit(s, "top")
RepSend(s)      == (initialized => ctx[s] = "live") /\ RepGoto(s, "send", "host")
RepSendFails(s) == initialized /\ RepExit(s, "send")

\* The host information is not due, or somebody else is reporting it, or the
\* agent is not registered.
RepHostSkip(s) == RepGoto(s, "host", "ip")

\* Mutant: hostStatus is set without being tested.
RepHostUntested(s) ==
  /\ rep[s] = "host"
  /\ initialized
  /\ hostStatus' = TRUE
  /\ rep' = [rep EXCEPT ![s] = "hostRpc"]
  /\ UNCHANGED <<dashVars, mainVars, geoVars, initialized, ipChanged, ipStatus,
                 ctx, recv, force, reply, keepHost, taskVars, reloadVars>>

\* reportHost takes hostStatus.
RepHost(s) ==
  /\ rep[s] = "host"
  /\ ~hostStatus
  /\ initialized
  /\ hostStatus' = TRUE
  /\ rep' = [rep EXCEPT ![s] = "hostRpc"]
  /\ UNCHANGED <<dashVars, mainVars, geoVars, initialized, ipChanged, ipStatus,
                 ctx, recv, force, reply, keepHost, taskVars, reloadVars>>

\* The dashboard answers ReportSystemInfo2 with its boot time.
RepHostRpc(s) ==
  /\ rep[s] = "hostRpc"
  /\ ClientOpen
  /\ reply' = [reply EXCEPT ![s] = boot]
  /\ rep' = [rep EXCEPT ![s] = "hostReply"]
  /\ UNCHANGED <<dashVars, mainVars, geoVars, flagVars, ctx, recv, force,
                 keepHost, taskVars, reloadVars>>

\* ReportSystemInfo2 fails or times out, before or after the dashboard's answer.
RepHostRpcFails(s) ==
  /\ rep[s] \in {"hostRpc", "hostReply"}
  /\ hostStatus' = FALSE
  /\ reply' = [reply EXCEPT ![s] = 0]
  /\ rep' = [rep EXCEPT ![s] = "ip"]
  /\ UNCHANGED <<dashVars, mainVars, geoVars, initialized, ipChanged, ipStatus,
                 ctx, recv, force, keepHost, taskVars, reloadVars>>

\* The new value of geoipReported is computed here and stored next.
RepHostReply(s) ==
  /\ rep[s] = "hostReply"
  /\ keepHost' = [keepHost EXCEPT
       ![s] = geoipReported /\ prevBoot > 0 /\ reply[s] = prevBoot]
  /\ reply' = [reply EXCEPT ![s] = 0]
  /\ rep' = [rep EXCEPT ![s] = "hostStore"]
  /\ UNCHANGED <<dashVars, mainVars, geoVars, flagVars, ctx, recv, force, taskVars,
                 reloadVars>>

RepHostStore(s) ==
  /\ rep[s] = "hostStore"
  /\ geoipReported' = keepHost[s]
  /\ keepHost' = [keepHost EXCEPT ![s] = FALSE]
  /\ hostStatus' = FALSE
  /\ rep' = [rep EXCEPT ![s] = "ip"]
  /\ UNCHANGED <<dashVars, mainVars, prevBoot, initialized, ipChanged, ipStatus,
                 ctx, recv, force, reply, taskVars, reloadVars>>

\* The address is neither due nor missing, or somebody else is reporting it, or
\* the agent is not registered.
RepIpSkip(s) ==
  /\ geoipReported \/ ipStatus \/ ~initialized
  /\ RepGoto(s, "ip", "sleep")

\* reportGeoIP takes ipStatus; its argument forceUpdate is !geoipReported.
RepIp(s) ==
  /\ rep[s] = "ip"
  /\ ~ipStatus
  /\ initialized
  /\ ipStatus' = TRUE
  /\ force' = [force EXCEPT ![s] = ~geoipReported]
  /\ rep' = [rep EXCEPT ![s] = "fetch"]
  /\ UNCHANGED <<dashVars, mainVars, geoVars, initialized, ipChanged, hostStatus,
                 ctx, recv, reply, keepHost, taskVars, reloadVars>>

\* reportGeoIP returns: the deferred function gives ipStatus back.
LeaveGeoIP(s, to) ==
  /\ ipStatus' = FALSE
  /\ force' = [force EXCEPT ![s] = FALSE]
  /\ reply' = [reply EXCEPT ![s] = 0]
  /\ rep' = [rep EXCEPT ![s] = to]

\* FetchIP yields an address, new or not, and it is to be reported.
RepFetch(s) ==
  /\ rep[s] = "fetch"
  /\ ipChanged' \in {ipChanged, TRUE}
  /\ ipChanged' \/ force[s]
  /\ rep' = [rep EXCEPT ![s] = "geoRpc"]
  /\ UNCHANGED <<dashVars, mainVars, geoVars, initialized, hostStatus, ipStatus,
                 ctx, recv, force, reply, keepHost, taskVars, reloadVars>>

\* FetchIP yields the address reported last and forceUpdate is not set.
RepFetchSame(s) ==
  /\ rep[s] = "fetch"
  /\ ~ipChanged
  /\ ~force[s]
  /\ LeaveGeoIP(s, "geoStore")
  /\ UNCHANGED <<dashVars, mainVars, geoVars, initialized, ipChanged, hostStatus,
                 ctx, recv, keepHost, taskVars, reloadVars>>

\* Mutant: a failed report counts as a report.
RepGeoFailsAsTrue(s) ==
  /\ rep[s] \in {"fetch", "geoRpc", "geoReply"}
  /\ LeaveGeoIP(s, "geoStore")
  /\ UNCHANGED <<dashVars, mainVars, geoVars, initialized, ipChanged, hostStatus,
                 ctx, recv, keepHost, taskVars, reloadVars>>

\* FetchIP yields nothing, or ReportGeoIP fails or times out, before or after
\* the dashboard stored the address.
RepGeoFails(s) ==
  /\ rep[s] \in {"fetch", "geoRpc", "geoReply"}
  /\ LeaveGeoIP(s, "sleep")
  /\ UNCHANGED <<dashVars, mainVars, geoVars, initialized, ipChanged, hostStatus,
                 ctx, recv, keepHost, taskVars, reloadVars>>

\* The dashboard stores the address and answers with its boot time.
RepGeoRpc(s) ==
  /\ rep[s] = "geoRpc"
  /\ ClientOpen
  /\ geoKnown' = geoKnown \cup {boot}
  /\ reply' = [reply EXCEPT ![s] = boot]
  /\ rep' = [rep EXCEPT ![s] = "geoReply"]
  /\ UNCHANGED <<boot, mainVars, geoVars, flagVars, ctx, recv, force, keepHost,
                 taskVars, reloadVars>>

\* reportGeoIP takes the answer.
RepGeoReply(s) ==
  /\ rep[s] = "geoReply"
  /\ prevBoot' = reply[s]
  /\ ipChanged' = FALSE
  /\ LeaveGeoIP(s, "geoStore")
  /\ UNCHANGED <<dashVars, mainVars, geoipReported, initialized, hostStatus, ctx,
                 recv, keepHost, taskVars, reloadVars>>

\* reportState sets geoipReported after reportGeoIP returned true.
RepGeoStore(s) ==
  /\ rep[s] = "geoStore"
  /\ geoipReported' = TRUE
  /\ rep' = [rep EXCEPT ![s] = "sleep"]
  /\ UNCHANGED <<dashVars, mainVars, prevBoot, flagVars, ctx, recv, force, reply,
                 keepHost, taskVars, reloadVars>>

\* The sleep of report_delay seconds is over.
RepWake(s) == RepGoto(s, "sleep", "top")

Report(s) ==
  \/ RepTop(s)
  \/ RepTopExit(s)
  \/ RepSend(s)
  \/ RepSendFails(s)
  \/ RepHostSkip(s)
  \/ RepHost(s)
  \/ RepHostRpc(s)
  \/ RepHostRpcFails(s)
  \/ RepHostReply(s)
  \/ RepHostStore(s)
  \/ RepIpSkip(s)
  \/ RepIp(s)
  \/ RepFetch(s)
  \/ RepFetchSame(s)
  \/ RepGeoFails(s)
  \/ RepGeoRpc(s)
  \/ RepGeoReply(s)
  \/ RepGeoStore(s)
  \/ RepWake(s)

Session(s) ==
  \/ RecvTask(s)
  \/ RecvFails(s)
  \/ RunTask(s)
  \/ AdmitConfig(s)
  \/ RefuseConfig(s)
  \/ ApplyConfig(s)
  \/ Report(s)

Next ==
  \/ DashboardRestart
  \/ Main
  \/ TimerApply
  \/ TimerFinish
  \/ \E s \in Slots : Session(s)

Spec == Init /\ [][Next]_vars

-----------------------------------------------------------------------------
(* Fairness. *)

\* The main loop takes a step whenever one is possible: every call it makes
\* has a timeout and select is woken by either channel.
MainFairness == WF_vars(Main)

\* The daemons of a session go on as well: each wait of theirs is bounded by a
\* timeout.  Recv is only sure to fail when its context is cancelled.  A task does
\* something to its session again or never does: RunTask is both ends.
SessionFairness ==
  \A s \in Slots :
    /\ WF_vars(Report(s))
    /\ WF_vars(ctx[s] = "cancelled" /\ RecvFails(s))
    /\ WF_vars(RunTask(s))
    /\ WF_vars(RefuseConfig(s))

\* The timer of time.AfterFunc fires and its callback runs.
TimerFairness == WF_vars(TimerApply) /\ WF_vars(TimerFinish)

FairSpec == Spec /\ MainFairness /\ SessionFairness /\ TimerFairness

\* A dashboard that can be reached again and again: a call that the main loop
\* tries for ever does not fail for ever.
DashboardFairness ==
  /\ SF_vars(\E s \in Slots : MainDial(s))
  /\ SF_vars(MainInfo)
  /\ SF_vars(MainTasks)
  /\ SF_vars(MainState)

-----------------------------------------------------------------------------
(* Properties. *)

\* The main loop holds a connection it will wait on or give up.
InSession == pc \in {"info", "store", "tasks", "state", "select"}

\* No session is left behind alive: a worker context that is not cancelled is
\* the one the main loop is setting up or waiting for.  Every way out of the
\* loop body cancels it, or is taken because it is cancelled (main.go:363-396).
NoOrphanSession ==
  \A s \in Slots :
    ctx[s] = "live" => s = sess /\ pc \in {"tasks", "state", "select"}

\* A configuration that came into force after the session was dialled always has
\* a callback that will make the main loop reconnect: the signal cannot get lost
\* while the loop is not at its select (main.go:958-968, 388-396).
NoLostReload == InSession /\ sessCfg # cfg => senders > 0 \/ timer = "applied"

\* Between the acceptance of an ApplyConfig task and its application ten seconds
\* later no other one is accepted or applied, so the amended copy of agentConfig
\* that is stored was made from the configuration it replaces (main.go:938-959).
NoLostUpdate ==
  /\ reloadStatus <=> timer # "idle"
  /\ timer = "armed" => base = cfg

\* disable_command_execute stops every configuration task that arrives after it
\* came into force.  Not those that were let in before: such a handler may have
\* to wait for the CompareAndSwap until the lock is there, and then replaces it
\* without another look (main.go:934-936, 938, 958-960).
LockStopsLaterTasks ==
  [][cfg' # cfg /\ cfg \in LockedConfigs =>
       carrier < cfg /\ carrier \notin LockedConfigs]_vars

\* However many daemons of earlier sessions are still running, one at a time is
\* reporting the host and one the address, and the flag is set exactly while it
\* does (main.go:579-582, 597-600).
SingleFlight ==
  /\ \A s, t \in Slots : InHost(s) /\ InHost(t) => s = t
  /\ hostStatus <=> \E s \in Slots : InHost(s)
  /\ \A s, t \in Slots : InGeo(s) /\ InGeo(t) => s = t
  /\ ipStatus <=> \E s \in Slots : InGeo(s)

\* The agent never takes the address for reported when no dashboard process has
\* received it, although geoipReported is also set when FetchIP found no change
\* and nothing was sent (main.go:568-573, 611-613).
GeoEverReported == geoipReported => geoKnown # {}

\* The comment on geoipReported: it says whether the address was reported since
\* the dashboard restarted (main.go:59).  So while the main loop waits and the
\* process it registered with is still the one that runs, a set flag means that
\* this process has the address.
GeoReportedSinceRestart ==
  pc = "select" /\ prevBoot = boot /\ geoipReported => boot \in geoKnown

\* A goroutine of a task of the session has ended in this step.
TaskEnds(s) ==
  \/ tasks'[s] < tasks[s]
  \/ \E c \in 1..MaxConfig : admitted'[s][c] < admitted[s][c]

\* A goroutine cancels no session but its own: a session ends because one of its
\* own daemons or tasks failed or because the main loop gave it up, never because
\* of a goroutine left over from an earlier one (main.go:463-490, 533-544).
SessionIsolation ==
  [][\A s \in Slots :
       ctx[s] = "live" /\ ctx'[s] = "cancelled" =>
         \/ recv[s] = "run" /\ recv'[s] = "exit"
         \/ rep[s] # "exit" /\ rep'[s] = "exit"
         \/ TaskEnds(s)
         \/ s = sess /\ pc' = "sleep"]_vars

\* When a daemon of the current session has returned, the agent reconnects: it
\* does not wait in select with half of its daemons (main.go:388-396, 470-473, 537-541).
DeadDaemonLeadsToReconnect ==
  pc = "select" /\ (recv[sess] = "exit" \/ rep[sess] = "exit") ~> pc = "sleep"

\* Both daemons of a cancelled session come to an end, from the middle of a report
\* too.  Its tasks need not: those named at RunTask may stay for good
\* (main.go:463-490, 533-576).
DaemonsEnd ==
  \A s \in Slots : ctx[s] = "cancelled" ~> DaemonsGone(s)

\* A reconfiguration that was accepted comes into force, and the agent ends up in
\* a session dialled with it or with a later one, provided the dashboard can be
\* reached again and again (main.go:958-968, 388-397).
ConfigTakesEffect ==
  DashboardFairness =>
    \A c \in 1..MaxConfig :
      timer = "armed" /\ cfg + 1 = c ~> pc = "select" /\ sessCfg >= c
=============================================================================
