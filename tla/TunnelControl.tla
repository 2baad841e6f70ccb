--------------------------- MODULE TunnelControl ----------------------------
(***************************************************************************)
(* What drives the tunnel manager (cmd/agent/main.go): the control loop,   *)
(* which polls a remote desired state and pushes a snapshot back, and      *)
(* TunnelSync tasks, each in a goroutine of its own.  The manager is       *)
(* TunnelRegistry, which TunnelManager implements.                         *)
(*                                                                         *)
(* A desired state is taken from the dashboard at one moment and applied   *)
(* at another; nothing compares versions.  What runs under the manager's   *)
(* lock is one step.                                                       *)
(***************************************************************************)
EXTENDS Naturals

CONSTANTS
  Ids,         \* ids of tunnels
  Variants,    \* specifications of an enabled tunnel
  Rejected,    \* those that cannot be started
  Off,         \* a disabled tunnel
  None,        \* no tunnel, no version
  Latest,      \* how many desired states the dashboard comes to have
  State,       \* each of them: its tunnels, whether it replaces all others, and whether
               \* one more tunnel of it has no id
  Tasks,       \* identities of TunnelSync tasks
  MaxRestarts  \* how often the agent may be restarted

ASSUME BoundsAssumption == Latest \in Nat \ {0} /\ MaxRestarts \in Nat

ASSUME VariantsAssumption ==
  /\ Rejected \subseteq Variants
  /\ Off \notin Variants
  /\ None \notin Variants

DesiredStates == UNION {[D -> Variants \cup {Off}] : D \in SUBSET Ids}

Versions == 1..Latest

ASSUME StatesAssumption ==
  State \in [Versions -> [tunnels : DesiredStates, replace : BOOLEAN, nameless : BOOLEAN]]

VARIABLES
  wanted,   \* the dashboard's current desired state
  inForce,  \* the manager: the variant of each tunnel in force
  version,  \* the manager: lastVersion
  url,      \* whether agentConfig.TunnelControlURL is set
  locked,   \* agentConfig.DisableCommandExecute
  reloading, \* whether an ApplyConfig task found commands enabled and is under way
  loop,     \* runTunnelControlLoop: its place, the state it got, its snapshot
  tasks,    \* handleTunnelSyncTask: its place, its state
  told,     \* the snapshot the dashboard received last
  restarts

managerVars == <<inForce, version>>
configVars == <<url, locked, reloading>>
vars == <<wanted, managerVars, configVars, loop, tasks, told, restarts>>

Registry == INSTANCE TunnelRegistry WITH NoTunnel <- None

Snapshots == [version : Versions \cup {None}, inForce : [Ids -> Variants \cup {None}]]

Snapshot == [version |-> version, inForce |-> inForce]

Empty == [version |-> None, inForce |-> [id \in Ids |-> None]]

TypeOK ==
  /\ wanted \in Versions
  /\ inForce \in [Ids -> Variants \cup {None}]
  /\ version \in Versions \cup {None}
  /\ url \in BOOLEAN
  /\ locked \in BOOLEAN
  /\ reloading \in BOOLEAN
  /\ loop \in [at : {"start", "fetch", "asked", "got", "applied", "push", "wait", "ended"},
               v : Versions, shot : Snapshots]
  /\ tasks \in [Tasks -> [at : {"none", "sent", "admitted"}, v : Versions]]
  /\ told \in Snapshots
  /\ restarts \in 0..MaxRestarts

\* A state that is no longer needed is forgotten (1).
NoTask == [at |-> "none", v |-> 1]
Starting == [at |-> "start", v |-> 1, shot |-> Empty]

Init ==
  /\ wanted = 1
  /\ inForce = [id \in Ids |-> None]
  /\ version = None
  /\ url \in BOOLEAN
  /\ locked \in BOOLEAN
  /\ reloading = FALSE
  /\ loop = Starting
  /\ tasks = [t \in Tasks |-> NoTask]
  /\ told = Empty
  /\ restarts = 0

\* ApplyDesiredState returns nil or an error; a tunnel without an id is one at once.
Apply(v) ==
  IF State[v].nameless
  THEN UNCHANGED managerVars
  ELSE \/ Registry!Accept(State[v].tunnels, State[v].replace, v)
       \/ Registry!Refuse(State[v].tunnels, State[v].replace)

-----------------------------------------------------------------------------
(* The dashboard and the configuration. *)

Decide ==
  /\ wanted < Latest
  /\ wanted' = wanted + 1
  /\ UNCHANGED <<managerVars, configVars, loop, tasks, told, restarts>>

\* handleApplyConfigTask finds commands enabled.
ConfigAdmitted ==
  /\ ~locked
  /\ reloading' = TRUE
  /\ UNCHANGED <<wanted, managerVars, url, locked, loop, tasks, told, restarts>>

\* Ten seconds later it replaces agentConfig, without another test: a task that was
\* admitted before unlocks the agent again.  Others may still be under way.
Reconfigure ==
  /\ reloading
  /\ url' \in BOOLEAN
  /\ locked' \in BOOLEAN
  /\ reloading' \in BOOLEAN
  /\ UNCHANGED <<wanted, managerVars, loop, tasks, told, restarts>>

-----------------------------------------------------------------------------
(* runTunnelControlLoop. *)

LoopGoto(from, to) ==
  /\ loop.at = from
  /\ loop' = [loop EXCEPT !.at = to]

LoopUnchanged == UNCHANGED <<wanted, configVars, tasks, restarts>>

\* Without an address the loop ends at once.
LoopStarts ==
  /\ IF url THEN LoopGoto("start", "fetch") ELSE LoopGoto("start", "ended")
  /\ UNCHANGED <<managerVars, told>>
  /\ LoopUnchanged

\* FetchDesiredState gives up at once if there is no address any more.
Asks ==
  /\ IF url THEN LoopGoto("fetch", "asked") ELSE LoopGoto("fetch", "wait")
  /\ UNCHANGED <<managerVars, told>>
  /\ LoopUnchanged

\* It returns what the dashboard wanted when it answered.
Fetched ==
  /\ loop.at = "asked"
  /\ loop' = [loop EXCEPT !.at = "got", !.v = wanted]
  /\ UNCHANGED <<managerVars, told>>
  /\ LoopUnchanged

\* The request fails, or the answer is of no use.
FetchFails ==
  /\ LoopGoto("asked", "wait")
  /\ UNCHANGED <<managerVars, told>>
  /\ LoopUnchanged

\* Mutant: a version that is older than the one in force is not applied.
LoopAppliesNewer ==
  /\ loop.at = "got"
  /\ loop' = [loop EXCEPT !.at = "applied", !.v = 1]
  /\ IF version # None /\ loop.v <= version
     THEN UNCHANGED managerVars
     ELSE Apply(loop.v)
  /\ UNCHANGED told
  /\ LoopUnchanged

\* The loop goes on in the same way if the state is refused.
LoopApplies ==
  /\ loop.at = "got"
  /\ Apply(loop.v)
  /\ loop' = [loop EXCEPT !.at = "applied", !.v = 1]
  /\ UNCHANGED told
  /\ LoopUnchanged

LoopTakesSnapshot ==
  /\ loop.at = "applied"
  /\ loop' = [loop EXCEPT !.at = "push", !.shot = Snapshot]
  /\ UNCHANGED <<managerVars, told>>
  /\ LoopUnchanged

\* Mutant: the tunnels are those of the time of the push.
PushedLate ==
  /\ loop.at = "push"
  /\ told' = [loop.shot EXCEPT !.inForce = inForce]
  /\ loop' = [Starting EXCEPT !.at = "wait"]
  /\ UNCHANGED managerVars
  /\ LoopUnchanged

\* Mutant: a snapshot is only pushed if its version is new.
PushedOnce ==
  /\ loop.at = "push"
  /\ told' = IF loop.shot.version = told.version THEN told ELSE loop.shot
  /\ loop' = [Starting EXCEPT !.at = "wait"]
  /\ UNCHANGED managerVars
  /\ LoopUnchanged

\* PushSnapshot reaches the dashboard.
Pushed ==
  /\ loop.at = "push"
  /\ told' = loop.shot
  /\ loop' = [Starting EXCEPT !.at = "wait"]
  /\ UNCHANGED managerVars
  /\ LoopUnchanged

\* There is no address for it, or the request fails.
PushFails ==
  /\ loop.at = "push"
  /\ loop' = [Starting EXCEPT !.at = "wait"]
  /\ UNCHANGED <<managerVars, told>>
  /\ LoopUnchanged

Tick ==
  /\ LoopGoto("wait", "fetch")
  /\ UNCHANGED <<managerVars, told>>
  /\ LoopUnchanged

Loop ==
  \/ LoopStarts
  \/ Asks
  \/ Fetched
  \/ FetchFails
  \/ LoopApplies
  \/ LoopTakesSnapshot
  \/ Pushed
  \/ PushFails
  \/ Tick

-----------------------------------------------------------------------------
(* handleTunnelSyncTask. *)

SyncUnchanged == UNCHANGED <<wanted, configVars, loop, told, restarts>>

\* The dashboard sends its current state.
SyncSent(t) ==
  /\ tasks[t].at = "none"
  /\ tasks' = [tasks EXCEPT ![t] = [at |-> "sent", v |-> wanted]]
  /\ UNCHANGED managerVars
  /\ SyncUnchanged

\* The agent may be locked between this and the next step.
SyncAdmitted(t) ==
  /\ tasks[t].at = "sent"
  /\ ~locked
  /\ tasks' = [tasks EXCEPT ![t].at = "admitted"]
  /\ UNCHANGED managerVars
  /\ SyncUnchanged

\* The state is applied; nothing depends on the answer, an error or a snapshot.
SyncApplies(t) ==
  /\ tasks[t].at = "admitted"
  /\ Apply(tasks[t].v)
  /\ tasks' = [tasks EXCEPT ![t] = NoTask]
  /\ SyncUnchanged

SyncRefuses(t) ==
  /\ tasks[t].at = "sent"
  /\ locked
  /\ tasks' = [tasks EXCEPT ![t] = NoTask]
  /\ UNCHANGED managerVars
  /\ SyncUnchanged

\* The task is lost with the session.
SyncLost(t) ==
  /\ tasks[t].at = "sent"
  /\ tasks' = [tasks EXCEPT ![t] = NoTask]
  /\ UNCHANGED managerVars
  /\ SyncUnchanged

Sync(t) ==
  \/ SyncAdmitted(t)
  \/ SyncApplies(t)
  \/ SyncRefuses(t)
  \/ SyncLost(t)

-----------------------------------------------------------------------------

\* The process ends and is started again: its runners are gone, and it reads a file
\* that may have been edited or not been saved in full (config.go:159).
Restart ==
  /\ restarts < MaxRestarts
  /\ restarts' = restarts + 1
  /\ inForce' = [id \in Ids |-> None]
  /\ version' = None
  /\ loop' = Starting
  /\ tasks' = [t \in Tasks |-> NoTask]
  /\ url' \in BOOLEAN
  /\ locked' \in BOOLEAN
  /\ reloading' = FALSE
  /\ UNCHANGED <<wanted, told>>

Next ==
  \/ Decide
  \/ ConfigAdmitted
  \/ Reconfigure
  \/ Loop
  \/ \E t \in Tasks : SyncSent(t) \/ Sync(t)
  \/ Restart

Spec == Init /\ [][Next]_vars

\* Goroutines go on, and requests and tasks end.
FairSpec ==
  /\ Spec
  /\ WF_vars(Loop)
  /\ \A t \in Tasks : WF_vars(Sync(t))

-----------------------------------------------------------------------------
(* Properties. *)

\* What a desired state has in mind for a tunnel it names, or leaves out.
Want(v, id) ==
  LET tunnels == State[v].tunnels IN
  IF id \in DOMAIN tunnels /\ tunnels[id] \in Variants \ Rejected THEN tunnels[id] ELSE None

Names(v, id) == State[v].replace \/ id \in DOMAIN State[v].tunnels

Unacceptable(v) == \E id \in DOMAIN State[v].tunnels : State[v].tunnels[id] \in Rejected

\* The tunnels are what the version says, but for those that a refused state has
\* left as it wanted them.
Explained(shot) ==
  shot.version # None =>
    \A id \in Ids :
      \/ ~Names(shot.version, id)
      \/ shot.inForce[id] = Want(shot.version, id)
      \/ \E u \in 1..wanted : Unacceptable(u) /\ shot.inForce[id] = Want(u, id)

\* Whatever the order in which the control loop and the tasks apply and report
\* states, the version the manager has and the one the dashboard is told fit the
\* tunnels (main.go:256-271, 981-985, manager.go:80, 84-96).
VersionsFit == Explained(Snapshot) /\ Explained(told)

\* Polls and pushes get through, if they are tried again and again.
DashboardFairness == SF_vars(Fetched) /\ SF_vars(Pushed)

\* The dashboard has made up its mind, the address to poll stays, and the loop was
\* started with one.
Polling == <>[](wanted = Latest /\ url /\ loop.at # "ended")

\* Then the last state is in force in the end and stays so, although nothing keeps a
\* late task from bringing back an older one for a while (main.go:248, 256-282).
LastStateWins ==
  DashboardFairness /\ Polling
    => <>[](version = Latest /\ \A id \in Ids : Names(Latest, id) => inForce[id] = Want(Latest, id))

\* And the dashboard is told what is in force (main.go:265-271).
DashboardKnows ==
  DashboardFairness /\ Polling => <>[](told = Snapshot)
=============================================================================
