--------------------------- MODULE TunnelManager ----------------------------
(***************************************************************************)
(* tunnelmgr.Manager (pkg/tunnelmgr/manager.go): the map of tunnel         *)
(* instances, the goroutines of their runners, and the callback by which a *)
(* runner writes the status of "its" tunnel.                               *)
(*                                                                         *)
(* m.mu makes ApplyDesiredState, Close and OnStatus atomic; each is one    *)
(* step.  Cancelling a runner does not stop it: it goes on until it looks  *)
(* at its context, and until then its callback still finds a tunnel of its *)
(* id, perhaps run by somebody else.  Run() itself is TunnelRunner; here a *)
(* runner publishes states and finally stops or gives up.                  *)
(***************************************************************************)
EXTENDS FiniteSets, Functions

CONSTANTS
  Ids,        \* ids of tunnels
  Variants,   \* model.TunnelSpec of an enabled tunnel, without its id
  Rejected,   \* variants that buildRunnerConfig or NewRunner refuses
  FileShares, \* variants of the file protocol: their runner may give up at once
  Off,        \* model.TunnelSpec of a disabled tunnel
  Versions,   \* values of TunnelDesiredState.Version
  Runners,    \* identities of runners; one is reused when nothing refers to it
  None        \* no runner, no tunnel, no version

ASSUME VariantsAssumption ==
  /\ Rejected \subseteq Variants
  /\ FileShares \subseteq Variants \ Rejected
  /\ Off \notin Variants
  /\ None \notin Variants

ASSUME RunnersAssumption == None \notin Runners

VARIABLES
  instances,   \* m.instances: the runner of each tunnel
  lastVersion, \* m.lastVersion
  status,      \* instance.status: its state and the runner that wrote it
  pc,          \* where the goroutine of each runner is
  cancelled,   \* whether inst.cancel was called
  owner,       \* the id that the runner was started for
  variant      \* the specification that the runner was started with

managerVars == <<instances, lastVersion, status>>
runnerVars == <<pc, cancelled, owner, variant>>
vars == <<managerVars, runnerVars>>

\* The states a runner publishes while it runs; "active" stands for connecting and
\* degraded as well, which nothing here tells from it.
RunStates == {"active", "error"}

NoStatus == [state |-> "none", by |-> None]

Statuses == [state : RunStates \cup {"none", "pending", "stopped"},
             by : Runners \cup {None}]

TypeOK ==
  /\ instances \in [Ids -> Runners \cup {None}]
  /\ lastVersion \in Versions \cup {None}
  /\ status \in [Ids -> Statuses]
  /\ pc \in [Runners -> {"new", "run", "done"}]
  /\ cancelled \in [Runners -> BOOLEAN]
  /\ owner \in [Runners -> Ids]
  /\ variant \in [Runners -> Variants]

Init ==
  /\ instances = [id \in Ids |-> None]
  /\ lastVersion = None
  /\ status = [id \in Ids |-> NoStatus]
  /\ pc = [r \in Runners |-> "done"]
  /\ cancelled = [r \in Runners |-> TRUE]
  /\ owner \in [Runners -> Ids]
  /\ variant \in [Runners -> Variants]

-----------------------------------------------------------------------------
(* ApplyDesiredState and Close. *)

\* A state with a tunnel that has no id is refused before anything is done: no step.
DesiredStates == UNION {[D -> Variants \cup {Off}] : D \in SUBSET Ids}

Registered(id) == instances[id] # None

\* Nothing refers to the runner any more.
Unused(r) == pc[r] = "done" /\ cancelled[r]

\* Mutant: file shares are compared by their pointers.
UnchangedByPointer(desired, id) ==
  /\ Registered(id)
  /\ variant[instances[id]] = desired[id]
  /\ desired[id] \notin FileShares

\* The tunnel runs with exactly this specification (specsEqual).
Unchanged(desired, id) ==
  Registered(id) /\ variant[instances[id]] = desired[id]

\* startLocked is called and succeeds.
Startable(desired, id) ==
  desired[id] \in Variants \ Rejected /\ ~Unchanged(desired, id)

\* startLocked is called and fails.
Failing(desired) == {id \in DOMAIN desired : desired[id] \in Rejected}

\* Mutant: instances are deleted and not cancelled.
ReconcileUncancelled(dropped, started, desired) ==
  \E fresh \in Injection(started, {r \in Runners : Unused(r)}) :
    LET isNew(r) == \E id \in started : fresh[id] = r
        idOf(r)  == CHOOSE id \in started : fresh[id] = r
    IN
    /\ instances' = [id \in Ids |->
         IF id \in started THEN fresh[id]
         ELSE IF id \in dropped THEN None ELSE instances[id]]
    /\ pc' = [r \in Runners |-> IF isNew(r) THEN "new" ELSE pc[r]]
    /\ cancelled' = [r \in Runners |-> IF isNew(r) THEN FALSE ELSE cancelled[r]]
    /\ owner' = [r \in Runners |-> IF isNew(r) THEN idOf(r) ELSE owner[r]]
    /\ variant' = [r \in Runners |->
         IF isNew(r) THEN desired[idOf(r)] ELSE variant[r]]
    /\ UNCHANGED status

\* Mutant: instances that are not replaced are cancelled and not deleted.
ReconcileUndeleted(dropped, started, desired) ==
  \E fresh \in Injection(started, {r \in Runners : Unused(r)}) :
    LET isNew(r) == \E id \in started : fresh[id] = r
        idOf(r)  == CHOOSE id \in started : fresh[id] = r
    IN
    /\ instances' = [id \in Ids |->
         IF id \in started THEN fresh[id] ELSE instances[id]]
    /\ pc' = [r \in Runners |-> IF isNew(r) THEN "new" ELSE pc[r]]
    /\ cancelled' = [r \in Runners |->
         IF isNew(r) THEN FALSE
         ELSE cancelled[r] \/ \E id \in dropped : instances[id] = r]
    /\ owner' = [r \in Runners |-> IF isNew(r) THEN idOf(r) ELSE owner[r]]
    /\ variant' = [r \in Runners |->
         IF isNew(r) THEN desired[idOf(r)] ELSE variant[r]]
    /\ UNCHANGED status

\* The effect of the loops on the ids in "reached": the instances of dropped ids
\* are cancelled and deleted, and a runner starts for each of "started".
Reconcile(dropped, started, desired) ==
  \E fresh \in Injection(started, {r \in Runners : Unused(r)}) :
    LET isNew(r) == \E id \in started : fresh[id] = r
        idOf(r)  == CHOOSE id \in started : fresh[id] = r
    IN
    /\ instances' = [id \in Ids |->
         IF id \in started THEN fresh[id]
         ELSE IF id \in dropped THEN None ELSE instances[id]]
    /\ status' = [id \in Ids |->
         IF id \in started THEN [state |-> "pending", by |-> None]
         ELSE IF id \in dropped THEN NoStatus ELSE status[id]]
    /\ pc' = [r \in Runners |-> IF isNew(r) THEN "new" ELSE pc[r]]
    /\ cancelled' = [r \in Runners |->
         IF isNew(r) THEN FALSE
         ELSE cancelled[r] \/ \E id \in dropped : instances[id] = r]
    /\ owner' = [r \in Runners |-> IF isNew(r) THEN idOf(r) ELSE owner[r]]
    /\ variant' = [r \in Runners |->
         IF isNew(r) THEN desired[idOf(r)] ELSE variant[r]]

\* Mutant: Replace is not looked at.
AbsentAlways(desired, replace) == Ids \ DOMAIN desired

\* state.Replace: the tunnels that the state does not name.
Absent(desired, replace) ==
  IF replace THEN Ids \ DOMAIN desired ELSE {}

\* The named tunnels that do not stay as they are.
Changed(desired, reached) == {id \in reached : ~Unchanged(desired, id)}

ToStart(desired, reached) == {id \in reached : Startable(desired, id)}

\* No tunnel fails to start.
ApplyAccepted(desired, replace, v) ==
  /\ Failing(desired) = {}
  /\ lastVersion' = v
  /\ Reconcile(Absent(desired, replace) \cup Changed(desired, DOMAIN desired),
               ToStart(desired, DOMAIN desired), desired)

\* The loop over the map, in whatever order, has reached some tunnels when it
\* comes to one that fails to start; that one was already cancelled.
ApplyRefused(desired, replace) ==
  /\ UNCHANGED lastVersion
  /\ \E failed \in Failing(desired), reached \in SUBSET (DOMAIN desired \ Failing(desired)) :
       Reconcile(Absent(desired, replace) \cup Changed(desired, reached \cup {failed}),
                 ToStart(desired, reached), desired)

Close ==
  /\ Reconcile(Ids, {}, << >>)
  /\ UNCHANGED lastVersion

-----------------------------------------------------------------------------
(* The runners. *)

\* OnStatus: whoever runs the tunnel now gets the status, if there is one.
OnStatus(r, state) ==
  status' = IF Registered(owner[r])
            THEN [status EXCEPT ![owner[r]] = [state |-> state, by |-> r]]
            ELSE status

\* Run() begins, and the file share is served if it is one.
RunnerBegins(r) ==
  /\ pc[r] = "new"
  /\ pc' = [pc EXCEPT ![r] = "run"]
  /\ UNCHANGED <<managerVars, cancelled, owner, variant>>

\* The path to share is no directory: Run() returns and is not tried again.
RunnerGivesUp(r) ==
  /\ pc[r] = "new"
  /\ variant[r] \in FileShares
  /\ OnStatus(r, "error")
  /\ pc' = [pc EXCEPT ![r] = "done"]
  /\ UNCHANGED <<instances, lastVersion, cancelled, owner, variant>>

RunnerPublishes(r) ==
  /\ pc[r] = "run"
  /\ \E state \in RunStates : OnStatus(r, state)
  /\ UNCHANGED <<instances, lastVersion, runnerVars>>

\* Mutant: a runner stops of its own accord.
RunnerStopsUnasked(r) ==
  /\ pc[r] = "run"
  /\ OnStatus(r, "stopped")
  /\ pc' = [pc EXCEPT ![r] = "done"]
  /\ UNCHANGED <<instances, lastVersion, cancelled, owner, variant>>

\* Run() has seen that its context is cancelled.
RunnerStops(r) ==
  /\ pc[r] = "run"
  /\ cancelled[r]
  /\ OnStatus(r, "stopped")
  /\ pc' = [pc EXCEPT ![r] = "done"]
  /\ UNCHANGED <<instances, lastVersion, cancelled, owner, variant>>

Runner(r) ==
  \/ RunnerBegins(r)
  \/ RunnerGivesUp(r)
  \/ RunnerPublishes(r)
  \/ RunnerStops(r)

Manager ==
  \/ \E desired \in DesiredStates, replace \in BOOLEAN :
       \/ \E v \in Versions : ApplyAccepted(desired, replace, v)
       \/ ApplyRefused(desired, replace)
  \/ Close

Next ==
  \/ Manager
  \/ \E r \in Runners : Runner(r)

Spec == Init /\ [][Next]_vars

-----------------------------------------------------------------------------
(* Properties. *)

\* A runner that was not cancelled is the one the map holds for its tunnel.  So a
\* tunnel has one such runner at most and none goes on without being reachable for
\* a later cancellation, whatever part of a desired state was carried out
\* (manager.go:46-78, 115-147).
OneRunnerPerTunnel == \A r \in Runners : ~cancelled[r] => instances[owner[r]] = r

\* The runner the map holds was started for that tunnel, with a specification that
\* can be started, is not cancelled, and has not returned unless it gave up
\* (manager.go:46-78, runner.go:63-76).
RegisteredRunners ==
  \A id \in Ids : Registered(id) =>
    LET r == instances[id] IN
    /\ owner[r] = id
    /\ ~cancelled[r]
    /\ variant[r] \notin Rejected
    /\ pc[r] = "done" => variant[r] \in FileShares

\* OnStatus finds the tunnel by its id, so a runner that was replaced may still
\* report.  A tunnel in the map that is shown as stopped is always such a case:
\* the runner in charge of it is another one (manager.go:129-137, runner.go:175).
StoppedIsForeign ==
  \A id \in Ids :
    Registered(id) /\ status[id].state = "stopped" => status[id].by # instances[id]

\* The specification of each tunnel in the map.
InForce ==
  [id \in Ids |-> IF Registered(id) THEN variant[instances[id]] ELSE None]

\* A tunnel is restarted only when its specification changes: its connections
\* survive every desired state that does not concern it, also one that is refused
\* half-way (manager.go:55-78, 203-222).
NoNeedlessRestart ==
  [][\A id \in Ids :
       Registered(id) /\ instances'[id] # instances[id] =>
         InForce'[id] # InForce[id]]_vars

Registry == INSTANCE TunnelRegistry
              WITH inForce <- InForce, version <- lastVersion, NoTunnel <- None

\* What the manager does with a desired state is what the registry does with the
\* same one: Registry!Spec alone could explain it by another.
SameRequests ==
  /\ \A desired \in DesiredStates, replace \in BOOLEAN :
       /\ \A v \in Versions :
            ApplyAccepted(desired, replace, v) => Registry!Accept(desired, replace, v)
       /\ ApplyRefused(desired, replace) => Registry!Refuse(desired, replace)
  /\ Close => Registry!CloseAll

\* The manager does what TunnelRegistry promises, request by request
\* (manager.go:34-105).
ImplementsRegistry == Registry!Spec /\ [][SameRequests]_vars
=============================================================================
