------------------------- MODULE TunnelControlProofs -------------------------
(* Proofs about TunnelControl for any tunnels, desired states, tasks and     *)
(* numbers of restarts.                                                      *)
EXTENDS TunnelControl, TLAPS

-----------------------------------------------------------------------------
(* The inductive invariant. *)

\* A state that is under way was wanted at some time.
WasWanted ==
  /\ loop.v <= wanted
  /\ \A t \in Tasks : tasks[t].v <= wanted

ControlInv ==
  /\ TypeOK
  /\ WasWanted
  /\ VersionsFit
  /\ Explained(loop.shot)

-----------------------------------------------------------------------------
(* What the registry does. *)

\* Every tunnel stays, or becomes what the state has in mind for it.
LEMMA ApplyEffect ==
  ASSUME TypeOK, NEW v \in Versions, Apply(v), NEW id \in Ids
  PROVE  /\ inForce'[id] = inForce[id] \/ inForce'[id] = Want(v, id)
         /\ \/ version' = v /\ (Names(v, id) => inForce'[id] = Want(v, id))
            \/ version' = version /\ Unacceptable(v)
            \/ version' = version /\ inForce' = inForce
<1> DEFINE tunnels == State[v].tunnels
           replace == State[v].replace
<1>1. CASE Registry!Accept(tunnels, replace, v)
  <2>1. inForce'[id] = Registry!Wanted(tunnels, replace, id) /\ version' = v
    BY <1>1 DEF Registry!Accept
  <2>2. QED
    BY <2>1 DEF Registry!Wanted, Want, Names
<1>2. CASE Registry!Refuse(tunnels, replace)
  <2>1. /\ \/ inForce'[id] = Registry!Wanted(tunnels, replace, id)
           \/ inForce'[id] = inForce[id]
        /\ version' = version
        /\ Unacceptable(v)
    BY <1>2 DEF Registry!Refuse, Unacceptable
  <2>2. QED
    BY <2>1 DEF Registry!Wanted, Want
<1>3. CASE UNCHANGED managerVars
  BY <1>3 DEF managerVars
<1>4. QED
  BY <1>1, <1>2, <1>3 DEF Apply

LEMMA ApplyTyped ==
  ASSUME TypeOK, NEW v \in Versions, Apply(v)
  PROVE  inForce' \in [Ids -> Variants \cup {None}] /\ version' \in Versions \cup {None}
<1> DEFINE tunnels == State[v].tunnels
           replace == State[v].replace
<1>1. CASE Registry!Accept(tunnels, replace, v)
  <2>1. \A id \in Ids : Registry!Wanted(tunnels, replace, id) \in Variants \cup {None}
    BY DEF Registry!Wanted, TypeOK
  <2>2. QED
    BY <1>1, <2>1 DEF Registry!Accept
<1>2. CASE Registry!Refuse(tunnels, replace)
  BY <1>2 DEF Registry!Refuse, TypeOK
<1>3. CASE UNCHANGED managerVars
  BY <1>3 DEF managerVars, TypeOK
<1>4. QED
  BY <1>1, <1>2, <1>3 DEF Apply

LEMMA SnapshotTyped ==
  ASSUME TypeOK
  PROVE  Snapshot \in Snapshots
BY DEF TypeOK, Snapshot, Snapshots

LEMMA EmptyExplained == Empty \in Snapshots /\ Explained(Empty)
BY DEF Empty, Snapshots, Explained

\* What is explained stays so: the dashboard only comes to want more states.
LEMMA StaysExplained ==
  ASSUME TypeOK, NEW shot, Explained(shot), wanted' \in Nat, wanted <= wanted'
  PROVE  shot.version # None =>
           \A id \in Ids :
             \/ ~Names(shot.version, id)
             \/ shot.inForce[id] = Want(shot.version, id)
             \/ \E u \in 1..wanted' : Unacceptable(u) /\ shot.inForce[id] = Want(u, id)
<1>1. 1..wanted \subseteq 1..wanted'
  BY DEF TypeOK, Versions
<1>2. QED
  BY <1>1 DEF Explained

\* After a state was applied the snapshot is explained again.
LEMMA ApplyExplained ==
  ASSUME TypeOK, Explained(Snapshot), NEW v \in Versions, v <= wanted, Apply(v),
         wanted' = wanted
  PROVE  Explained(Snapshot)'
<1>1. v \in 1..wanted
  BY DEF TypeOK, Versions
<1> SUFFICES ASSUME version' # None, NEW id \in Ids
             PROVE  \/ ~Names(version', id)
                    \/ inForce'[id] = Want(version', id)
                    \/ \E u \in 1..wanted : Unacceptable(u) /\ inForce'[id] = Want(u, id)
  BY DEF Explained, Snapshot
<1>2. CASE version' = v /\ (Names(v, id) => inForce'[id] = Want(v, id))
  BY <1>2
<1>3. CASE version' = version /\ (Unacceptable(v) \/ inForce' = inForce)
  <2>1. \/ ~Names(version, id)
        \/ inForce[id] = Want(version, id)
        \/ \E u \in 1..wanted : Unacceptable(u) /\ inForce[id] = Want(u, id)
    BY <1>3 DEF Explained, Snapshot
  <2>2. QED
    BY <1>1, <1>3, <2>1, ApplyEffect
<1>4. QED
  BY <1>2, <1>3, ApplyEffect

-----------------------------------------------------------------------------

LEMMA ControlInvInit == Init => ControlInv
<1> SUFFICES ASSUME Init PROVE ControlInv
  OBVIOUS
<1>1. 1 \in Versions
  BY BoundsAssumption DEF Versions
<1>2. TypeOK
  <2>1. url \in BOOLEAN /\ locked \in BOOLEAN /\ reloading \in BOOLEAN
    BY DEF Init
  <2>2. QED
    BY <1>1, <2>1, BoundsAssumption, EmptyExplained DEF Init, TypeOK, Starting, NoTask
<1>3. WasWanted
  BY DEF Init, WasWanted, Starting, NoTask
<1>4. Explained(Snapshot) /\ Explained(told) /\ Explained(loop.shot)
  BY EmptyExplained DEF Init, Snapshot, Empty, Starting
<1>5. QED
  BY <1>2, <1>3, <1>4 DEF ControlInv, VersionsFit

\* The manager and the numbers of states.
LEMMA ManagerNext ==
  ASSUME ControlInv, [Next]_vars
  PROVE  /\ inForce' \in [Ids -> Variants \cup {None}]
         /\ version' \in Versions \cup {None}
         /\ Explained(Snapshot)'
         /\ wanted' \in Versions /\ wanted <= wanted'
<1> DEFINE Goal == /\ inForce' \in [Ids -> Variants \cup {None}]
                   /\ version' \in Versions \cup {None}
                   /\ Explained(Snapshot)'
                   /\ wanted' \in Versions /\ wanted <= wanted'
<1> USE DEF ControlInv
<1>0. wanted \in Versions /\ wanted <= wanted
  BY DEF TypeOK, Versions
<1>1. ASSUME NEW v \in Versions, v <= wanted, Apply(v), wanted' = wanted PROVE Goal
  BY <1>0, <1>1, ApplyTyped, ApplyExplained DEF VersionsFit
<1>2. CASE UNCHANGED <<managerVars, wanted>>
  BY <1>0, <1>2 DEF managerVars, TypeOK, VersionsFit, Explained, Snapshot
<1>3. CASE Decide
  <2>1. wanted' \in Versions /\ wanted <= wanted'
    BY <1>0, <1>3, BoundsAssumption DEF Decide, Versions
  <2>2. UNCHANGED managerVars
    BY <1>3 DEF Decide
  <2>3. Explained(Snapshot)'
    <3>1. /\ wanted \in Nat /\ wanted' \in Nat /\ 1..wanted \subseteq 1..wanted'
          /\ inForce' = inForce /\ version' = version
      BY <1>0, <2>1, <2>2 DEF Versions, managerVars
    <3> SUFFICES ASSUME version' # None, NEW id \in Ids
                 PROVE  \/ ~Names(version', id)
                        \/ inForce'[id] = Want(version', id)
                        \/ \E u \in 1..wanted' : Unacceptable(u) /\ inForce'[id] = Want(u, id)
      BY DEF Explained, Snapshot
    <3>2. \/ ~Names(version, id)
          \/ inForce[id] = Want(version, id)
          \/ \E u \in 1..wanted : Unacceptable(u) /\ inForce[id] = Want(u, id)
      BY <3>1 DEF VersionsFit, Explained, Snapshot
    <3>3. QED
      BY <3>1, <3>2
  <2>4. QED
    BY <2>1, <2>2, <2>3 DEF managerVars, TypeOK
<1>4. CASE Restart
  BY <1>0, <1>4 DEF Restart, Explained, Snapshot
<1>5. CASE LoopApplies
  <2>1. loop.v \in Versions /\ loop.v <= wanted
    BY DEF TypeOK, WasWanted
  <2>2. QED
    BY <1>1, <1>5, <2>1 DEF LoopApplies, LoopUnchanged
<1>6. ASSUME NEW t \in Tasks, SyncApplies(t) PROVE Goal
  <2>1. tasks[t].v \in Versions /\ tasks[t].v <= wanted
    BY DEF TypeOK, WasWanted
  <2>2. QED
    BY <1>1, <1>6, <2>1 DEF SyncApplies, SyncUnchanged
<1>7. QED
  BY <1>2, <1>3, <1>4, <1>5, <1>6
     DEF Next, ConfigAdmitted, Reconfigure, Loop, LoopStarts, Asks, Fetched, FetchFails, LoopTakesSnapshot, Pushed,
         PushFails, Tick, LoopUnchanged, Sync, SyncSent, SyncAdmitted, SyncRefuses, SyncLost,
         SyncUnchanged, vars

Places == {"start", "fetch", "asked", "got", "applied", "push", "wait", "ended"}
LoopRecords == [at : Places, v : Versions, shot : Snapshots]
TaskRecords == [at : {"none", "sent", "admitted"}, v : Versions]

\* The control loop and what it told the dashboard.
LEMMA LoopNext ==
  ASSUME ControlInv, [Next]_vars
  PROVE  /\ loop' \in LoopRecords /\ loop'.v <= wanted' /\ Explained(loop.shot)'
         /\ told' \in Snapshots /\ Explained(told)'
<1> DEFINE Goal == /\ loop' \in LoopRecords /\ loop'.v <= wanted' /\ Explained(loop.shot)'
                   /\ told' \in Snapshots /\ Explained(told)'
<1>0. /\ loop \in LoopRecords /\ told \in Snapshots /\ wanted \in Versions
      /\ loop.v <= wanted /\ Explained(loop.shot) /\ Explained(told) /\ Explained(Snapshot)
  BY DEF ControlInv, TypeOK, WasWanted, VersionsFit, LoopRecords, Places
<1>a. /\ 1 \in Versions /\ wanted' \in Versions /\ wanted <= wanted' /\ wanted \in Nat
      /\ wanted' \in Nat /\ 1 <= wanted' /\ Starting \in LoopRecords
  <2>1. wanted' \in Versions /\ wanted <= wanted'
    BY ManagerNext
  <2>2. 1 \in Versions
    BY BoundsAssumption DEF Versions
  <2>3. QED
    BY <1>0, <2>1, <2>2, EmptyExplained DEF Versions, Starting, LoopRecords, Places
<1>b. ASSUME NEW shot, Explained(shot) PROVE
        shot.version # None =>
           \A id \in Ids :
             \/ ~Names(shot.version, id)
             \/ shot.inForce[id] = Want(shot.version, id)
             \/ \E u \in 1..wanted' : Unacceptable(u) /\ shot.inForce[id] = Want(u, id)
  BY <1>a, <1>b, StaysExplained DEF ControlInv
<1>c. ASSUME NEW shot, Explained(shot), loop'.shot = shot PROVE Explained(loop.shot)'
  BY <1>b, <1>c DEF Explained
<1>d. ASSUME NEW shot, Explained(shot), told' = shot PROVE Explained(told)'
  BY <1>b, <1>d DEF Explained
<1>1. CASE UNCHANGED <<loop, told>>
  <2>1. loop'.v <= wanted'
    BY <1>0, <1>1, <1>a DEF LoopRecords, Versions
  <2>2. QED
    BY <1>0, <1>1, <1>c, <1>d, <2>1
<1>2. ASSUME NEW from \in Places, NEW to \in Places, LoopGoto(from, to), told' = told PROVE Goal
  <2>1. loop' = [loop EXCEPT !.at = to]
    BY <1>2 DEF LoopGoto
  <2>2. loop' \in LoopRecords /\ loop'.v = loop.v /\ loop'.shot = loop.shot
    BY <1>0, <2>1 DEF LoopRecords
  <2>3. loop'.v <= wanted'
    BY <1>0, <1>a, <2>2 DEF LoopRecords, Versions
  <2>4. QED
    BY <1>0, <1>2, <1>c, <1>d, <2>2, <2>3
<1>3. CASE Fetched
  <2>1. loop' = [loop EXCEPT !.at = "got", !.v = wanted] /\ told' = told /\ wanted' = wanted
    BY <1>3 DEF Fetched, LoopUnchanged
  <2>2. loop' \in LoopRecords /\ loop'.v = wanted /\ loop'.shot = loop.shot
    BY <1>0, <2>1 DEF LoopRecords, Places
  <2>3. QED
    BY <1>0, <1>a, <1>c, <1>d, <2>1, <2>2
<1>4. CASE LoopTakesSnapshot
  <2>1. loop' = [loop EXCEPT !.at = "push", !.shot = Snapshot] /\ told' = told
        /\ wanted' = wanted
    BY <1>4 DEF LoopTakesSnapshot, LoopUnchanged
  <2>2. loop' \in LoopRecords /\ loop'.v = loop.v /\ loop'.shot = Snapshot
    BY <1>0, <2>1, SnapshotTyped DEF LoopRecords, Places, ControlInv
  <2>3. QED
    BY <1>0, <1>c, <1>d, <2>1, <2>2
<1>5. CASE Pushed \/ PushFails
  <2>1. loop' = [Starting EXCEPT !.at = "wait"] /\ (told' = told \/ told' = loop.shot)
    BY <1>5 DEF Pushed, PushFails
  <2>2. loop' \in LoopRecords /\ loop'.v = 1 /\ loop'.shot = Empty
    BY <1>a, <2>1 DEF LoopRecords, Places, Starting
  <2>3. told' \in Snapshots
    BY <1>0, <2>1 DEF LoopRecords
  <2>4. QED
    BY <1>0, <1>a, <1>c, <1>d, <2>1, <2>2, <2>3, EmptyExplained
<1>6. CASE Restart
  <2>1. loop' = Starting /\ told' = told
    BY <1>6 DEF Restart
  <2>2. loop'.v = 1 /\ loop'.shot = Empty
    BY <2>1 DEF Starting
  <2>3. QED
    BY <1>0, <1>a, <1>c, <1>d, <2>1, <2>2, EmptyExplained
<1>7. LoopStarts \/ Asks \/ FetchFails \/ Tick => Goal
  BY <1>2 DEF LoopStarts, Asks, FetchFails, Tick, Places
<1>9. CASE LoopApplies
  <2>1. loop' = [loop EXCEPT !.at = "applied", !.v = 1] /\ told' = told
    BY <1>9 DEF LoopApplies
  <2>2. loop' \in LoopRecords /\ loop'.v = 1 /\ loop'.shot = loop.shot
    BY <1>0, <1>a, <2>1 DEF LoopRecords, Places
  <2>3. QED
    BY <1>0, <1>a, <1>c, <1>d, <2>1, <2>2
<1>8. QED
  BY <1>1, <1>3, <1>4, <1>5, <1>6, <1>7, <1>9
     DEF Next, Decide, ConfigAdmitted, Reconfigure, Loop, Sync, SyncSent, SyncAdmitted, SyncApplies, SyncRefuses, SyncLost,
         SyncUnchanged, vars

LEMMA TasksNext ==
  ASSUME ControlInv, [Next]_vars
  PROVE  /\ tasks' \in [Tasks -> TaskRecords]
         /\ \A t \in Tasks : tasks'[t].v <= wanted'
<1> DEFINE Goal == /\ tasks' \in [Tasks -> TaskRecords]
                   /\ \A t \in Tasks : tasks'[t].v <= wanted'
<1>0. /\ tasks \in [Tasks -> TaskRecords] /\ \A t \in Tasks : tasks[t].v <= wanted
      /\ wanted \in Versions /\ wanted' \in Versions /\ wanted <= wanted'
      /\ wanted \in Nat /\ wanted' \in Nat /\ 1 <= wanted'
  BY ManagerNext DEF ControlInv, TypeOK, WasWanted, TaskRecords, Versions
<1>a. NoTask \in TaskRecords /\ NoTask.v = 1
  BY BoundsAssumption DEF TaskRecords, NoTask, Versions
<1>b. \A t \in Tasks : tasks[t].v <= wanted'
  BY <1>0 DEF TaskRecords, Versions
<1>1. CASE UNCHANGED tasks
  BY <1>0, <1>b, <1>1
<1>2. ASSUME NEW t \in Tasks, NEW r \in TaskRecords, r.v <= wanted',
             tasks' = [tasks EXCEPT ![t] = r]
      PROVE  Goal
  BY <1>0, <1>b, <1>2
<1>3. ASSUME NEW t \in Tasks, SyncSent(t) PROVE Goal
  <2> DEFINE r == [at |-> "sent", v |-> wanted]
  <2>1. r \in TaskRecords
    BY <1>0 DEF ControlInv, TypeOK, TaskRecords
  <2>2. r.v <= wanted' /\ tasks' = [tasks EXCEPT ![t] = r]
    BY <1>0, <1>3 DEF SyncSent
  <2>3. QED
    BY <1>2, <2>1, <2>2
<1>4. ASSUME NEW t \in Tasks, SyncAdmitted(t) PROVE Goal
  <2> DEFINE r == [tasks[t] EXCEPT !.at = "admitted"]
  <2>1. r \in TaskRecords /\ r.v = tasks[t].v
    BY <1>0 DEF TaskRecords
  <2>2. tasks' = [tasks EXCEPT ![t] = r]
    BY <1>0, <1>4 DEF SyncAdmitted
  <2>3. QED
    BY <1>2, <1>b, <2>1, <2>2
<1>5. ASSUME NEW t \in Tasks, SyncApplies(t) \/ SyncRefuses(t) PROVE Goal
  BY <1>0, <1>a, <1>2, <1>5 DEF SyncApplies, SyncRefuses
<1>6. ASSUME NEW t \in Tasks, SyncLost(t) PROVE Goal
  BY <1>0, <1>a, <1>2, <1>6 DEF SyncLost
<1>7. CASE Restart
  BY <1>0, <1>a, <1>7 DEF Restart
<1>8. QED
  BY <1>1, <1>3, <1>4, <1>5, <1>6, <1>7
     DEF Next, Decide, ConfigAdmitted, Reconfigure, Loop, LoopStarts, Asks, Fetched, FetchFails, LoopApplies,
         LoopTakesSnapshot, Pushed, PushFails, Tick, LoopUnchanged, Sync, vars

LEMMA ConfigNext ==
  ASSUME TypeOK, [Next]_vars
  PROVE  /\ url' \in BOOLEAN /\ locked' \in BOOLEAN /\ reloading' \in BOOLEAN
         /\ restarts' \in 0..MaxRestarts
<1>1. /\ url' \in {url} \cup BOOLEAN /\ locked' \in {locked} \cup BOOLEAN
      /\ reloading' \in {reloading} \cup BOOLEAN
  BY DEF Next, Decide, ConfigAdmitted, Reconfigure, Loop, LoopStarts, Asks, Fetched, FetchFails, LoopApplies,
         LoopTakesSnapshot, Pushed, PushFails, Tick, LoopUnchanged, Sync, SyncSent,
         SyncAdmitted, SyncApplies, SyncRefuses, SyncLost, SyncUnchanged, Restart, vars, configVars
<1>2. restarts' \in 0..MaxRestarts
  BY BoundsAssumption
     DEF Next, Decide, ConfigAdmitted, Reconfigure, Loop, LoopStarts, Asks, Fetched, FetchFails, LoopApplies,
         LoopTakesSnapshot, Pushed, PushFails, Tick, LoopUnchanged, Sync, SyncSent,
         SyncAdmitted, SyncApplies, SyncRefuses, SyncLost, SyncUnchanged, Restart, vars, configVars, TypeOK
<1>3. url \in BOOLEAN /\ locked \in BOOLEAN /\ reloading \in BOOLEAN
  BY DEF TypeOK
<1>4. QED
  BY <1>1, <1>2, <1>3

LEMMA ControlInvNext ==
  ASSUME ControlInv, [Next]_vars
  PROVE  ControlInv'
<1>1. TypeOK'
  BY ManagerNext, LoopNext, TasksNext, ConfigNext
     DEF ControlInv, TypeOK, LoopRecords, Places, TaskRecords
<1>2. WasWanted' /\ VersionsFit' /\ Explained(loop.shot)'
  BY ManagerNext, LoopNext, TasksNext DEF WasWanted, VersionsFit
<1>3. QED
  BY <1>1, <1>2 DEF ControlInv

LEMMA ControlInvCorrect == Spec => []ControlInv
BY ControlInvInit, ControlInvNext, PTL DEF Spec

(* The control loop, the tasks and the manager keep their types.            *)
THEOREM ControlTypeCorrect == Spec => []TypeOK
<1>1. ControlInv => TypeOK
  BY DEF ControlInv
<1>2. QED
  BY <1>1, ControlInvCorrect, PTL

(* In whatever order loop and tasks apply and report whatever states, the   *)
(* version in the manager and at the dashboard fits the tunnels             *)
(* (main.go:256-271, manager.go:80, 84-96).                                 *)
THEOREM VersionsAlwaysFit == Spec => []VersionsFit
<1>1. ControlInv => VersionsFit
  BY DEF ControlInv
<1>2. QED
  BY <1>1, ControlInvCorrect, PTL
=============================================================================
