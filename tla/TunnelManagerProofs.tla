------------------------ MODULE TunnelManagerProofs -------------------------
(* Proofs about TunnelManager for any sets of tunnels, runners, variants and *)
(* versions.                                                                 *)
EXTENDS TunnelManager, TLAPS

-----------------------------------------------------------------------------
(* Reconcile. *)

\* What Reconcile does when fresh[id] is the runner it starts for tunnel id.
Effect(fresh, dropped, started, desired) ==
  /\ \A id \in started : Unused(fresh[id])
  /\ \A i, j \in started : fresh[i] = fresh[j] => i = j
  /\ \A id \in started :
       /\ instances'[id] = fresh[id]
       /\ status'[id] = [state |-> "pending", by |-> None]
       /\ pc'[fresh[id]] = "new"
       /\ cancelled'[fresh[id]] = FALSE
       /\ owner'[fresh[id]] = id
       /\ variant'[fresh[id]] = desired[id]
  /\ \A id \in Ids \ started :
       /\ instances'[id] = IF id \in dropped THEN None ELSE instances[id]
       /\ status'[id] = IF id \in dropped THEN NoStatus ELSE status[id]
  /\ \A r \in Runners : (\A id \in started : fresh[id] # r) =>
       /\ pc'[r] = pc[r]
       /\ cancelled'[r] = (cancelled[r] \/ \E id \in dropped : instances[id] = r)
       /\ owner'[r] = owner[r]
       /\ variant'[r] = variant[r]
  /\ instances' \in [Ids -> Runners \cup {None}]
  /\ status' \in [Ids -> Statuses]
  /\ pc' \in [Runners -> {"new", "run", "done"}]
  /\ cancelled' \in [Runners -> BOOLEAN]
  /\ owner' \in [Runners -> Ids]
  /\ variant' \in [Runners -> Variants]

LEMMA ReconcileEffect ==
  ASSUME TypeOK,
         NEW started \in SUBSET Ids,
         NEW dropped \in SUBSET Ids,
         NEW desired,
         \A id \in started : desired[id] \in Variants,
         Reconcile(dropped, started, desired)
  PROVE  \E fresh \in [started -> Runners] : Effect(fresh, dropped, started, desired)
<1> DEFINE isNew(f, r) == \E id \in started : f[id] = r
           idOf(f, r) == CHOOSE id \in started : f[id] = r
<1>1. PICK fresh \in Injection(started, {r \in Runners : Unused(r)}) :
        /\ instances' = [id \in Ids |->
             IF id \in started THEN fresh[id]
             ELSE IF id \in dropped THEN None ELSE instances[id]]
        /\ status' = [id \in Ids |->
             IF id \in started THEN [state |-> "pending", by |-> None]
             ELSE IF id \in dropped THEN NoStatus ELSE status[id]]
        /\ pc' = [r \in Runners |-> IF isNew(fresh, r) THEN "new" ELSE pc[r]]
        /\ cancelled' = [r \in Runners |->
             IF isNew(fresh, r) THEN FALSE
             ELSE cancelled[r] \/ \E id \in dropped : instances[id] = r]
        /\ owner' = [r \in Runners |-> IF isNew(fresh, r) THEN idOf(fresh, r) ELSE owner[r]]
        /\ variant' = [r \in Runners |->
             IF isNew(fresh, r) THEN desired[idOf(fresh, r)] ELSE variant[r]]
  BY DEF Reconcile
<1>2. /\ fresh \in [started -> Runners]
      /\ \A id \in started : Unused(fresh[id])
      /\ \A i, j \in started : fresh[i] = fresh[j] => i = j
  BY DEF Injection, IsInjective
<1>3. ASSUME NEW id \in started PROVE isNew(fresh, fresh[id]) /\ idOf(fresh, fresh[id]) = id
  BY <1>2
<1> HIDE DEF isNew, idOf
<1>4. ASSUME NEW r \in Runners, \A id \in started : fresh[id] # r PROVE ~isNew(fresh, r)
  BY <1>4 DEF isNew
<1>5. \A id \in started :
        /\ instances'[id] = fresh[id]
        /\ status'[id] = [state |-> "pending", by |-> None]
        /\ pc'[fresh[id]] = "new"
        /\ cancelled'[fresh[id]] = FALSE
        /\ owner'[fresh[id]] = id
        /\ variant'[fresh[id]] = desired[id]
  BY <1>1, <1>2, <1>3
<1>6. /\ instances' \in [Ids -> Runners \cup {None}]
      /\ pc' \in [Runners -> {"new", "run", "done"}]
  BY <1>1, <1>2 DEF TypeOK
<1>7. status' \in [Ids -> Statuses]
  BY <1>1 DEF TypeOK, Statuses, NoStatus
<1>8. cancelled' \in [Runners -> BOOLEAN]
  BY <1>1
<1>9. ASSUME NEW r \in Runners, isNew(fresh, r) PROVE idOf(fresh, r) \in started
  BY <1>9 DEF isNew, idOf
<1>10. owner' \in [Runners -> Ids] /\ variant' \in [Runners -> Variants]
  BY <1>1, <1>9 DEF TypeOK
<1>11. QED
  BY <1>1, <1>2, <1>4, <1>5, <1>6, <1>7, <1>8, <1>10 DEF Effect

-----------------------------------------------------------------------------
(* The inductive invariant. *)

ManagerInv == TypeOK /\ OneRunnerPerTunnel /\ RegisteredRunners

\* Reconcile keeps the invariant when every tunnel it starts anew is dropped first
\* and can be started.
LEMMA ReconcileInv ==
  ASSUME ManagerInv,
         NEW started \in SUBSET Ids,
         NEW dropped \in SUBSET Ids,
         NEW desired,
         started \subseteq dropped,
         \A id \in started : desired[id] \in Variants \ Rejected,
         Reconcile(dropped, started, desired),
         lastVersion' \in Versions \cup {None}
  PROVE  ManagerInv'
<1> USE DEF ManagerInv, OneRunnerPerTunnel, RegisteredRunners, Registered
<1>1. PICK fresh \in [started -> Runners] : Effect(fresh, dropped, started, desired)
  <2>1. TypeOK /\ \A id \in started : desired[id] \in Variants
    OBVIOUS
  <2>2. QED
    BY <2>1, ReconcileEffect
<1> USE DEF Effect
<1>2. TypeOK'
  BY <1>1 DEF TypeOK
<1>3. ASSUME NEW r \in Runners, ~cancelled'[r] PROVE instances'[owner'[r]] = r
  <2>1. CASE \E id \in started : fresh[id] = r
    BY <1>1, <2>1
  <2>2. CASE \A id \in started : fresh[id] # r
    <3>1. ~cancelled[r] /\ owner'[r] = owner[r] /\ owner[r] \in Ids
          /\ \A id \in dropped : instances[id] # r
      BY <1>1, <1>3, <2>2 DEF TypeOK
    <3>2. instances[owner[r]] = r /\ owner[r] \notin dropped
      BY <3>1
    <3>3. QED
      BY <1>1, <3>1, <3>2
  <2>3. QED
    BY <2>1, <2>2
<1>4. ASSUME NEW id \in Ids, instances'[id] # None
      PROVE  /\ owner'[instances'[id]] = id
             /\ ~cancelled'[instances'[id]]
             /\ variant'[instances'[id]] \notin Rejected
             /\ pc'[instances'[id]] = "done" => variant'[instances'[id]] \in FileShares
  <2>1. CASE id \in started
    BY <1>1, <2>1
  <2>2. CASE id \notin started
    <3> DEFINE r == instances[id]
    <3>1. instances'[id] = r /\ id \notin dropped /\ r \in Runners
      BY <1>1, <1>4, <2>2 DEF TypeOK
    <3>2. /\ owner[r] = id
          /\ ~cancelled[r]
          /\ variant[r] \notin Rejected
          /\ pc[r] = "done" => variant[r] \in FileShares
      BY <1>4, <3>1
    <3>3. \A i \in started : fresh[i] # r
      BY <1>1, <3>2 DEF Unused
    <3>4. ASSUME NEW i \in dropped PROVE instances[i] # r
      <4>1. instances[i] = r => owner[r] = i
        BY <3>1, RunnersAssumption
      <4>2. QED
        BY <3>1, <3>2, <4>1
    <3>5. /\ pc'[r] = pc[r]
          /\ cancelled'[r] = (cancelled[r] \/ \E i \in dropped : instances[i] = r)
          /\ owner'[r] = owner[r]
          /\ variant'[r] = variant[r]
      BY <1>1, <3>1, <3>3
    <3>6. ~cancelled'[r]
      BY <3>2, <3>4, <3>5
    <3>7. QED
      BY <3>1, <3>2, <3>5, <3>6
  <2>3. QED
    BY <2>1, <2>2
<1>5. QED
  BY <1>2, <1>3, <1>4

LEMMA InitManagerInv == Init => ManagerInv
<1> SUFFICES ASSUME Init PROVE ManagerInv
  OBVIOUS
<1>1. TypeOK
  BY DEF Init, TypeOK, Statuses, NoStatus
<1>2. QED
  BY <1>1 DEF Init, ManagerInv, OneRunnerPerTunnel, RegisteredRunners, Registered

\* The sets of tunnels that ApplyDesiredState passes to Reconcile.
LEMMA StartedAreDropped ==
  ASSUME NEW desired \in DesiredStates, NEW replace \in BOOLEAN,
         NEW reached \in SUBSET DOMAIN desired,
         NEW more \in SUBSET DOMAIN desired
  PROVE  LET dropped == Absent(desired, replace) \cup Changed(desired, reached \cup more)
             started == ToStart(desired, reached)
         IN  /\ dropped \in SUBSET Ids
             /\ started \in SUBSET Ids
             /\ started \subseteq dropped
             /\ \A id \in started : desired[id] \in Variants \ Rejected
<1>1. DOMAIN desired \subseteq Ids
  BY DEF DesiredStates
<1>2. QED
  BY <1>1 DEF Absent, Changed, ToStart, Startable

LEMMA ManagerStep ==
  ASSUME ManagerInv, Manager
  PROVE  ManagerInv'
<1>1. ASSUME NEW desired \in DesiredStates, NEW replace \in BOOLEAN, NEW v \in Versions,
             ApplyAccepted(desired, replace, v)
      PROVE  ManagerInv'
  <2> DEFINE reached == DOMAIN desired
             dropped == Absent(desired, replace) \cup Changed(desired, reached)
             started == ToStart(desired, reached)
  <2>1. /\ dropped \in SUBSET Ids
        /\ started \in SUBSET Ids
        /\ started \subseteq dropped
        /\ \A id \in started : desired[id] \in Variants \ Rejected
    BY StartedAreDropped, reached \cup {} = reached
  <2>2. Reconcile(dropped, started, desired) /\ lastVersion' \in Versions \cup {None}
    BY <1>1 DEF ApplyAccepted
  <2> HIDE DEF dropped, started
  <2>3. QED
    BY <2>1, <2>2, ReconcileInv
<1>2. ASSUME NEW desired \in DesiredStates, NEW replace \in BOOLEAN,
             ApplyRefused(desired, replace)
      PROVE  ManagerInv'
  <2>1. PICK failed \in Failing(desired),
             reached \in SUBSET (DOMAIN desired \ Failing(desired)) :
          /\ Reconcile(Absent(desired, replace) \cup Changed(desired, reached \cup {failed}),
                       ToStart(desired, reached), desired)
          /\ UNCHANGED lastVersion
    BY <1>2 DEF ApplyRefused
  <2> DEFINE dropped == Absent(desired, replace) \cup Changed(desired, reached \cup {failed})
             started == ToStart(desired, reached)
  <2>2. reached \in SUBSET DOMAIN desired /\ {failed} \in SUBSET DOMAIN desired
    BY <2>1 DEF Failing
  <2>3. /\ dropped \in SUBSET Ids
        /\ started \in SUBSET Ids
        /\ started \subseteq dropped
        /\ \A id \in started : desired[id] \in Variants \ Rejected
    BY <2>2, StartedAreDropped
  <2>4. lastVersion' \in Versions \cup {None}
    BY <2>1 DEF ManagerInv, TypeOK
  <2>5. Reconcile(dropped, started, desired)
    BY <2>1
  <2> HIDE DEF dropped, started
  <2>6. QED
    BY <2>3, <2>4, <2>5, ReconcileInv
<1>3. CASE Close
  <2>1. Reconcile(Ids, {}, << >>) /\ lastVersion' \in Versions \cup {None}
    BY <1>3 DEF Close, ManagerInv, TypeOK
  <2>2. {} \in SUBSET Ids /\ Ids \in SUBSET Ids /\ {} \subseteq Ids
    OBVIOUS
  <2>3. QED
    BY <2>1, <2>2, ReconcileInv
<1>4. QED
  BY <1>1, <1>2, <1>3 DEF Manager

LEMMA RunnerStep ==
  ASSUME ManagerInv, NEW r \in Runners, Runner(r)
  PROVE  ManagerInv'
<1> USE DEF ManagerInv, OneRunnerPerTunnel, RegisteredRunners, Registered
<1>1. ASSUME NEW state \in RunStates \cup {"stopped"}, OnStatus(r, state)
      PROVE  status' \in [Ids -> Statuses]
  BY <1>1 DEF OnStatus, TypeOK, Statuses
<1>2. CASE RunnerBegins(r)
  BY <1>2 DEF RunnerBegins, TypeOK, managerVars
<1>3. CASE RunnerGivesUp(r)
  <2>1. status' \in [Ids -> Statuses]
    BY <1>1, <1>3 DEF RunnerGivesUp, RunStates
  <2>2. QED
    BY <1>3, <2>1 DEF RunnerGivesUp, TypeOK
<1>4. CASE RunnerPublishes(r)
  <2>1. status' \in [Ids -> Statuses]
    BY <1>1, <1>4 DEF RunnerPublishes
  <2>2. QED
    BY <1>4, <2>1 DEF RunnerPublishes, TypeOK, runnerVars
<1>5. CASE RunnerStops(r)
  <2>1. status' \in [Ids -> Statuses]
    BY <1>1, <1>5 DEF RunnerStops
  <2>2. QED
    BY <1>5, <2>1 DEF RunnerStops, TypeOK
<1>6. QED
  BY <1>2, <1>3, <1>4, <1>5 DEF Runner

LEMMA NextManagerInv == ManagerInv /\ [Next]_vars => ManagerInv'
<1> SUFFICES ASSUME ManagerInv, [Next]_vars PROVE ManagerInv'
  OBVIOUS
<1>1. CASE UNCHANGED vars
  BY <1>1 DEF vars, managerVars, runnerVars, ManagerInv, TypeOK, OneRunnerPerTunnel,
     RegisteredRunners, Registered
<1>2. QED
  BY <1>1, ManagerStep, RunnerStep DEF Next

LEMMA ManagerInvCorrect == Spec => []ManagerInv
  BY InitManagerInv, NextManagerInv, PTL DEF Spec

\* Every variable of the manager keeps its type.
THEOREM ManagerTypeCorrect == Spec => []TypeOK
<1>1. ManagerInv => TypeOK
  BY DEF ManagerInv
<1>2. QED
  BY <1>1, ManagerInvCorrect, PTL

\* A runner that is not cancelled can always be reached through the map, and it is
\* the only one of its tunnel.
THEOREM RunnersAreReachable == Spec => []OneRunnerPerTunnel
<1>1. ManagerInv => OneRunnerPerTunnel
  BY DEF ManagerInv
<1>2. QED
  BY <1>1, ManagerInvCorrect, PTL

\* The map holds live runners only.
THEOREM RegisteredAreLive == Spec => []RegisteredRunners
<1>1. ManagerInv => RegisteredRunners
  BY DEF ManagerInv
<1>2. QED
  BY <1>1, ManagerInvCorrect, PTL

-----------------------------------------------------------------------------
(* Statuses. *)

LEMMA InitStopped == Init => StoppedIsForeign
  BY DEF Init, StoppedIsForeign, Registered

LEMMA NextStopped ==
  ManagerInv /\ StoppedIsForeign /\ [Next]_vars => StoppedIsForeign'
<1> SUFFICES ASSUME ManagerInv, StoppedIsForeign, [Next]_vars PROVE StoppedIsForeign'
  OBVIOUS
<1> USE DEF StoppedIsForeign, Registered
<1>1. ASSUME NEW r \in Runners, NEW state, OnStatus(r, state), UNCHANGED instances,
             state # "stopped" \/ cancelled[r]
      PROVE  StoppedIsForeign'
  <2>1. cancelled[r] => \A id \in Ids : instances[id] # r
    BY RunnersAssumption DEF ManagerInv, RegisteredRunners
  <2>2. status \in [Ids -> Statuses] /\ owner[r] \in Ids
    BY DEF ManagerInv, TypeOK
  <2>3. QED
    BY <1>1, <2>1, <2>2 DEF OnStatus
<1>2. ASSUME NEW r \in Runners, Runner(r) PROVE StoppedIsForeign'
  BY <1>1, <1>2
  DEF Runner, RunnerBegins, RunnerGivesUp, RunnerPublishes, RunnerStops, RunStates,
      managerVars
<1>3. ASSUME NEW dropped, NEW started, NEW desired, Reconcile(dropped, started, desired)
      PROVE  StoppedIsForeign'
  BY <1>3, RunnersAssumption DEF Reconcile, NoStatus, Injection, IsInjective
<1>4. CASE UNCHANGED vars
  BY <1>4 DEF vars, managerVars
<1>5. QED
  BY <1>2, <1>3, <1>4 DEF Next, Manager, ApplyAccepted, ApplyRefused, Close

\* The status "stopped" of a tunnel in the map never comes from its own runner.
THEOREM StoppedStatusIsForeign == Spec => []StoppedIsForeign
  BY ManagerInvCorrect, InitStopped, NextStopped, PTL DEF Spec

-----------------------------------------------------------------------------
(* The manager implements TunnelRegistry and restarts no tunnel needlessly. *)

\* The tunnels in force and their runners after Reconcile.
LEMMA ReconcileInForce ==
  ASSUME ManagerInv,
         NEW started \in SUBSET Ids,
         NEW dropped \in SUBSET Ids,
         NEW desired,
         \A id \in started : desired[id] \in Variants \ Rejected,
         Reconcile(dropped, started, desired),
         NEW id \in Ids
  PROVE  /\ InForce'[id] = IF id \in started THEN desired[id]
                           ELSE IF id \in dropped THEN None ELSE InForce[id]
         /\ id \notin started \cup dropped => instances'[id] = instances[id]
<1>1. PICK fresh \in [started -> Runners] : Effect(fresh, dropped, started, desired)
  <2>1. TypeOK /\ \A i \in started : desired[i] \in Variants
    BY DEF ManagerInv
  <2>2. QED
    BY <2>1, ReconcileEffect
<1>2. InForce'[id] = IF instances'[id] # None THEN variant'[instances'[id]] ELSE None
  BY DEF InForce, Registered
<1>3. InForce[id] = IF instances[id] # None THEN variant[instances[id]] ELSE None
  BY DEF InForce, Registered
<1>4. CASE id \in started
  BY <1>1, <1>2, <1>4, RunnersAssumption DEF Effect
<1>5. CASE id \notin started /\ id \in dropped
  BY <1>1, <1>2, <1>5 DEF Effect
<1>6. CASE id \notin started /\ id \notin dropped
  <2>1. instances'[id] = instances[id]
    BY <1>1, <1>6 DEF Effect
  <2>2. CASE instances[id] = None
    BY <1>2, <1>3, <1>6, <2>1, <2>2
  <2>3. CASE instances[id] # None
    <3>1. instances[id] \in Runners /\ ~cancelled[instances[id]]
      BY <2>3 DEF ManagerInv, TypeOK, RegisteredRunners, Registered
    <3>2. \A i \in started : fresh[i] # instances[id]
      BY <1>1, <3>1 DEF Effect, Unused
    <3>3. variant'[instances[id]] = variant[instances[id]]
      BY <1>1, <3>1, <3>2 DEF Effect
    <3>4. QED
      BY <1>2, <1>3, <1>6, <2>1, <3>3
  <2>4. QED
    BY <2>2, <2>3
<1>7. QED
  BY <1>4, <1>5, <1>6

\* A tunnel that stays as it is has the desired variant already.
LEMMA UnchangedInForce ==
  ASSUME NEW desired, NEW id \in Ids, Unchanged(desired, id)
  PROVE  InForce[id] = desired[id]
  BY DEF Unchanged, InForce

\* What an accepted state does, tunnel by tunnel.
LEMMA AcceptedInForce ==
  ASSUME ManagerInv, NEW desired \in DesiredStates, NEW replace \in BOOLEAN,
         NEW v \in Versions, ApplyAccepted(desired, replace, v), NEW id \in Ids
  PROVE  /\ InForce'[id] = Registry!Wanted(desired, replace, id)
         /\ instances[id] # None /\ instances'[id] # instances[id] => InForce'[id] # InForce[id]
<1> DEFINE reached == DOMAIN desired
           dropped == Absent(desired, replace) \cup Changed(desired, reached)
           started == ToStart(desired, reached)
<1>1. /\ dropped \in SUBSET Ids
      /\ started \in SUBSET Ids
      /\ started \subseteq dropped
      /\ \A i \in started : desired[i] \in Variants \ Rejected
  BY StartedAreDropped, reached \cup {} = reached
<1>2. Reconcile(dropped, started, desired)
  BY DEF ApplyAccepted
<1>3. /\ InForce'[id] = IF id \in started THEN desired[id]
                        ELSE IF id \in dropped THEN None ELSE InForce[id]
      /\ id \notin started \cup dropped => instances'[id] = instances[id]
  <2> HIDE DEF dropped, started
  <2>1. QED
    BY <1>1, <1>2, ReconcileInForce
<1>4. instances[id] # None => InForce[id] # None /\ InForce[id] = variant[instances[id]]
  BY VariantsAssumption DEF ManagerInv, TypeOK, InForce, Registered
<1>5. DOMAIN desired \subseteq Ids /\ \A i \in DOMAIN desired : desired[i] \in Variants \cup {Off}
  BY DEF DesiredStates
<1>6. \A i \in DOMAIN desired : desired[i] \notin Rejected
  BY DEF ApplyAccepted, Failing
<1>7. CASE id \in started
  BY <1>3, <1>4, <1>7 DEF ToStart, Startable, Unchanged, Registered, Registry!Wanted
<1>8. CASE id \notin started /\ id \in dropped
  <2>1. CASE id \in DOMAIN desired
    <3>1. desired[id] = Off
      BY <1>5, <1>6, <1>8, <2>1 DEF Absent, Changed, ToStart, Startable
    <3>2. QED
      BY <1>3, <1>4, <1>8, <2>1, <3>1, VariantsAssumption DEF Registry!Wanted
  <2>2. CASE id \notin DOMAIN desired
    BY <1>3, <1>4, <1>8, <2>2 DEF Absent, Changed, Registry!Wanted
  <2>3. QED
    BY <2>1, <2>2
<1>9. CASE id \notin dropped
  <2>1. InForce'[id] = InForce[id] /\ instances'[id] = instances[id]
    BY <1>1, <1>3, <1>9
  <2>2. CASE id \in DOMAIN desired
    <3>1. Unchanged(desired, id)
      BY <1>9, <2>2 DEF Changed
    <3>2. desired[id] \in Variants \ Rejected
      BY <1>5, <1>6, <2>2, <3>1, VariantsAssumption
      DEF Unchanged, Registered, ManagerInv, TypeOK
    <3>3. QED
      BY <2>1, <2>2, <3>1, <3>2, UnchangedInForce DEF Registry!Wanted
  <2>3. CASE id \notin DOMAIN desired
    BY <1>9, <2>1, <2>3 DEF Absent, Registry!Wanted
  <2>4. QED
    BY <2>2, <2>3
<1>10. QED
  BY <1>7, <1>8, <1>9

\* What a refused state does, tunnel by tunnel.
LEMMA RefusedInForce ==
  ASSUME ManagerInv, NEW desired \in DesiredStates, NEW replace \in BOOLEAN,
         ApplyRefused(desired, replace), NEW id \in Ids
  PROVE  /\ \/ InForce'[id] = Registry!Wanted(desired, replace, id)
            \/ id \in DOMAIN desired /\ InForce'[id] = InForce[id]
         /\ instances[id] # None /\ instances'[id] # instances[id] => InForce'[id] # InForce[id]
<1>1. PICK failed \in Failing(desired),
           reached \in SUBSET (DOMAIN desired \ Failing(desired)) :
        Reconcile(Absent(desired, replace) \cup Changed(desired, reached \cup {failed}),
                  ToStart(desired, reached), desired)
  BY DEF ApplyRefused
<1> DEFINE dropped == Absent(desired, replace) \cup Changed(desired, reached \cup {failed})
           started == ToStart(desired, reached)
<1>2. /\ dropped \in SUBSET Ids
      /\ started \in SUBSET Ids
      /\ started \subseteq dropped
      /\ \A i \in started : desired[i] \in Variants \ Rejected
  <2>1. reached \in SUBSET DOMAIN desired /\ {failed} \in SUBSET DOMAIN desired
    BY <1>1 DEF Failing
  <2>2. QED
    BY <2>1, StartedAreDropped
<1>3. /\ InForce'[id] = IF id \in started THEN desired[id]
                        ELSE IF id \in dropped THEN None ELSE InForce[id]
      /\ id \notin started \cup dropped => instances'[id] = instances[id]
  <2>1. Reconcile(dropped, started, desired)
    BY <1>1
  <2> HIDE DEF dropped, started
  <2>2. QED
    BY <1>2, <2>1, ReconcileInForce
<1>4. instances[id] # None => InForce[id] # None /\ InForce[id] = variant[instances[id]]
  BY VariantsAssumption DEF ManagerInv, TypeOK, InForce, Registered
<1>5. DOMAIN desired \subseteq Ids /\ \A i \in DOMAIN desired : desired[i] \in Variants \cup {Off}
  BY DEF DesiredStates
<1>6. failed \in DOMAIN desired /\ desired[failed] \in Rejected
      /\ \A i \in reached : i \in DOMAIN desired /\ desired[i] \notin Rejected
  BY <1>1 DEF Failing
<1>7. CASE id \in started
  BY <1>3, <1>4, <1>6, <1>7 DEF ToStart, Startable, Unchanged, Registered, Registry!Wanted
<1>8. CASE id \notin started /\ id \in dropped
  <2>1. CASE id \in DOMAIN desired
    <3>1. desired[id] \notin Variants \ Rejected
      BY <1>5, <1>6, <1>8, <2>1, VariantsAssumption DEF Absent, Changed, ToStart, Startable
    <3>2. QED
      BY <1>3, <1>4, <1>8, <2>1, <3>1 DEF Registry!Wanted
  <2>2. CASE id \notin DOMAIN desired
    BY <1>3, <1>4, <1>6, <1>8, <2>2 DEF Absent, Changed, Registry!Wanted
  <2>3. QED
    BY <2>1, <2>2
<1>9. CASE id \notin dropped
  <2>1. InForce'[id] = InForce[id] /\ instances'[id] = instances[id]
    BY <1>2, <1>3, <1>9
  <2>2. CASE id \notin DOMAIN desired
    BY <1>9, <2>1, <2>2 DEF Absent, Registry!Wanted
  <2>3. QED
    BY <2>1, <2>2
<1>10. QED
  BY <1>7, <1>8, <1>9

LEMMA CloseInForce ==
  ASSUME ManagerInv, Close, NEW id \in Ids
  PROVE  InForce'[id] = None
  BY DEF Close, Reconcile, InForce, Registered

\* A runner changes nothing of what is in force.
LEMMA RunnerInForce ==
  ASSUME NEW r \in Runners, Runner(r)
  PROVE  UNCHANGED <<instances, lastVersion, InForce>>
  BY DEF Runner, RunnerBegins, RunnerGivesUp, RunnerPublishes, RunnerStops, managerVars,
         runnerVars, InForce, Registered

LEMMA InForceTyped ==
  ASSUME ManagerInv, ManagerInv'
  PROVE  InForce' = [id \in Ids |-> InForce'[id]] /\ InForce' \in [Ids -> Variants \cup {None}]
  BY DEF ManagerInv, TypeOK, InForce, Registered

\* Every desired state has the effect that the registry says it has.
LEMMA RequestsAgree ==
  ManagerInv /\ ManagerInv' => SameRequests
<1> SUFFICES ASSUME ManagerInv, ManagerInv' PROVE SameRequests
  OBVIOUS
<1>1. InForce' = [id \in Ids |-> InForce'[id]] /\ InForce' \in [Ids -> Variants \cup {None}]
  BY InForceTyped
<1>2. ASSUME NEW desired \in DesiredStates, NEW replace \in BOOLEAN, NEW v \in Versions,
             ApplyAccepted(desired, replace, v)
      PROVE  Registry!Accept(desired, replace, v)
  <2>1. \A id \in Ids : InForce'[id] = Registry!Wanted(desired, replace, id)
    BY <1>2, AcceptedInForce
  <2>2. QED
    BY <1>1, <1>2, <2>1 DEF Registry!Accept, ApplyAccepted, Failing
<1>3. ASSUME NEW desired \in DesiredStates, NEW replace \in BOOLEAN,
             ApplyRefused(desired, replace)
      PROVE  Registry!Refuse(desired, replace)
  <2>1. \A id \in Ids : \/ InForce'[id] = Registry!Wanted(desired, replace, id)
                        \/ id \in DOMAIN desired /\ InForce'[id] = InForce[id]
    BY <1>3, RefusedInForce
  <2>2. (\E id \in DOMAIN desired : desired[id] \in Rejected) /\ lastVersion' = lastVersion
    BY <1>3 DEF ApplyRefused, Failing
  <2>3. QED
    BY <1>1, <2>1, <2>2 DEF Registry!Refuse
<1>4. Close => Registry!CloseAll
  BY <1>1, CloseInForce DEF Close, Registry!CloseAll
<1>5. QED
  BY <1>2, <1>3, <1>4 DEF SameRequests

\* Every step of the manager is a step of the registry or changes nothing there.
LEMMA StepRefines ==
  ManagerInv /\ ManagerInv' /\ [Next]_vars => [Registry!Next]_<<InForce, lastVersion>>
<1> SUFFICES ASSUME ManagerInv, ManagerInv', [Next]_vars
             PROVE  Registry!Next \/ UNCHANGED <<InForce, lastVersion>>
  OBVIOUS
<1>1. Registry!DesiredStates = DesiredStates
  BY DEF DesiredStates, Registry!DesiredStates
<1>2. Manager => Registry!Next
  BY <1>1, RequestsAgree DEF Manager, SameRequests, Registry!Next
<1>3. ASSUME NEW r \in Runners, Runner(r) PROVE UNCHANGED <<InForce, lastVersion>>
  BY <1>3, RunnerInForce
<1>4. CASE UNCHANGED vars
  BY <1>4 DEF vars, managerVars, runnerVars, InForce, Registered
<1>5. QED
  BY <1>2, <1>3, <1>4 DEF Next

\* ApplyDesiredState and Close do what TunnelRegistry says of the same request,
\* whatever the runners do.
THEOREM ManagerRefinesRegistry == Spec => ImplementsRegistry
<1>1. Init => Registry!Init
  BY DEF Init, Registry!Init, InForce, Registered
<1>2. ManagerInv /\ ManagerInv' => [SameRequests]_vars
  BY RequestsAgree
<1>3. QED
  BY <1>1, <1>2, ManagerInvCorrect, StepRefines, PTL
     DEF Spec, ImplementsRegistry, Registry!Spec

\* A step that changes the runner of a tunnel changes what is in force.
LEMMA NextKeeps ==
  ASSUME ManagerInv, [Next]_vars
  PROVE  [\A id \in Ids : Registered(id) /\ instances'[id] # instances[id] =>
            InForce'[id] # InForce[id]]_vars
<1> SUFFICES ASSUME Next, NEW id \in Ids, instances[id] # None, instances'[id] # instances[id]
             PROVE  InForce'[id] # InForce[id]
  BY DEF Registered
<1>1. InForce[id] # None
  BY VariantsAssumption DEF ManagerInv, TypeOK, InForce, Registered
<1>2. QED
  BY <1>1, AcceptedInForce, RefusedInForce, CloseInForce, RunnerInForce DEF Next, Manager

\* A runner is replaced only by one with another specification.
THEOREM NoRunnerIsReplacedNeedlessly == Spec => NoNeedlessRestart
BY ManagerInvCorrect, NextKeeps, PTL DEF Spec, NoNeedlessRestart
=============================================================================
