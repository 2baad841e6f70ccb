-------------------------- MODULE TunnelAgentProofs --------------------------
(* Proofs about TunnelAgent for any tunnels, runners, desired states, tasks  *)
(* and numbers of restarts.                                                  *)
EXTENDS TunnelAgent, TunnelManagerProofs

\* TunnelControl again, with what is proved of it.
Proved == INSTANCE TunnelControlProofs WITH inForce <- InForce, version <- lastVersion

\* Control and Proved are one module: what is proved of the one is true of the other.
LEMMA SameModule ==
  /\ Control!Init <=> Proved!Init
  /\ Control!Next <=> Proved!Next
  /\ UNCHANGED Control!vars <=> UNCHANGED Proved!vars
<1>1. Control!Init <=> Proved!Init
  BY DEF Control!Init, Proved!Init, Control!Starting, Proved!Starting, Control!Empty,
         Proved!Empty, Control!NoTask, Proved!NoTask
<1>2. Control!Next <=> Proved!Next
  BY DEF Control!Next, Proved!Next, Control!Loop, Proved!Loop, Control!Sync, Proved!Sync,
         Control!Decide, Proved!Decide, Control!ConfigAdmitted, Proved!ConfigAdmitted,
         Control!Reconfigure, Proved!Reconfigure,
         Control!LoopStarts, Proved!LoopStarts, Control!Asks, Proved!Asks, Control!Fetched,
         Proved!Fetched, Control!FetchFails, Proved!FetchFails, Control!LoopApplies,
         Proved!LoopApplies, Control!LoopTakesSnapshot, Proved!LoopTakesSnapshot,
         Control!Pushed, Proved!Pushed, Control!PushFails, Proved!PushFails, Control!Tick,
         Proved!Tick, Control!Restart, Proved!Restart, Control!SyncSent, Proved!SyncSent,
         Control!SyncAdmitted, Proved!SyncAdmitted, Control!SyncApplies, Proved!SyncApplies,
         Control!SyncRefuses, Proved!SyncRefuses, Control!SyncLost, Proved!SyncLost,
         Control!LoopGoto, Proved!LoopGoto, Control!LoopUnchanged, Proved!LoopUnchanged,
         Control!SyncUnchanged, Proved!SyncUnchanged, Control!Apply, Proved!Apply,
         Control!Registry!Accept, Proved!Registry!Accept, Control!Registry!Refuse,
         Proved!Registry!Refuse, Control!Registry!Wanted, Proved!Registry!Wanted,
         Control!Snapshot, Proved!Snapshot, Control!Starting, Proved!Starting, Control!Empty,
         Proved!Empty, Control!NoTask, Proved!NoTask, Control!managerVars, Proved!managerVars, Control!configVars, Proved!configVars
<1>3. UNCHANGED Control!vars <=> UNCHANGED Proved!vars
  BY DEF Control!vars, Proved!vars, Control!managerVars, Proved!managerVars,
         Control!configVars, Proved!configVars
<1>4. QED
  BY <1>1, <1>2, <1>3

\* The assumptions of TunnelControl hold.
LEMMA ControlAssumptions ==
  ASSUME ConstantsFit
  PROVE  /\ Proved!Versions = Versions
         /\ Proved!DesiredStates = DesiredStates
         /\ Latest \in Nat \ {0} /\ MaxRestarts \in Nat
         /\ State \in [Proved!Versions ->
                         [tunnels : Proved!DesiredStates, replace : BOOLEAN, nameless : BOOLEAN]]
BY DEF ConstantsFit, Proved!Versions, Proved!DesiredStates, DesiredStates

-----------------------------------------------------------------------------
(* The invariant, and what each step is to TunnelControl. *)

AgentInv == ConstantsFit /\ ManagerInv /\ Proved!ControlInv

\* A state in hand is one of the dashboard's.
LEMMA InHand ==
  ASSUME AgentInv
  PROVE  loop.v \in Versions /\ \A t \in Tasks : tasks[t].v \in Versions
BY ControlAssumptions DEF AgentInv, Proved!ControlInv, Proved!TypeOK

\* The manager with its runners does what TunnelControl takes it to do.
LEMMA ApplyKeepsInv ==
  ASSUME ConstantsFit, ManagerInv, NEW v \in Versions, ApplyDesiredState(v)
  PROVE  ManagerInv' /\ Control!Apply(v)
<1>1. State[v].tunnels \in DesiredStates /\ State[v].replace \in BOOLEAN
  BY DEF ConstantsFit
<1>2. CASE State[v].nameless
  <2>1. UNCHANGED vars
    BY <1>2 DEF ApplyDesiredState
  <2>2. QED
    BY <1>2, <2>1, NextManagerInv
       DEF Control!Apply, Control!managerVars, vars, managerVars, runnerVars, InForce, Registered
<1>3. CASE ~State[v].nameless
  <2>1. Manager
    BY <1>1, <1>3 DEF ApplyDesiredState, Manager
  <2>2. ManagerInv'
    BY <2>1, ManagerStep
  <2>3. \/ Registry!Accept(State[v].tunnels, State[v].replace, v)
        \/ Registry!Refuse(State[v].tunnels, State[v].replace)
    BY <1>1, <1>3, <2>2, RequestsAgree DEF ApplyDesiredState, SameRequests
  <2>4. QED
    BY <1>3, <2>2, <2>3 DEF Control!Apply, Control!Registry!Accept, Control!Registry!Refuse,
       Control!Registry!Wanted, Registry!Accept, Registry!Refuse, Registry!Wanted
<1>4. QED
  BY <1>2, <1>3

\* A restarted agent is in the manager's initial state, but for what nobody looks at.
LEMMA RestartKeepsInv ==
  ASSUME ManagerInv, Restart
  PROVE  ManagerInv' /\ Control!Restart
<1>1. TypeOK'
  BY DEF Restart, ManagerInv, TypeOK, Statuses, NoStatus
<1>2. OneRunnerPerTunnel' /\ RegisteredRunners'
  BY DEF Restart, OneRunnerPerTunnel, RegisteredRunners, Registered
<1>3. Control!Restart
  BY DEF Restart, Control!Restart, Control!configVars, configVars, InForce, Registered
<1>4. QED
  BY <1>1, <1>2, <1>3 DEF ManagerInv

\* Each step keeps the manager's invariant, and is one of TunnelControl or none.
LEMMA AgentStep ==
  ASSUME AgentInv, [AgentNext]_agentVars
  PROVE  ManagerInv' /\ [Control!Next]_Control!vars
<1>1. CASE LoopApplies
  <2>1. ManagerInv' /\ Control!Apply(loop.v)
    BY <1>1, InHand, ApplyKeepsInv DEF LoopApplies, AgentInv
  <2>2. Control!LoopApplies
    BY <1>1, <2>1 DEF LoopApplies, Control!LoopApplies, Control!LoopUnchanged, Control!configVars,
       configVars
  <2>3. QED
    BY <2>1, <2>2 DEF Control!Next, Control!Loop
<1>2. ASSUME NEW t \in Tasks, SyncApplies(t)
      PROVE  ManagerInv' /\ [Control!Next]_Control!vars
  <2>1. ManagerInv' /\ Control!Apply(tasks[t].v)
    BY <1>2, InHand, ApplyKeepsInv DEF SyncApplies, AgentInv
  <2>2. Control!SyncApplies(t)
    BY <1>2, <2>1 DEF SyncApplies, Control!SyncApplies, Control!SyncUnchanged, Control!configVars,
       configVars
  <2>3. QED
    BY <2>1, <2>2 DEF Control!Next, Control!Sync
<1>3. CASE ControlGoesOn
  <2>1. ManagerInv'
    BY <1>3, NextManagerInv DEF ControlGoesOn, AgentInv
  <2>2. Control!Next
    BY <1>3 DEF ControlGoesOn, Control!Next, Control!Loop, Control!Sync
  <2>3. QED
    BY <2>1, <2>2
<1>4. CASE RunnersGoOn
  <2>1. PICK r \in Runners : Runner(r)
    BY <1>4 DEF RunnersGoOn
  <2>2. ManagerInv' /\ UNCHANGED <<InForce, lastVersion>>
    BY <2>1, RunnerStep, RunnerInForce DEF AgentInv
  <2>3. UNCHANGED Control!vars
    BY <1>4, <2>2 DEF RunnersGoOn, controlVars, configVars, Control!vars, Control!managerVars,
       Control!configVars
  <2>4. QED
    BY <2>2, <2>3
<1>5. CASE Restart
  BY <1>5, RestartKeepsInv DEF AgentInv, Control!Next
<1>6. CASE UNCHANGED agentVars
  <2>1. UNCHANGED vars /\ UNCHANGED controlVars
    BY <1>6 DEF agentVars
  <2>2. ManagerInv'
    BY <2>1, NextManagerInv DEF AgentInv
  <2>3. UNCHANGED Control!vars
    BY <2>1 DEF vars, managerVars, runnerVars, InForce, Registered, controlVars, configVars,
       Control!vars, Control!managerVars, Control!configVars
  <2>4. QED
    BY <2>2, <2>3
<1>7. QED
  BY <1>1, <1>2, <1>3, <1>4, <1>5, <1>6 DEF AgentNext

LEMMA AgentInvCorrect == ConstantsFit /\ AgentSpec => []AgentInv /\ Control!Spec
<1>1. ConstantsFit /\ AgentInit => AgentInv
  <2>1. ConstantsFit /\ Control!Init => Proved!ControlInv
    BY VariantsAssumption, ControlAssumptions, SameModule, Proved!ControlInvInit
  <2>2. QED
    BY <2>1, InitManagerInv DEF AgentInit, AgentInv
<1>2. AgentInv /\ [AgentNext]_agentVars => AgentInv' /\ [Control!Next]_Control!vars
  <2> SUFFICES ASSUME AgentInv, [AgentNext]_agentVars
               PROVE  AgentInv' /\ [Control!Next]_Control!vars
    OBVIOUS
  <2>1. ManagerInv' /\ [Control!Next]_Control!vars
    BY AgentStep
  <2>2. Proved!ControlInv /\ [Proved!Next]_Proved!vars
    BY <2>1, SameModule DEF AgentInv
  <2>3. Proved!ControlInv'
    BY <2>2, VariantsAssumption, ControlAssumptions, Proved!ControlInvNext DEF AgentInv
  <2>4. QED
    BY <2>1, <2>3 DEF AgentInv
<1>3. AgentInit => Control!Init
  BY DEF AgentInit
<1>4. QED
  BY <1>1, <1>2, <1>3, PTL DEF AgentSpec, Control!Spec

\* The control loop and the tasks find the manager as TunnelControl has it, whatever
\* runners are at work, and after restarts too (main.go:256-271, 971-985).
THEOREM AgentImplementsControl == ConstantsFit /\ AgentSpec => ImplementsControl
BY AgentInvCorrect, PTL DEF ImplementsControl

-----------------------------------------------------------------------------
(* What was proved of the parts holds of the whole. *)

LEMMA SameProperty == Proved!ControlInv => Control!VersionsFit
BY DEF Proved!ControlInv, Proved!VersionsFit, Proved!Explained, Proved!Snapshot, Proved!Names,
   Proved!Want, Proved!Unacceptable, Control!VersionsFit, Control!Explained,
   Control!Snapshot, Control!Names, Control!Want, Control!Unacceptable

\* The version that the agent has, and the one the dashboard is told, fit what its
\* runners were started with (main.go:256-271, manager.go:80, 84-96).
THEOREM AgentVersionsFit == ConstantsFit /\ AgentSpec => []Control!VersionsFit
<1>1. AgentInv => Control!VersionsFit
  BY SameProperty DEF AgentInv
<1>2. QED
  BY <1>1, AgentInvCorrect, PTL

\* The manager loses no runner to the order of polls and tasks, nor to a restart
\* (manager.go:46-78, 115-147).
THEOREM AgentKeepsRunners ==
  ConstantsFit /\ AgentSpec => []OneRunnerPerTunnel /\ []RegisteredRunners
<1>1. AgentInv => OneRunnerPerTunnel /\ RegisteredRunners
  BY DEF AgentInv, ManagerInv
<1>2. QED
  BY <1>1, AgentInvCorrect, PTL

\* Whoever applies a state, a tunnel that it leaves as it is keeps its runner; and none
\* is shown as stopped by its own one (manager.go:55-78, 129-137, 203-222).
THEOREM AgentSparesTunnels ==
  ConstantsFit /\ AgentSpec => []StoppedIsForeign /\ NoNeedlessRestart
<1> DEFINE Keeps == \A id \in Ids : Registered(id) /\ instances'[id] # instances[id] =>
                      InForce'[id] # InForce[id]
<1>1. ASSUME AgentInv, StoppedIsForeign, [AgentNext]_agentVars
      PROVE  StoppedIsForeign' /\ [Keeps]_vars
  <2>1. ASSUME [Next]_vars PROVE StoppedIsForeign' /\ [Keeps]_vars
    BY <1>1, <2>1, NextStopped, NextKeeps DEF AgentInv
  <2>2. ASSUME NEW v \in Versions, ApplyDesiredState(v) PROVE [Next]_vars
    <3>1. State[v].tunnels \in DesiredStates /\ State[v].replace \in BOOLEAN
      BY <1>1 DEF AgentInv, ConstantsFit
    <3>2. QED
      BY <2>2, <3>1 DEF ApplyDesiredState, Next, Manager
  <2>3. CASE LoopApplies
    BY <1>1, <2>1, <2>2, <2>3, InHand DEF LoopApplies
  <2>4. ASSUME NEW t \in Tasks, SyncApplies(t) PROVE StoppedIsForeign' /\ [Keeps]_vars
    BY <1>1, <2>1, <2>2, <2>4, InHand DEF SyncApplies
  <2>5. CASE ControlGoesOn \/ UNCHANGED agentVars
    BY <2>1, <2>5 DEF ControlGoesOn, agentVars
  <2>6. CASE RunnersGoOn
    BY <2>1, <2>6 DEF RunnersGoOn, Next
  <2>7. CASE Restart
    <3>1. StoppedIsForeign'
      BY <2>7 DEF Restart, StoppedIsForeign, Registered
    <3>2. ASSUME NEW id \in Ids, instances[id] # None PROVE InForce'[id] # InForce[id]
      BY <1>1, <2>7, <3>2, VariantsAssumption
         DEF Restart, InForce, Registered, AgentInv, ManagerInv, TypeOK
    <3>3. QED
      BY <3>1, <3>2 DEF Registered
  <2>8. QED
    BY <1>1, <2>3, <2>4, <2>5, <2>6, <2>7 DEF AgentNext
<1>2. AgentInit => StoppedIsForeign
  BY InitStopped DEF AgentInit
<1>3. QED
  BY <1>1, <1>2, AgentInvCorrect, PTL DEF AgentSpec, NoNeedlessRestart
=============================================================================
