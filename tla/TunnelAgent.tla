----------------------------- MODULE TunnelAgent ------------------------------
(***************************************************************************)
(* The tunnel side of the agent put together: the control loop and the     *)
(* TunnelSync tasks of TunnelControl (cmd/agent/main.go), with the manager *)
(* and its runners (TunnelManager) in the place of TunnelRegistry.         *)
(*                                                                         *)
(* Here a desired state is reconciled with what the runners have come to,  *)
(* and takes its time to reach them.  Nobody calls Manager.Close.          *)
(***************************************************************************)
EXTENDS TunnelManager, Naturals

CONSTANTS
  Latest,      \* how many desired states the dashboard comes to have
  State,       \* each of them: its tunnels, whether it replaces all others, and whether
               \* one more tunnel of it has no id
  Tasks,       \* identities of TunnelSync tasks
  MaxRestarts  \* how often the agent may be restarted

\* What TunnelControl assumes of these constants.
ConstantsFit ==
  /\ Latest \in Nat \ {0}
  /\ MaxRestarts \in Nat
  /\ Versions = 1..Latest
  /\ State \in [Versions -> [tunnels : DesiredStates, replace : BOOLEAN, nameless : BOOLEAN]]

VARIABLES wanted, url, locked, reloading, loop, tasks, told, restarts  \* as in TunnelControl

configVars == <<url, locked, reloading>>
controlVars == <<wanted, configVars, loop, tasks, told, restarts>>
agentVars == <<vars, controlVars>>

Control == INSTANCE TunnelControl WITH inForce <- InForce, version <- lastVersion

AgentInit ==
  /\ Init
  /\ Control!Init

-----------------------------------------------------------------------------
(* Steps that call the manager. *)

\* The state is refused at once because of a tunnel without an id, carried out, or
\* refused half-way.
ApplyDesiredState(v) ==
  IF State[v].nameless
  THEN UNCHANGED vars
  ELSE \/ ApplyAccepted(State[v].tunnels, State[v].replace, v)
       \/ ApplyRefused(State[v].tunnels, State[v].replace)

LoopApplies ==
  /\ loop.at = "got"
  /\ ApplyDesiredState(loop.v)
  /\ loop' = [loop EXCEPT !.at = "applied", !.v = 1]
  /\ UNCHANGED <<wanted, configVars, tasks, told, restarts>>

SyncApplies(t) ==
  /\ tasks[t].at = "admitted"
  /\ ApplyDesiredState(tasks[t].v)
  /\ tasks' = [tasks EXCEPT ![t] = Control!NoTask]
  /\ UNCHANGED <<wanted, configVars, loop, told, restarts>>

\* The process ends with all its goroutines, and is started again.
Restart ==
  /\ restarts < MaxRestarts
  /\ restarts' = restarts + 1
  /\ instances' = [id \in Ids |-> None]
  /\ lastVersion' = None
  /\ status' = [id \in Ids |-> NoStatus]
  /\ pc' = [r \in Runners |-> "done"]
  /\ cancelled' = [r \in Runners |-> TRUE]
  /\ loop' = Control!Starting
  /\ tasks' = [t \in Tasks |-> Control!NoTask]
  /\ url' \in BOOLEAN
  /\ locked' \in BOOLEAN
  /\ reloading' = FALSE
  /\ UNCHANGED <<owner, variant, wanted, told>>

-----------------------------------------------------------------------------

\* What the loop, the tasks, the dashboard and the configuration do meanwhile.
\* Only LoopTakesSnapshot looks at the manager.
ControlGoesOn ==
  /\ UNCHANGED vars
  /\ \/ Control!Decide
     \/ Control!ConfigAdmitted
     \/ Control!Reconfigure
     \/ Control!LoopStarts
     \/ Control!Asks
     \/ Control!Fetched
     \/ Control!FetchFails
     \/ Control!LoopTakesSnapshot
     \/ Control!Pushed
     \/ Control!PushFails
     \/ Control!Tick
     \/ \E t \in Tasks :
          \/ Control!SyncSent(t)
          \/ Control!SyncAdmitted(t)
          \/ Control!SyncRefuses(t)
          \/ Control!SyncLost(t)

RunnersGoOn ==
  /\ \E r \in Runners : Runner(r)
  /\ UNCHANGED controlVars

AgentNext ==
  \/ LoopApplies
  \/ \E t \in Tasks : SyncApplies(t)
  \/ ControlGoesOn
  \/ RunnersGoOn
  \/ Restart

AgentSpec == AgentInit /\ [][AgentNext]_agentVars

-----------------------------------------------------------------------------
(* Properties. *)

\* With real runners, of which cancelled ones go on, loop and tasks have the manager
\* behave as TunnelControl takes it to behave, request by request, restarts included:
\* what is said of versions and tunnels there is true of the agent
\* (main.go:256-271, 971-985, manager.go:34-105).
ImplementsControl == Control!Spec
=============================================================================
