-------------------------------- MODULE DoTask ---------------------------------
(***************************************************************************)
(* What the agent does besides its session and its tunnels (cmd/agent):    *)
(* doTask hands a task to the component for its type, which share nothing  *)
(* but the process, and preRun reads the configuration before any of them. *)
(* A behaviour is about one of them.  The liveness properties of a         *)
(* component name the fairness they need as a hypothesis.                  *)
(***************************************************************************)
EXTENDS SelfUpdate, CommandTask, IOStreams, RoundTripper, Configuration

VARIABLE task  \* the component at work

taskVars == <<task, vars, commandVars, streamVars, queryVars, configVars>>

Components == {"upgrade", "command", "stream", "query", "config"}

TaskInit ==
  /\ task \in Components
  /\ Init
  /\ CommandInit
  /\ IF task = "stream" THEN StreamInit
     ELSE StreamInit /\ use = "files" /\ homely /\ polite
  /\ IF task = "query" THEN QueryInit
     ELSE QueryInit /\ server = "h2" /\ found
  /\ IF task = "config" THEN ConfigInit
     ELSE ConfigInit /\ env /\ idx /\ named /\ file.text = "absent"

\* A component that is done, or has no identities left, may stay so.
TaskOver ==
  \/ task = "command" /\ CommandOver
  \/ task = "stream" /\ StreamOver
  \/ task = "config" /\ made = MaxFresh /\ UNCHANGED configVars

TaskNext ==
  \/ TaskOver /\ UNCHANGED taskVars
  \/ /\ task = "upgrade" /\ Next
     /\ UNCHANGED <<task, commandVars, streamVars, queryVars, configVars>>
  \/ /\ task = "command" /\ CommandNext
     /\ UNCHANGED <<task, vars, streamVars, queryVars, configVars>>
  \/ /\ task = "stream" /\ StreamNext
     /\ UNCHANGED <<task, vars, commandVars, queryVars, configVars>>
  \/ /\ task = "query" /\ QueryNext
     /\ UNCHANGED <<task, vars, commandVars, streamVars, configVars>>
  \/ /\ task = "config" /\ ConfigNext
     /\ UNCHANGED <<task, vars, commandVars, streamVars, queryVars>>

TaskSpec == TaskInit /\ [][TaskNext]_taskVars

\* Every variable has its type.
TasksTypeOK ==
  /\ task \in Components
  /\ TypeOK
  /\ CommandTypeOK
  /\ StreamTypeOK
  /\ QueryTypeOK
  /\ ConfigTypeOK
=============================================================================
