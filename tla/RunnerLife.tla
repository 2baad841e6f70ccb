----------------------------- MODULE RunnerLife ------------------------------
(***************************************************************************)
(* What the tunnel manager counts on when it starts a runner: the life of  *)
(* clientcore.Runner.Run as seen through its context and the states it     *)
(* publishes.  TunnelManager lets its runners behave like this;            *)
(* TunnelRunner, which models Run itself, implements it.                   *)
(***************************************************************************)

VARIABLES
  life,      \* "new", "run" or "done"
  cancelled, \* the context was cancelled
  shown      \* the state published last

vars == <<life, cancelled, shown>>

\* What a runner publishes while it runs.
RunStates == {"connecting", "active", "degraded", "error"}

Init ==
  /\ life = "new"
  /\ cancelled = FALSE
  /\ shown = "pending"

Cancel ==
  /\ cancelled' = TRUE
  /\ UNCHANGED <<life, shown>>

Begin ==
  /\ life = "new"
  /\ life' = "run"
  /\ UNCHANGED <<cancelled, shown>>

\* Only before it has begun may a runner end without being told to.
GiveUp ==
  /\ life = "new"
  /\ life' = "done"
  /\ shown' = "error"
  /\ UNCHANGED cancelled

Publish ==
  /\ life = "run"
  /\ shown' \in RunStates
  /\ UNCHANGED <<life, cancelled>>

\* A runner stops only when cancelled; "stopped" is the last it publishes.
Stop ==
  /\ life = "run"
  /\ cancelled
  /\ life' = "done"
  /\ shown' = "stopped"
  /\ UNCHANGED cancelled

Next == Cancel \/ Begin \/ GiveUp \/ Publish \/ Stop

Spec == Init /\ [][Next]_vars
=============================================================================
