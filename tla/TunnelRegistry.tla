--------------------------- MODULE TunnelRegistry ---------------------------
(***************************************************************************)
(* What tunnelmgr.Manager promises to those who push a desired state to    *)
(* it: which tunnels are in force afterwards, for an accepted and for a    *)
(* refused state.  Runners, their connections and their statuses do not    *)
(* exist here.                                                             *)
(***************************************************************************)

CONSTANTS
  Ids,       \* ids of tunnels
  Variants,  \* what may be told of an enabled tunnel besides its id
  Rejected,  \* the variants that cannot be started
  Off,       \* the specification of a disabled tunnel
  NoTunnel,  \* no tunnel
  Versions   \* versions of desired states

VARIABLES
  inForce,   \* the variant of each tunnel that is in force
  version    \* the version of the last accepted state

\* A desired state names some tunnels and what each should be.  One with a tunnel that
\* has no id changes nothing.
DesiredStates == UNION {[D -> Variants \cup {Off}] : D \in SUBSET Ids}

\* What becomes of a tunnel for which the desired state is carried out.
Wanted(desired, replace, id) ==
  IF id \in DOMAIN desired
  THEN IF desired[id] \in Variants \ Rejected THEN desired[id] ELSE NoTunnel
  ELSE IF replace THEN NoTunnel ELSE inForce[id]

Init ==
  /\ inForce = [id \in Ids |-> NoTunnel]
  /\ version = NoTunnel

\* The whole of an acceptable state is carried out, and nothing else.
Accept(desired, replace, v) ==
  /\ \A id \in DOMAIN desired : desired[id] \notin Rejected
  /\ inForce' = [id \in Ids |-> Wanted(desired, replace, id)]
  /\ version' = v

\* A state with a tunnel that cannot be started is carried out in part.  Tunnels
\* it does not name are treated as if it had been accepted.
Refuse(desired, replace) ==
  /\ \E id \in DOMAIN desired : desired[id] \in Rejected
  /\ inForce' \in [Ids -> Variants \cup {NoTunnel}]
  /\ \A id \in Ids :
       \/ inForce'[id] = Wanted(desired, replace, id)
       \/ id \in DOMAIN desired /\ inForce'[id] = inForce[id]
  /\ UNCHANGED version

\* Every tunnel is given up.
CloseAll ==
  /\ inForce' = [id \in Ids |-> NoTunnel]
  /\ UNCHANGED version

Next ==
  \/ \E desired \in DesiredStates, replace \in BOOLEAN :
       \/ \E v \in Versions : Accept(desired, replace, v)
       \/ Refuse(desired, replace)
  \/ CloseAll

Spec == Init /\ [][Next]_<<inForce, version>>
=============================================================================
