--------------------------- MODULE MCTunnelControl --------------------------
(* A finite instance of TunnelControl: two tunnels in four desired states.   *)
(* The first leaves out a tunnel and replaces nothing, the second cannot be  *)
(* carried out in full, the third not at all, the last replaces everything.  *)
EXTENDS TunnelControl, TLC

CONSTANTS t1, t2, plain, other, bad, off

MCState ==
  << [tunnels |-> (t1 :> plain), replace |-> FALSE, nameless |-> FALSE],
     [tunnels |-> (t1 :> other) @@ (t2 :> bad), replace |-> TRUE, nameless |-> FALSE],
     [tunnels |-> (t1 :> plain), replace |-> TRUE, nameless |-> TRUE],
     [tunnels |-> (t2 :> plain), replace |-> TRUE, nameless |-> FALSE] >>
=============================================================================
