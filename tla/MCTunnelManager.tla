--------------------------- MODULE MCTunnelManager --------------------------
(* A finite instance of TunnelManager. *)
EXTENDS TunnelManager, TLC

\* Runners and ids are identities and nothing else.
MCSymmetry == Permutations(Runners) \cup Permutations(Ids)
=============================================================================
