--------------------------- MODULE MCTunnelRunner ---------------------------
(* Finite instances of TunnelRunner. *)
EXTENDS TunnelRunner, TLC

\* Clients and handlers are identities and nothing else.
MCSymmetry == Permutations(Clients) \cup Permutations(Handlers)
=============================================================================
