--------------------------- MODULE MCAgentSession ---------------------------
(* Finite instances of AgentSession. *)
EXTENDS AgentSession, TLC

\* A session is an identity and nothing else.
MCSymmetry == Permutations(Slots)
=============================================================================
