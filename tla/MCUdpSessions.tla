---------------------------- MODULE MCUdpSessions ---------------------------
(* Finite instances of UdpSessions. *)
EXTENDS UdpSessions, TLC

\* Sessions and callbacks are identities and nothing else.
MCSymmetry == Permutations(Sessions) \cup Permutations(Calls)
=============================================================================
