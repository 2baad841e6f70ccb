------------------------------- MODULE MCDoTask -------------------------------
(* A finite instance of DoTask: a process with its periodic check and an      *)
(* Upgrade task, and a second process with its check; two downloads; two      *)
(* requests over two connections; two of the three repositories.              *)
EXTENDS DoTask, TLC

CONSTANTS p1, p2, check1, task1, check2, d1, d2, r1, r2, c1, c2, github, gitee

MCOf == (check1 :> p1) @@ (task1 :> p1) @@ (check2 :> p2)
MCFirst == (github :> 1) @@ (gitee :> 2)
=============================================================================
