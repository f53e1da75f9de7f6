------------------------------- MODULE MCProc -------------------------------
(* Proc for TLC: the user processes are interchangeable. *)
EXTENDS Proc, TLC

UserSymmetry == Permutations(Procs \ {idle, init})
=============================================================================
