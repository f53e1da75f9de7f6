----------------------------- MODULE MCSfsFile -----------------------------
(* SfsFile for TLC. *)
EXTENDS SfsFile, TLC

Symmetry == Permutations(Fds)
=============================================================================
