------------------------------ MODULE MCFiles ------------------------------
(* Files for TLC. *)
EXTENDS Files, TLC

Symmetry == Permutations(Procs \ {first}) \cup Permutations(Tabs \ {ftab})
=============================================================================
