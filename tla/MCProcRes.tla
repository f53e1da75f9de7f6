----------------------------- MODULE MCProcRes -----------------------------
(* ProcRes for TLC. *)
EXTENDS ProcRes, TLC

AllFlags == {{}, {"CLONE_VM"}, {"CLONE_VM", "CLONE_FS"}}
Symmetry ==
    Permutations(Procs \ {root}) \cup Permutations(MMs) \cup Permutations(FSs \ {rootfs})
=============================================================================
