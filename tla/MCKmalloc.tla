----------------------------- MODULE MCKmalloc -----------------------------
(* Kmalloc for TLC. *)
EXTENDS Kmalloc

MCNULL == -1
=============================================================================
