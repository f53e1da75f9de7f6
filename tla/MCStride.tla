------------------------------ MODULE MCStride ------------------------------
(* Stride for TLC. *)
EXTENDS Stride
=============================================================================
