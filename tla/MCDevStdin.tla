----------------------------- MODULE MCDevStdin -----------------------------
(* DevStdin for TLC: readers are interchangeable. *)
EXTENDS DevStdin, TLC

ReaderSymmetry == Permutations(Readers)
=============================================================================
