----------------------------- MODULE MCSemLock -----------------------------
(* SemLock for TLC: a lock and a counting semaphore. *)
EXTENDS SemLock, TLC

CONSTANTS lock, pool

LockAndPool == (lock :> 1) @@ (pool :> 2)
=============================================================================
