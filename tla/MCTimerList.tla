---------------------------- MODULE MCTimerList ----------------------------
(* TimerList for TLC: the timers are interchangeable. *)
EXTENDS TimerList, TLC

TimerSymmetry == Permutations(Timers)
=============================================================================
