----------------------------- MODULE TimerSpec -----------------------------
(***************************************************************************)
(* What timer_list promises (kern/schedule/sched.h, sched.c): a timer      *)
(* added with time t wakes its process at the t-th tick after that, unless *)
(* it is deleted first; other timers have no influence on it.              *)
(***************************************************************************)
EXTENDS Naturals

CONSTANTS Timers, MaxTime

VARIABLES
    remaining,  \* ticks to go; 0 for a timer that is not pending
    wakes       \* the timers whose process the last step woke

Init == remaining = [t \in Timers |-> 0] /\ wakes = {}

Add(t, time) ==
    /\ remaining[t] = 0
    /\ remaining' = [remaining EXCEPT ![t] = time]
    /\ wakes' = {}

Delete(t) ==
    /\ remaining' = [remaining EXCEPT ![t] = 0]
    /\ wakes' = {}

Tick ==
    /\ remaining' = [t \in Timers |-> IF remaining[t] = 0 THEN 0 ELSE remaining[t] - 1]
    /\ wakes' = {t \in Timers : remaining[t] = 1}

Next ==
    \/ Tick
    \/ \E t \in Timers : Delete(t) \/ \E time \in 1..MaxTime : Add(t, time)

Spec == Init /\ [][Next]_<<remaining, wakes>>
=============================================================================
