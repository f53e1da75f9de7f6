----------------------------- MODULE TimerList -----------------------------
(***************************************************************************)
(* timer_list of kern/schedule/sched.c: pending timers in the order in     *)
(* which they expire, each holding only the difference to the one before.  *)
(* add_timer splits a difference, del_timer merges two, run_timer_list     *)
(* counts the first one down.                                              *)
(***************************************************************************)
EXTENDS Naturals, Sequences, SequencesExt

CONSTANTS
    Timers,   \* the timer_t structs (one per process in do_sleep)
    MaxTime   \* bound: the longest sleep considered

ASSUME TimerAssumption == MaxTime \in Nat \ {0}

VARIABLES
    timer_list,  \* the list, first to expire first
    expires,     \* timer->expires
    wakes        \* the timers whose process the last step woke

timer_vars == <<timer_list, expires, wakes>>

TimersInit ==
    /\ timer_list = <<>>
    /\ expires = [t \in Timers |-> 0]
    /\ wakes = {}

Linked(t) == \E i \in 1..Len(timer_list) : timer_list[i] = t

\* The ticks until the k-th timer of the list expires.
Due(k) ==
    LET sum[i \in 0..Len(timer_list)] == IF i = 0 THEN 0 ELSE sum[i-1] + expires[timer_list[i]]
    IN  sum[k]

\* Where the loop of add_timer stops: before the first timer that expires later.
Place(time) ==
    CHOOSE k \in 0..Len(timer_list) :
        /\ \A i \in 1..k : Due(i) <= time
        /\ k < Len(timer_list) => time < Due(k + 1)

\* The differences after an insertion behind the k-th timer: the new timer
\* keeps what the k timers before it do not cover and takes that from the next.
split(t, k, time) ==
    [u \in Timers |-> IF u = t THEN time - Due(k)
                      ELSE IF k < Len(timer_list) /\ u = timer_list[k + 1]
                           THEN expires[u] - (time - Due(k))
                           ELSE expires[u]]

\* add_timer; do_sleep has initialised the timer with time > 0
add_timer(t, time) ==
    /\ ~Linked(t)
    /\ timer_list' = InsertAt(timer_list, Place(time) + 1, t)
    /\ expires' = split(t, Place(time), time)
    /\ wakes' = {}

\* Mutant: the difference of a deleted timer is lost.
merge_none(i) == [expires EXCEPT ![timer_list[i]] = 0]

\* The differences after the deletion of the i-th timer.
merge(i) ==
    [u \in Timers |-> IF u = timer_list[i] THEN 0
                      ELSE IF i < Len(timer_list) /\ u = timer_list[i + 1]
                           THEN expires[u] + expires[timer_list[i]]
                           ELSE expires[u]]

\* del_timer of a pending timer, by a process that was woken by somebody else
del_timer(t) ==
    /\ \E i \in 1..Len(timer_list) :
          /\ timer_list[i] = t
          /\ timer_list' = RemoveAt(timer_list, i)
          /\ expires' = merge(i)
    /\ wakes' = {}

\* del_timer of a timer that has expired or was never added: nothing to do
del_timer_unlinked(t) ==
    /\ ~Linked(t)
    /\ wakes' = {}
    /\ UNCHANGED <<timer_list, expires>>

\* Mutant: only the first timer expires.
expired_first == IF timer_list # <<>> /\ expires[Head(timer_list)] = 1 THEN 1 ELSE 0

\* How many timers the loop of run_timer_list takes off: the first one when it
\* is down to its last tick, and those behind it that expire together with it.
expired ==
    CHOOSE n \in 0..Len(timer_list) :
        /\ \A i \in 1..n : Due(i) = 1
        /\ n < Len(timer_list) => Due(n + 1) # 1

\* run_timer_list: nothing to do, or count the first timer down and wake the
\* processes whose timers have run out
run_timer_list ==
    /\ timer_list' = SubSeq(timer_list, expired + 1, Len(timer_list))
    /\ expires' = [u \in Timers |->
                     IF timer_list # <<>> /\ u = Head(timer_list) THEN expires[u] - 1
                     ELSE expires[u]]
    /\ wakes' = {timer_list[i] : i \in 1..expired}

TimersNext ==
    \/ run_timer_list
    \/ \E t \in Timers : del_timer(t) \/ del_timer_unlinked(t)
    \/ \E t \in Timers, time \in 1..MaxTime : add_timer(t, time)

TimersSpec == TimersInit /\ [][TimersNext]_timer_vars
-----------------------------------------------------------------------------
\* The assertion of run_timer_list: the first timer is never at 0, so counting
\* it down cannot wrap around.
FirstNotExpired == timer_list # <<>> => expires[Head(timer_list)] # 0

Remaining ==
    [t \in Timers |-> IF Linked(t) THEN Due(CHOOSE i \in 1..Len(timer_list) : timer_list[i] = t)
                      ELSE 0]

\* The list implements independent count-downs, each of which wakes its own
\* process at its own tick and at no other.
Abstract == INSTANCE TimerSpec WITH remaining <- Remaining
ImplementsTimerSpec == Abstract!Spec
=============================================================================
