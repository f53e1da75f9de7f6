-------------------------------- MODULE Sem --------------------------------
(***************************************************************************)
(* Semaphores (kern/sync/sem.c) on wait queues (kern/sync/wait.c).         *)
(*                                                                         *)
(* The body of __up, the part of __down before schedule() and the part     *)
(* after it each run with interrupts disabled, so each is one step.  Which *)
(* process runs next is left open, also between two steps of kernel code   *)
(* that a kernel without preemption would not separate.                    *)
(*                                                                         *)
(* This module holds the state and the operations; SemLock is a client.    *)
(***************************************************************************)
EXTENDS Integers, Sequences, FiniteSets

CONSTANTS Procs, Sems, InitialValue, NULL

ASSUME SemAssumption ==
    /\ IsFiniteSet(Procs) /\ InitialValue \in [Sems -> Nat]
    /\ NULL \notin Procs \cup Sems

VARIABLES
    value,        \* sem->value
    wait_queue,   \* sem->wait_queue, as the processes whose wait_t is linked
    wait_state,   \* proc->wait_state: "WT_KSEM" while the process sleeps
    wakeup_flags  \* wait->wakeup_flags of the wait_t on the stack of a process

semvars == <<value, wait_queue, wait_state, wakeup_flags>>

\* sem_init of every semaphore
SemInit ==
    /\ value = InitialValue
    /\ wait_queue = [s \in Sems |-> <<>>]
    /\ wait_state = [p \in Procs |-> "0"]
    /\ wakeup_flags = [p \in Procs |-> "0"]

Runnable(p) == wait_state[p] = "0"

\* wait_queue_first
wait_queue_first(s) == IF wait_queue[s] = <<>> THEN NULL ELSE Head(wait_queue[s])

InQueue(p, s) == \E i \in 1..Len(wait_queue[s]) : wait_queue[s][i] = p

\* __down and try_down with a permit at hand
down_take(s) ==
    /\ value[s] > 0
    /\ value' = [value EXCEPT ![s] = @ - 1]
    /\ UNCHANGED <<wait_queue, wait_state, wakeup_flags>>

\* Mutant: the waiter goes to the head of the queue.
wait_current_set_head(p, s) ==
    /\ wait_state' = [wait_state EXCEPT ![p] = "WT_KSEM"]
    /\ wakeup_flags' = [wakeup_flags EXCEPT ![p] = "WT_INTERRUPTED"]
    /\ wait_queue' = [wait_queue EXCEPT ![s] = <<p>> \o @]

\* wait_current_set: initialise the wait_t, go to sleep, join the queue
wait_current_set(p, s) ==
    /\ wait_state' = [wait_state EXCEPT ![p] = "WT_KSEM"]
    /\ wakeup_flags' = [wakeup_flags EXCEPT ![p] = "WT_INTERRUPTED"]
    /\ wait_queue' = [wait_queue EXCEPT ![s] = Append(@, p)]

\* __down up to schedule() when there is none
down_block(p, s) ==
    /\ value[s] = 0
    /\ wait_current_set(p, s)
    /\ UNCHANGED value

\* __down after schedule(): wait_current_del, which finds the wait_t in the queue
\* only if somebody else than __up woke the process
down_resume(p, s) ==
    /\ Runnable(p)
    /\ wait_queue' = IF InQueue(p, s)
                       THEN [wait_queue EXCEPT ![s] = SelectSeq(@, LAMBDA q : q # p)]
                       ELSE wait_queue
    /\ wakeup_flags' = [wakeup_flags EXCEPT ![p] = "0"]
    /\ UNCHANGED <<value, wait_state>>

\* Mutant: the permit is also added to the value.
up_wake_twice(s) ==
    /\ wait_queue[s] # <<>>
    /\ LET p == wait_queue_first(s)
       IN  /\ wait_state' = [wait_state EXCEPT ![p] = "0"]
           /\ wakeup_flags' = [wakeup_flags EXCEPT ![p] = "WT_KSEM"]
    /\ wait_queue' = [wait_queue EXCEPT ![s] = Tail(@)]
    /\ value' = [value EXCEPT ![s] = @ + 1]

\* Mutant: the reason of the wake-up is not recorded.
up_wake_unflagged(s) ==
    /\ wait_queue[s] # <<>>
    /\ wait_state' = [wait_state EXCEPT ![wait_queue_first(s)] = "0"]
    /\ wait_queue' = [wait_queue EXCEPT ![s] = Tail(@)]
    /\ UNCHANGED <<value, wakeup_flags>>

\* __up with a waiter: it gets the permit, the value stays as it is
up_wake(s) ==
    /\ wait_queue[s] # <<>>
    /\ LET p == wait_queue_first(s)
       IN  /\ wait_state' = [wait_state EXCEPT ![p] = "0"]
           /\ wakeup_flags' = [wakeup_flags EXCEPT ![p] = "WT_KSEM"]
    /\ wait_queue' = [wait_queue EXCEPT ![s] = Tail(@)]
    /\ UNCHANGED value

\* __up with nobody waiting
up_add(s) ==
    /\ wait_queue[s] = <<>>
    /\ value' = [value EXCEPT ![s] = @ + 1]
    /\ UNCHANGED <<wait_queue, wait_state, wakeup_flags>>

SemTypeOK ==
    /\ value \in [Sems -> Nat]
    /\ wait_queue \in [Sems -> Seq(Procs)]
    /\ wait_state \in [Procs -> {"0", "WT_KSEM"}]
    /\ wakeup_flags \in [Procs -> {"0", "WT_INTERRUPTED", "WT_KSEM"}]
=============================================================================
