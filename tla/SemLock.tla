------------------------------ MODULE SemLock ------------------------------
(***************************************************************************)
(* The semaphores of module Sem used as locks and as counters of           *)
(* resources: a process calls down or try_down for a permit and up to      *)
(* return it.  This is how the kernel uses mm_sem, the fs_sem and          *)
(* mutex_sem of SFS, the sem of an inode, files_sem and disk0_sem.         *)
(***************************************************************************)
EXTENDS Sem

VARIABLES
    holds,   \* the permits of a process: given by down, by try_down, or handed over by up
    waiting  \* the semaphore whose down() a process is in, NULL otherwise

lock_vars == <<value, wait_queue, wait_state, wakeup_flags, holds, waiting>>

LocksInit ==
    /\ SemInit
    /\ holds = [p \in Procs |-> {}]
    /\ waiting = [p \in Procs |-> NULL]

\* p executes code outside sem.c
Running(p) == Runnable(p) /\ waiting[p] = NULL

\* down with a permit, and try_down
down(p, s) ==
    /\ Running(p) /\ s \notin holds[p]
    /\ down_take(s)
    /\ holds' = [holds EXCEPT ![p] = @ \cup {s}]
    /\ UNCHANGED waiting

\* down without a permit
down_wait(p, s) ==
    /\ Running(p) /\ s \notin holds[p]
    /\ down_block(p, s)
    /\ waiting' = [waiting EXCEPT ![p] = s]
    /\ UNCHANGED holds

\* the rest of down after schedule(); up() has already given it the permit
down_return(p) ==
    /\ waiting[p] # NULL
    /\ down_resume(p, waiting[p])
    /\ waiting' = [waiting EXCEPT ![p] = NULL]
    /\ UNCHANGED holds

\* up: with a waiter the permit changes hands
up(p, s) ==
    /\ Running(p) /\ s \in holds[p]
    /\ \/ /\ up_wake(s)
          /\ holds' = [holds EXCEPT ![p] = @ \ {s},
                                    ![wait_queue_first(s)] = @ \cup {s}]
       \/ /\ up_add(s)
          /\ holds' = [holds EXCEPT ![p] = @ \ {s}]
    /\ UNCHANGED waiting

LocksNext == \E p \in Procs :
            \/ down_return(p)
            \/ \E s \in Sems : down(p, s) \/ down_wait(p, s) \/ up(p, s)

LocksSpec == LocksInit /\ [][LocksNext]_lock_vars

(* A runnable process gets the CPU, and whoever has a permit and is not       *)
(* itself blocked returns it.  With more than one semaphore this says nothing *)
(* about the order in which a process takes them.                             *)
Fairness ==
    \A p \in Procs : /\ WF_lock_vars(down_return(p))
                     /\ \A s \in Sems : WF_lock_vars(up(p, s))

FairSpec == LocksSpec /\ Fairness
-----------------------------------------------------------------------------
TypeOK ==
    /\ SemTypeOK
    /\ holds \in [Procs -> SUBSET Sems]
    /\ waiting \in [Procs -> Sems \cup {NULL}]

Holders(s) == {p \in Procs : s \in holds[p]}

\* No permit is created or lost, whatever mixture of takers and sleepers there
\* is: the free permits and the holders add up to what sem_init gave.  For a
\* lock (initial value 1) this is mutual exclusion.
PermitsConserved ==
    \A s \in Sems : value[s] + Cardinality(Holders(s)) = InitialValue[s]

\* No lost wake-up: nobody sleeps on a semaphore that has a free permit.
NoSleeperWithPermit ==
    \A s \in Sems : wait_queue[s] # <<>> => value[s] = 0

\* A process sleeps in down() exactly while its wait_t is in the queue of that
\* semaphore, once, and in no other queue: __up's assertion on wait_state holds.
QueueMatchesSleepers ==
    /\ \A s \in Sems : \A i, j \in 1..Len(wait_queue[s]) :
          wait_queue[s][i] = wait_queue[s][j] => i = j
    /\ \A p \in Procs, s \in Sems :
          InQueue(p, s) <=> wait_state[p] = "WT_KSEM" /\ waiting[p] = s

\* The assertion of down(): whoever comes back from schedule() was woken by up()
\* and has the permit.
DownReturnsZero ==
    \A p \in Procs : waiting[p] # NULL /\ Runnable(p) =>
        wakeup_flags[p] = "WT_KSEM" /\ waiting[p] \in holds[p]

\* First come, first served: permits are handed over in the order of arrival.
HandoverInOrder ==
    [][\A s \in Sems : wait_queue[s] # wait_queue'[s] =>
          \/ \E p \in Procs : wait_queue'[s] = Append(wait_queue[s], p)
          \/ /\ wait_queue'[s] = Tail(wait_queue[s])
             /\ s \in holds'[Head(wait_queue[s])]]_lock_vars

\* Nobody sleeps on one semaphore with a permit of another in its hands.
NoNesting == \A q \in Procs : ~Runnable(q) => holds[q] = {}

\* Nobody waits for ever while the holders keep returning their permits: the
\* only way to block a waiter is a process that goes to sleep with a permit.
WaiterServed ==
    <>[]NoNesting => \A p \in Procs, s \in Sems : InQueue(p, s) ~> s \in holds[p]
=============================================================================
