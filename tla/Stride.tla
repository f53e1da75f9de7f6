------------------------------- MODULE Stride -------------------------------
(***************************************************************************)
(* The scheduling class of the kernel, kern/schedule/default_sched_stride.c *)
(* on the skew heap of libs/skew_heap.h, under schedule() and wakeup_proc() *)
(* of sched.c: processes that are forked, use up their time slices, sleep, *)
(* wake up and exit.                                                       *)
(* Strides are unsigned numbers of a fixed width that wrap around and are  *)
(* compared by their signed difference.                                    *)
(***************************************************************************)
EXTENDS Integers, FiniteSetsExt, SequencesExt

CONSTANTS
    Procs, init,    \* processes besides idle; the one that is there from the start
    IDLE,           \* idleproc, which is never in the pool
    Wrap,           \* 2^32: strides are taken modulo this
    BIG_STRIDE,
    Priorities,     \* bound: what lab6_set_priority is called with
    MAX_TIME_SLICE,
    NULL

ASSUME StrideAssumption ==
    /\ IsFiniteSet(Procs) /\ init \in Procs /\ {IDLE, NULL} \cap Procs = {}
    /\ {Wrap, BIG_STRIDE, MAX_TIME_SLICE} \subseteq Nat \ {0} /\ Priorities \subseteq Nat
    /\ 3 * BIG_STRIDE < Wrap  \* it is 4 * BIG_STRIDE; see StridesInWindow

VARIABLES
    current,
    state,                 \* "none", "RUNNABLE" or "SLEEPING"
    lab6_stride, lab6_priority, time_slice,
    lab6_run_pool,         \* the heap: its root, and the pointers of the nodes
    proc_num,              \* rq->proc_num
    steady                 \* history: who came into the pool was within BIG_STRIDE of all

stride_vars == <<current, state, lab6_stride, lab6_priority, time_slice, lab6_run_pool,
                 proc_num, steady>>
Nodes == Procs \cup {NULL}
-----------------------------------------------------------------------------
\* (int32_t)(a - b)
Signed(d) == LET m == d % Wrap IN IF 2 * m >= Wrap THEN m - Wrap ELSE m

\* Mutant: unsigned comparison.
proc_stride_comp_f_unsigned(stride, p, q) == IF stride[p] < stride[q] THEN -1 ELSE 1

proc_stride_comp_f(stride, p, q) ==
    LET c == Signed(stride[p] - stride[q]) IN IF c > 0 THEN 1 ELSE IF c = 0 THEN 0 ELSE -1

\* Mutant: the subheaps are not swapped, and what is merged takes the place of the left one.
Above_dropping(heap, p, m) ==
    [m EXCEPT !.root = p, !.left[p] = m.root,
              !.parent = IF m.root = NULL THEN @ ELSE [@ EXCEPT ![m.root] = p]]

\* p heads the merge m of what was to its right: its left subheap goes to the right
Above(heap, p, m) ==
    [m EXCEPT !.root = p, !.left[p] = m.root, !.right[p] = heap.left[p],
              !.parent = IF m.root = NULL THEN @ ELSE [@ EXCEPT ![m.root] = p]]

skew_heap_merge(stride, heap, a, b) ==
    LET merge[x \in Nodes \X Nodes] ==
            LET p == x[1]
                q == x[2]
            IN IF p = NULL THEN [heap EXCEPT !.root = q]
               ELSE IF q = NULL THEN [heap EXCEPT !.root = p]
               ELSE IF proc_stride_comp_f(stride, p, q) = -1
               THEN Above(heap, p, merge[<<heap.right[p], q>>])
               ELSE Above(heap, q, merge[<<p, heap.right[q]>>])
    IN merge[<<a, b>>]

skew_heap_init(heap, p) ==
    [heap EXCEPT !.left[p] = NULL, !.right[p] = NULL, !.parent[p] = NULL]

skew_heap_insert(stride, heap, p) ==
    skew_heap_merge(stride, skew_heap_init(heap, p), heap.root, p)

\* skew_heap_remove.  What p keeps of its pointers is not read before skew_heap_init
\* and is NULL here.
skew_heap_remove(stride, heap, p) ==
    LET above == heap.parent[p]
        m == skew_heap_merge(stride, heap, heap.left[p], heap.right[p])
    IN skew_heap_init(
         [m EXCEPT !.root = IF above = NULL THEN @ ELSE heap.root,
                   !.left = IF above # NULL /\ m.left[above] = p
                            THEN [@ EXCEPT ![above] = m.root] ELSE @,
                   !.right = IF above # NULL /\ m.left[above] # p
                             THEN [@ EXCEPT ![above] = m.root] ELSE @,
                   !.parent = IF m.root = NULL THEN @ ELSE [@ EXCEPT ![m.root] = above]],
         p)

\* the processes in a heap
Members(heap) ==
    LET below[p \in Nodes] ==
            IF p = NULL THEN {} ELSE {p} \cup below[heap.left[p]] \cup below[heap.right[p]]
    IN below[heap.root]
-----------------------------------------------------------------------------
(* The functions below map states of the run queue to states.              *)
Rq == [pool |-> lab6_run_pool, num |-> proc_num, slice |-> time_slice, stride |-> lab6_stride]

stride_enqueue(rq, p) ==
    [pool |-> skew_heap_insert(rq.stride, rq.pool, p),
     num |-> rq.num + 1,
     slice |-> [rq.slice EXCEPT ![p] = IF @ = 0 \/ @ > MAX_TIME_SLICE THEN MAX_TIME_SLICE ELSE @],
     stride |-> rq.stride]

\* Mutant: a priority of 0 counts as the highest.
pass_zero(priority) == IF priority = 0 THEN 0 ELSE BIG_STRIDE \div priority

\* what a process that is picked adds to its stride
pass(priority) == IF priority = 0 THEN BIG_STRIDE ELSE BIG_STRIDE \div priority

\* stride_pick_next and stride_dequeue of the root of the heap
pick_next(rq) ==
    LET p == rq.pool.root
        passed == [rq.stride EXCEPT ![p] = (@ + pass(lab6_priority[p])) % Wrap]
    IN [pool |-> skew_heap_remove(passed, rq.pool, p), num |-> rq.num - 1,
        slice |-> rq.slice, stride |-> passed]

\* schedule(): stays is FALSE when current goes to sleep or exits
schedule(rq, stays) ==
    \E q \in {IF stays /\ current # IDLE THEN stride_enqueue(rq, current) ELSE rq} :
    \E r \in {IF q.pool.root = NULL THEN q ELSE pick_next(q)} :
        /\ lab6_run_pool' = r.pool /\ proc_num' = r.num
        /\ time_slice' = r.slice /\ lab6_stride' = r.stride
        /\ current' = IF q.pool.root = NULL THEN IDLE ELSE q.pool.root

\* sched_class_proc_tick and, when the slice is used up, schedule() on the way back
\* from the interrupt
tick ==
    /\ UNCHANGED <<state, lab6_priority, steady>>
    /\ LET left == IF current = IDLE THEN 0 ELSE Max({time_slice[current] - 1, 0})
           rq == IF current = IDLE THEN Rq ELSE [Rq EXCEPT !.slice[current] = left]
       IN IF left = 0 THEN schedule(rq, TRUE)
          ELSE /\ time_slice' = rq.slice
               /\ UNCHANGED <<current, lab6_stride, lab6_run_pool, proc_num>>

\* do_yield: the rest of the time slice is kept
do_yield ==
    /\ current # IDLE /\ schedule(Rq, TRUE)
    /\ UNCHANGED <<state, lab6_priority, steady>>

\* do_sleep, do_wait, down: current goes to sleep
sleep ==
    /\ current # IDLE
    /\ state' = [state EXCEPT ![current] = "SLEEPING"]
    /\ schedule(Rq, FALSE)
    /\ UNCHANGED <<lab6_priority, steady>>

\* do_exit; the proc_struct goes
do_exit ==
    /\ current \notin {IDLE, init}
    /\ state' = [state EXCEPT ![current] = "none"]
    /\ lab6_priority' = [lab6_priority EXCEPT ![current] = 0]
    /\ schedule([Rq EXCEPT !.stride[current] = 0, !.slice[current] = 0], FALSE)
    /\ UNCHANGED steady

Near(p, q) == Signed(lab6_stride[p] - lab6_stride[q]) \in -BIG_STRIDE..BIG_STRIDE

\* p comes into the pool
enter(p) ==
    LET rq == stride_enqueue(Rq, p)
    IN /\ lab6_run_pool' = rq.pool /\ proc_num' = rq.num /\ time_slice' = rq.slice
       /\ state' = [state EXCEPT ![p] = "RUNNABLE"]
       /\ steady' = (steady /\ \A q \in Procs : state[q] = "RUNNABLE" => Near(p, q))
       /\ UNCHANGED lab6_stride

\* wakeup_proc of a process that sleeps
wakeup_proc(p) ==
    /\ state[p] = "SLEEPING" /\ enter(p)
    /\ UNCHANGED <<current, lab6_priority>>

\* lab6_set_priority, with 0 taken for 1
lab6_set_priority(n) ==
    /\ current # IDLE
    /\ lab6_priority' = [lab6_priority EXCEPT ![current] = IF n = 0 THEN 1 ELSE n]
    /\ UNCHANGED <<current, state, lab6_stride, time_slice, lab6_run_pool, proc_num, steady>>

\* do_fork: alloc_proc, all zero, and wakeup_proc
do_fork(p) ==
    /\ current # IDLE /\ state[p] = "none"
    /\ enter(p)
    /\ UNCHANGED <<current, lab6_priority>>

\* init runs
StrideInit ==
    /\ current = init
    /\ state = [p \in Procs |-> IF p = init THEN "RUNNABLE" ELSE "none"]
    /\ lab6_stride = [p \in Procs |-> 0] /\ lab6_priority = [p \in Procs |-> 0]
    /\ time_slice = [p \in Procs |-> IF p = init THEN MAX_TIME_SLICE ELSE 0]
    /\ LET none == [p \in Procs |-> NULL]
       IN lab6_run_pool = [root |-> NULL, left |-> none, right |-> none, parent |-> none]
    /\ proc_num = 0
    /\ steady = TRUE

StrideNext ==
    \/ tick \/ do_yield \/ sleep \/ do_exit
    \/ \E n \in Priorities : lab6_set_priority(n)
    \/ \E p \in Procs : wakeup_proc(p) \/ do_fork(p)

StrideSpec == StrideInit /\ [][StrideNext]_stride_vars
FairSpec == StrideSpec /\ WF_stride_vars(tick)
-----------------------------------------------------------------------------
\* The heap holds exactly the processes that are runnable and not running, each
\* once, and proc_num counts them: no merge loses one.
PoolExact ==
    /\ Members(lab6_run_pool) = {p \in Procs : state[p] = "RUNNABLE" /\ p # current}
    /\ proc_num = Cardinality(Members(lab6_run_pool))

Queued == {p \in Procs : state[p] = "RUNNABLE"}

\* As long as nobody comes back from a sleep with a stride too old, the strides of
\* the runnable processes stay within BIG_STRIDE of each other, however they wrap, so
\* their signed differences order them and the root of the heap has the smallest.
\* (Differences of at most BIG_STRIDE only add up along a circle of three if a third of
\* it is more than that: with BIG_STRIDE = 0x7FFFFFFF, three strides could each be
\* before the next.)
StridesInWindow ==
    steady =>
        /\ \A p, q \in Queued : Near(p, q)
        /\ lab6_run_pool.root # NULL =>
              \A p \in Members(lab6_run_pool) :
                  Signed(lab6_stride[p] - lab6_stride[lab6_run_pool.root]) >= 0

\* a step in which nobody wakes up or is forked
NoneJoins == \A p \in Procs : state'[p] = "RUNNABLE" => state[p] = "RUNNABLE"

\* Every process that is ready to run runs in the end, under timer interrupts that
\* keep coming, once processes have stopped joining the pool, even if some of them
\* came with strides too old to compare.  Whoever keeps joining may starve another.
EveryoneRuns ==
    <>[][NoneJoins]_stride_vars =>
        [](\A p \in Procs : state[p] = "RUNNABLE" => <>(current = p))
=============================================================================
