-------------------------------- MODULE Proc --------------------------------
(***************************************************************************)
(* The life cycle of processes (kern/process/proc.c) on top of the core of *)
(* the scheduler (kern/schedule/sched.c) and of the trap path that leads   *)
(* to both (kern/trap/trap.c).                                             *)
(*                                                                         *)
(* The machine has one CPU.  A system call runs with interrupts disabled,  *)
(* so a process gives up the CPU only inside schedule(): a step of this    *)
(* module is a stretch of kernel code between two such points, or one      *)
(* iteration of a loop in it.  `resched' is TRUE while the current process *)
(* is inside schedule(); pc[p] says where p continues when it has the CPU. *)
(* The timer interrupt can hit user code, idle, and init (a kernel thread, *)
(* which runs with interrupts enabled).                                    *)
(***************************************************************************)
EXTENDS Integers, FiniteSets

CONSTANTS
    Procs,       \* the proc_structs the kernel can allocate
    idle, init,  \* idleproc and initproc
    NULL,        \* the null pointer; also the pid 0 given to do_wait
    MAX_PROCESS  \* the limit on nr_process

ASSUME ProcsAssumption ==
    /\ idle \in Procs /\ init \in Procs /\ idle # init
    /\ IsFiniteSet(Procs) /\ NULL \notin Procs
    /\ MAX_PROCESS \in Nat

VARIABLES
    state,       \* proc->state, "FREE" when the struct is not allocated
    wait_state,  \* proc->wait_state
    exiting,     \* proc->flags & PF_EXITING
    parent, cptr, yptr, optr,   \* the process tree
    need_resched,
    runq,        \* the processes in the run queue rq
    current,
    nr_process,
    timers,      \* the processes whose do_sleep timer is in timer_list
    waitpid,     \* the argument of the do_wait a process is in
    pc, resched

links == <<parent, cptr, yptr, optr>>
vars == <<state, wait_state, exiting, parent, cptr, yptr, optr, need_resched,
          runq, current, nr_process, timers, waitpid, pc, resched>>

Ptr == Procs \cup {NULL}
States == {"FREE", "SLEEPING", "RUNNABLE", "ZOMBIE"}
Waits == {"0", "WT_CHILD", "WT_TIMER"}
Locations == {"none", "idle", "start", "user", "trapret", "wait", "waitret",
              "sleepret", "reparent", "dead", "done", "panic"}

\* WT_CHILD and WT_TIMER carry the bit WT_INTERRUPTED.
Interrupted(w) == w # "0"

\* proc_init: idle runs, init_main is forked and waits for its first turn.
Init ==
    /\ state = [p \in Procs |-> IF p \in {idle, init} THEN "RUNNABLE" ELSE "FREE"]
    /\ wait_state = [p \in Procs |-> "0"]
    /\ exiting = [p \in Procs |-> FALSE]
    /\ parent = [p \in Procs |-> IF p = init THEN idle ELSE NULL]
    /\ cptr = [p \in Procs |-> IF p = idle THEN init ELSE NULL]
    /\ yptr = [p \in Procs |-> NULL]
    /\ optr = [p \in Procs |-> NULL]
    /\ need_resched = [p \in Procs |-> p = idle]
    /\ runq = {init}
    /\ current = idle
    /\ nr_process = 2
    /\ timers = {}
    /\ waitpid = [p \in Procs |-> NULL]
    /\ pc = [p \in Procs |-> IF p = idle THEN "idle" ELSE IF p = init THEN "start" ELSE "none"]
    /\ resched = FALSE
-----------------------------------------------------------------------------
(* The scheduler. *)

\* Mutant: wait_state keeps its old value.
wakeup_proc_stale(W) ==
    /\ state' = [p \in Procs |-> IF p \in W THEN "RUNNABLE" ELSE state[p]]
    /\ runq' = runq \cup (W \ {current, idle})
    /\ UNCHANGED wait_state

\* wakeup_proc for every process of W: a sleeper becomes runnable and, unless
\* it is current, enters the run queue; waking a runnable process only warns.
wakeup_proc(W) ==
    LET woken == {p \in W : state[p] # "RUNNABLE"}
    IN  /\ state' = [p \in Procs |-> IF p \in woken THEN "RUNNABLE" ELSE state[p]]
        /\ wait_state' = [p \in Procs |-> IF p \in woken THEN "0" ELSE wait_state[p]]
        /\ runq' = runq \cup (woken \ {current, idle})

\* Mutant: current is queued whatever its state.
ReadyAlways == (runq \cup {current}) \ {idle}

\* The candidates of pick_next: schedule() first puts a current process that
\* is still runnable back into the queue (idle never enters it).
Ready == runq \cup (IF state[current] = "RUNNABLE" /\ current # idle THEN {current} ELSE {})

\* schedule() up to the switch, with the policy of pick_next left open.
schedule(next) ==
    /\ resched
    /\ IF Ready = {} THEN next = idle ELSE next \in Ready
    /\ need_resched' = [need_resched EXCEPT ![current] = FALSE]
    /\ runq' = Ready \ {next}
    /\ current' = next
    /\ resched' = FALSE
    /\ UNCHANGED <<state, wait_state, exiting, links, nr_process, timers, waitpid, pc>>

\* cpu_idle
cpu_idle ==
    /\ current = idle /\ ~resched /\ need_resched[idle]
    /\ resched' = TRUE
    /\ UNCHANGED <<state, wait_state, exiting, links, need_resched, runq, current,
                   nr_process, timers, waitpid, pc>>

\* The timer interrupt reaches user code, idle and init; panic() disables it.
IntrEnabled ==
    \/ current \in {idle, init} /\ pc[current] # "panic"
    \/ pc[current] = "user" /\ ~resched

\* IRQ_S_TIMER: run_timer_list wakes the owners of the expired timers, then
\* charges the tick to current, which may use up its time slice.  (When each
\* timer expires is the subject of module TimerList.)
run_timer_list(expired, used_up) ==
    /\ IntrEnabled
    /\ expired \subseteq timers
    /\ wakeup_proc(expired)
    /\ timers' = timers \ expired
    /\ need_resched' = [need_resched EXCEPT ![current] = @ \/ used_up \/ current = idle]
    /\ pc' = [pc EXCEPT ![current] = IF current \in {idle, init} THEN @ ELSE "trapret"]
    /\ UNCHANGED <<exiting, links, current, nr_process, waitpid, resched>>
-----------------------------------------------------------------------------
(* do_exit *)

\* Mutant: the exit is not announced.
exit_silent == {}

\* The parent is woken if it waits for a child.
exit_wakes == {q \in Procs : q = parent[current] /\ wait_state[q] = "WT_CHILD"}

\* do_exit up to its loop: become a zombie and wake a parent waiting for a child.
do_exit ==
    /\ current \notin {idle, init}
    /\ state' = [p \in Procs |-> IF p = current THEN "ZOMBIE"
                                 ELSE IF p \in exit_wakes THEN "RUNNABLE" ELSE state[p]]
    /\ wait_state' = [p \in Procs |-> IF p \in exit_wakes THEN "0" ELSE wait_state[p]]
    /\ runq' = runq \cup (exit_wakes \ {idle})
    /\ pc' = [pc EXCEPT ![current] = "reparent"]
    /\ UNCHANGED <<exiting, links, need_resched, current, nr_process, timers,
                   waitpid, resched>>

\* do_exit of idle or init panics.
do_exit_panic ==
    /\ current \in {idle, init}
    /\ pc' = [pc EXCEPT ![current] = "panic"]
    /\ UNCHANGED <<state, wait_state, exiting, links, need_resched, runq, current,
                   nr_process, timers, waitpid, resched>>

\* Mutant: nobody is told about a zombie that is handed over.
reparent_silent(proc) == {}

\* init is woken if the child handed to it is a zombie it is waiting for.
reparent_wakes(proc) ==
    {q \in {init} : state[proc] = "ZOMBIE" /\ wait_state[q] = "WT_CHILD"}

\* One iteration of the loop of do_exit: hand the youngest child to init.
reparent ==
    /\ pc[current] = "reparent" /\ ~resched /\ cptr[current] # NULL
    /\ LET proc == cptr[current]
           old == cptr[init]
       IN  /\ cptr' = [cptr EXCEPT ![current] = optr[proc], ![init] = proc]
           /\ optr' = [optr EXCEPT ![proc] = old]
           /\ yptr' = [p \in Procs |-> IF p = proc THEN NULL
                                       ELSE IF p = old THEN proc ELSE yptr[p]]
           /\ parent' = [parent EXCEPT ![proc] = init]
           /\ wakeup_proc(reparent_wakes(proc))
    /\ UNCHANGED <<exiting, need_resched, current, nr_process, timers, waitpid, pc,
                   resched>>

\* The loop has ended: the zombie leaves the CPU for good.
exit_schedule ==
    /\ pc[current] = "reparent" /\ ~resched /\ cptr[current] = NULL
    /\ pc' = [pc EXCEPT ![current] = "dead"]
    /\ resched' = TRUE
    /\ UNCHANGED <<state, wait_state, exiting, links, need_resched, runq, current,
                   nr_process, timers, waitpid>>
-----------------------------------------------------------------------------
(* do_fork: alloc_proc, set_links and wakeup_proc of the child.  The paths on *)
(* which an allocation fails half way are in module ProcRes.                 *)

\* alloc_proc and set_links of `proc' below its parent `current', which then
\* continues at `next'.
do_fork(proc, child_pc, next) ==
    /\ nr_process < MAX_PROCESS
    /\ state[proc] = "FREE"
    /\ state' = [state EXCEPT ![proc] = "RUNNABLE"]
    /\ wait_state' = [wait_state EXCEPT ![proc] = "0"]
    /\ exiting' = [exiting EXCEPT ![proc] = FALSE]
    /\ need_resched' = [need_resched EXCEPT ![proc] = FALSE]
    /\ waitpid' = [waitpid EXCEPT ![proc] = NULL]
    /\ parent' = [parent EXCEPT ![proc] = current]
    /\ yptr' = [p \in Procs |-> IF p = proc THEN NULL
                                ELSE IF p = cptr[current] THEN proc ELSE yptr[p]]
    /\ optr' = [optr EXCEPT ![proc] = cptr[current]]
    /\ cptr' = [cptr EXCEPT ![proc] = NULL, ![current] = proc]
    /\ nr_process' = nr_process + 1
    /\ runq' = runq \cup {proc}
    /\ pc' = [pc EXCEPT ![proc] = child_pc, ![current] = next]
    /\ UNCHANGED <<current, timers, resched>>

\* init_main creates user_main, which becomes the first user process.
init_main ==
    /\ current = init /\ ~resched /\ pc[init] = "start"
    /\ \E proc \in Procs : do_fork(proc, "user", "wait")

-----------------------------------------------------------------------------
(* do_wait *)

\* S has the first child of p and, with a process, its elder sibling.
Follows(p, S) ==
    /\ cptr[p] # NULL => cptr[p] \in S
    /\ \A q \in S : optr[q] # NULL => optr[q] \in S

\* The list a do_wait walks: cptr, then optr after optr, the least such set.
Siblings(p) == {q \in Procs : \A S \in SUBSET Procs : Follows(p, S) => q \in S}

\* The children that satisfy the call: all of them (pid 0) or the one named.
Kids(p) ==
    IF waitpid[p] = NULL THEN Siblings(p)
    ELSE {q \in {waitpid[p]} : state[q] # "FREE" /\ parent[q] = p}

\* The three pointer updates of remove_links: of the elder sibling, of the
\* younger one, and of the parent when there is no younger one.  The links of
\* proc itself are blank once it is freed.
elder_unlinked(proc) ==
    [p \in Procs |-> IF p = proc THEN NULL
                     ELSE IF p = optr[proc] THEN yptr[proc] ELSE yptr[p]]

\* Mutant: the younger sibling keeps pointing at proc.
younger_stale(proc) == [optr EXCEPT ![proc] = NULL]

younger_unlinked(proc) ==
    [p \in Procs |-> IF p = proc THEN NULL
                     ELSE IF p = yptr[proc] THEN optr[proc] ELSE optr[p]]

parent_unlinked(proc) ==
    [p \in Procs |-> IF p = parent[proc] /\ yptr[proc] = NULL THEN optr[proc] ELSE cptr[p]]

\* Mutant: nr_process is not decremented.
remove_links_uncounted(proc) ==
    /\ yptr' = elder_unlinked(proc) /\ optr' = younger_unlinked(proc)
    /\ cptr' = parent_unlinked(proc) /\ nr_process' = nr_process

remove_links(proc) ==
    /\ yptr' = elder_unlinked(proc)
    /\ optr' = younger_unlinked(proc)
    /\ cptr' = parent_unlinked(proc)
    /\ nr_process' = nr_process - 1

\* `found': take proc out of the tree and free it; a freed struct reads as blank.
do_wait_found ==
    /\ pc[current] = "wait" /\ ~resched
    /\ \E proc \in Procs :
          /\ proc \in Kids(current) /\ state[proc] = "ZOMBIE"
          /\ remove_links(proc)
          /\ state' = [state EXCEPT ![proc] = "FREE"]
          /\ parent' = [parent EXCEPT ![proc] = NULL]
          /\ exiting' = [exiting EXCEPT ![proc] = FALSE]
          /\ need_resched' = [need_resched EXCEPT ![proc] = FALSE]
          /\ pc' = [pc EXCEPT ![proc] = "none",
                              ![current] = IF current = init THEN "wait" ELSE "trapret"]
    /\ waitpid' = [waitpid EXCEPT ![current] = NULL]
    /\ resched' = (current = init)   \* the loop of init_main calls schedule()
    /\ UNCHANGED <<wait_state, runq, current, timers>>

\* No zombie yet: sleep until a child exits.
do_wait_sleep ==
    /\ pc[current] = "wait" /\ ~resched
    /\ Kids(current) # {}
    /\ \A proc \in Kids(current) : state[proc] # "ZOMBIE"
    /\ state' = [state EXCEPT ![current] = "SLEEPING"]
    /\ wait_state' = [wait_state EXCEPT ![current] = "WT_CHILD"]
    /\ pc' = [pc EXCEPT ![current] = "waitret"]
    /\ resched' = TRUE
    /\ UNCHANGED <<exiting, links, need_resched, runq, current, nr_process, timers,
                   waitpid>>

\* No child to wait for: -E_BAD_PROC, and init_main leaves its loop.
do_wait_nokid ==
    /\ pc[current] = "wait" /\ ~resched
    /\ Kids(current) = {}
    /\ pc' = [pc EXCEPT ![current] = IF current = init THEN "done" ELSE "trapret"]
    /\ waitpid' = [waitpid EXCEPT ![current] = NULL]
    /\ UNCHANGED <<state, wait_state, exiting, links, need_resched, runq, current,
                   nr_process, timers, resched>>

\* Back from schedule(): a killed process exits, any other one looks again.
do_wait_repeat ==
    /\ pc[current] = "waitret" /\ ~resched /\ ~exiting[current]
    /\ pc' = [pc EXCEPT ![current] = "wait"]
    /\ UNCHANGED <<state, wait_state, exiting, links, need_resched, runq, current,
                   nr_process, timers, waitpid, resched>>

do_wait_killed ==
    /\ pc[current] = "waitret" /\ ~resched /\ exiting[current]
    /\ do_exit \/ do_exit_panic

\* init_main returns and its kernel thread exits, which panics.
init_main_return ==
    /\ pc[current] = "done" /\ ~resched
    /\ do_exit_panic
-----------------------------------------------------------------------------
(* System calls of a process in user mode; each ends in the tail of trap(). *)

InUser == pc[current] = "user" /\ ~resched

sys_fork == InUser /\ \E proc \in Procs : do_fork(proc, "user", "trapret")

\* -E_NO_FREE_PROC, or no memory for the proc_struct
sys_fork_fail ==
    /\ InUser
    /\ nr_process >= MAX_PROCESS \/ \A p \in Procs : state[p] # "FREE"
    /\ pc' = [pc EXCEPT ![current] = "trapret"]
    /\ UNCHANGED <<state, wait_state, exiting, links, need_resched, runq, current,
                   nr_process, timers, waitpid, resched>>

sys_exit == InUser /\ do_exit

sys_wait(pid) ==
    /\ InUser
    /\ waitpid' = [waitpid EXCEPT ![current] = pid]
    /\ pc' = [pc EXCEPT ![current] = "wait"]
    /\ UNCHANGED <<state, wait_state, exiting, links, need_resched, runq, current,
                   nr_process, timers, resched>>

\* do_kill: mark the process and wake it if its wait can be interrupted.  A
\* process already marked is left alone (-E_KILLED).
sys_kill(proc) ==
    /\ InUser
    /\ state[proc] # "FREE" /\ proc # idle
    /\ exiting' = [exiting EXCEPT ![proc] = TRUE]
    /\ wakeup_proc({q \in {proc} : ~exiting[q] /\ Interrupted(wait_state[q])})
    /\ pc' = [pc EXCEPT ![current] = "trapret"]
    /\ UNCHANGED <<links, need_resched, current, nr_process, timers, waitpid, resched>>

sys_yield ==
    /\ InUser
    /\ need_resched' = [need_resched EXCEPT ![current] = TRUE]
    /\ pc' = [pc EXCEPT ![current] = "trapret"]
    /\ UNCHANGED <<state, wait_state, exiting, links, runq, current, nr_process, timers,
                   waitpid, resched>>

\* do_sleep up to schedule(), and from there on
sys_sleep ==
    /\ InUser
    /\ state' = [state EXCEPT ![current] = "SLEEPING"]
    /\ wait_state' = [wait_state EXCEPT ![current] = "WT_TIMER"]
    /\ timers' = timers \cup {current}
    /\ pc' = [pc EXCEPT ![current] = "sleepret"]
    /\ resched' = TRUE
    /\ UNCHANGED <<exiting, links, need_resched, runq, current, nr_process, waitpid>>

\* Calls that return without touching this state: getpid, do_sleep(0), do_kill of
\* a pid nobody has, do_wait with a bad pointer, and those of other components.
sys_other ==
    /\ InUser
    /\ pc' = [pc EXCEPT ![current] = "trapret"]
    /\ UNCHANGED <<state, wait_state, exiting, links, need_resched, runq, current,
                   nr_process, timers, waitpid, resched>>

\* Mutant: the timer is left in the list.
do_sleep_return_dangling ==
    /\ pc[current] = "sleepret" /\ ~resched
    /\ pc' = [pc EXCEPT ![current] = "trapret"]
    /\ UNCHANGED <<state, wait_state, exiting, links, need_resched, runq, current,
                   nr_process, timers, waitpid, resched>>

do_sleep_return ==
    /\ pc[current] = "sleepret" /\ ~resched
    /\ timers' = timers \ {current}
    /\ pc' = [pc EXCEPT ![current] = "trapret"]
    /\ UNCHANGED <<state, wait_state, exiting, links, need_resched, runq, current,
                   nr_process, waitpid, resched>>

(* The tail of trap(): a killed process exits; then need_resched is honoured; *)
(* the flags are not looked at again before the return to user mode.          *)
trap_exit ==
    /\ pc[current] = "trapret" /\ ~resched /\ exiting[current]
    /\ do_exit

\* Mutant: PF_EXITING is not looked at.
trap_return_unchecked ==
    /\ pc[current] = "trapret" /\ ~resched
    /\ pc' = [pc EXCEPT ![current] = "user"]
    /\ resched' = need_resched[current]
    /\ UNCHANGED <<state, wait_state, exiting, links, need_resched, runq, current,
                   nr_process, timers, waitpid>>

trap_return ==
    /\ pc[current] = "trapret" /\ ~resched /\ ~exiting[current]
    /\ pc' = [pc EXCEPT ![current] = "user"]
    /\ resched' = need_resched[current]
    /\ UNCHANGED <<state, wait_state, exiting, links, need_resched, runq, current,
                   nr_process, timers, waitpid>>

\* panic() never returns.
Panicked == pc[init] = "panic"
halted == Panicked /\ UNCHANGED vars
-----------------------------------------------------------------------------
Syscall ==
    \/ sys_fork \/ sys_fork_fail \/ sys_exit \/ sys_yield \/ sys_sleep \/ sys_other
    \/ \E pid \in Ptr : sys_wait(pid)
    \/ \E proc \in Procs : sys_kill(proc)

\* Steps the kernel takes without waiting for anyone.
Kernel ==
    \/ cpu_idle \/ reparent \/ exit_schedule \/ init_main
    \/ do_wait_found \/ do_wait_sleep \/ do_wait_nokid \/ do_wait_repeat \/ do_wait_killed
    \/ init_main_return \/ do_sleep_return \/ trap_exit \/ trap_return

Next ==
    \/ Syscall
    \/ Kernel
    \/ \E p \in Procs : schedule(p)
    \/ \E expired \in SUBSET timers, used_up \in BOOLEAN : run_timer_list(expired, used_up)
    \/ halted

Spec == Init /\ [][Next]_vars

(* The kernel never stops by itself; the clock interrupts whatever runs with   *)
(* interrupts enabled, so a time slice ends and a timer expires eventually; the *)
(* stride scheduler picks every process that stays ready.  User programs owe    *)
(* nothing: they may spin, or never exit.                                      *)
Fairness ==
    /\ WF_vars(Kernel \/ schedule(idle))
    /\ \A p \in Procs \ {idle} : SF_vars(schedule(p))
    /\ SF_vars(\E expired \in SUBSET timers : run_timer_list(expired, TRUE))
    /\ \A p \in Procs \ {idle, init} :
          SF_vars(\E expired \in SUBSET timers, used_up \in BOOLEAN :
                     p \in expired /\ run_timer_list(expired, used_up))

FairSpec == Spec /\ Fairness
-----------------------------------------------------------------------------
TypeOK ==
    /\ state \in [Procs -> States]
    /\ wait_state \in [Procs -> Waits]
    /\ exiting \in [Procs -> BOOLEAN]
    /\ parent \in [Procs -> Ptr] /\ cptr \in [Procs -> Ptr]
    /\ yptr \in [Procs -> Ptr] /\ optr \in [Procs -> Ptr]
    /\ need_resched \in [Procs -> BOOLEAN]
    /\ runq \subseteq Procs
    /\ current \in Procs
    /\ nr_process \in Nat
    /\ timers \subseteq Procs
    /\ waitpid \in [Procs -> Ptr]
    /\ pc \in [Procs -> Locations]
    /\ resched \in BOOLEAN

Allocated == {p \in Procs : state[p] # "FREE"}

\* The run queue holds exactly the runnable processes that do not have the CPU:
\* no wake-up path of wakeup_proc, schedule() or do_fork loses a process or
\* queues it twice, and no sleeper or zombie is ever picked.
RunQueueExact ==
    runq = {p \in Procs \ {idle, current} : state[p] = "RUNNABLE"}

\* A process sleeps if and only if it says what it waits for: do_fork's
\* assert(current->wait_state == 0) holds and do_kill can tell a sleeper.
WaitStateCoherent ==
    \A p \in Procs : state[p] = "SLEEPING" <=> wait_state[p] # "0"

\* The pointers set_links, remove_links and the loop of do_exit maintain are
\* those of a doubly linked list of children below every process.
LinksConsistent ==
    /\ \A p \in Allocated : cptr[p] # NULL =>
          /\ cptr[p] \in Allocated /\ parent[cptr[p]] = p
          \* do_exit blanks the yptr of a child only when it reaches the child
          /\ yptr[cptr[p]] = NULL \/ pc[p] = "reparent"
    /\ \A p \in Allocated \ {idle} :
          /\ parent[p] \in Allocated
          /\ cptr[parent[p]] # p =>
                /\ yptr[p] \in Allocated /\ optr[yptr[p]] = p
                /\ parent[yptr[p]] = parent[p]
          /\ optr[p] # NULL =>
                /\ optr[p] \in Allocated /\ yptr[optr[p]] = p
                /\ parent[optr[p]] = parent[p]

\* do_wait(0) walks cptr and optr, do_wait(pid) compares parents: both see the
\* same children, so nobody waits for a child that can never be found.
SiblingsAreChildren ==
    \A p \in Allocated : Siblings(p) = {q \in Allocated : parent[q] = p}

\* A process never has a zombie as its parent, except while that parent is
\* still handing its children to init: no zombie is left that nobody reaps.
ParentCanReap ==
    \A p \in Allocated \ {idle} :
        state[parent[p]] = "ZOMBIE" => parent[p] = current /\ pc[current] = "reparent"

\* The process tree after any history of forks, exits and waits: a sound list of
\* children below every process, complete for do_wait, and a parent that can reap.
TreeSound == LinksConsistent /\ SiblingsAreChildren /\ ParentCanReap

\* No lost wake-up between do_wait and do_exit: a process asleep in do_wait has
\* no child that would satisfy its call.
NoLostChildWakeup ==
    \A p \in Procs : wait_state[p] = "WT_CHILD" =>
        \A q \in Kids(p) : state[q] # "ZOMBIE"

\* The timer of do_sleep lives on the stack of the sleeper: it is in timer_list
\* only while its owner is inside do_sleep, whatever kill and expiry do.
TimerOwnerInSleep ==
    \A p \in timers : pc[p] = "sleepret" /\ state[p] \in {"SLEEPING", "RUNNABLE"}

\* nr_process counts the allocated structs.
CountExact == nr_process = Cardinality(Allocated)

\* The assertions of init_main after its loop: everybody else is gone.
InitAssertions ==
    pc[init] = "done" =>
        /\ nr_process = 2 /\ Allocated = {idle, init}
        /\ cptr[init] = NULL /\ yptr[init] = NULL /\ optr[init] = NULL

\* Every zombie init is responsible for is reaped: do_exit wakes init for each
\* one it hands over, and init_main keeps waiting.
OrphanReaped ==
    \A p \in Procs : state[p] = "ZOMBIE" /\ parent[p] = init ~> state[p] = "FREE" \/ Panicked

\* user/spin.c: a process that is killed while it runs or waits for the CPU does
\* not go on running.
KilledLeavesCpu ==
    \A p \in Procs \ {init} :
        exiting[p] /\ state[p] = "RUNNABLE" ~> state[p] # "RUNNABLE" \/ Panicked

\* What user/waitkill.c and user/sleepkill.c rely on: a process kill() succeeded
\* on terminates, and its parent's waitpid returns.
KilledTerminates ==
    \A p \in Procs \ {init} : exiting[p] ~> state[p] \in {"ZOMBIE", "FREE"} \/ Panicked
=============================================================================
