---------------------------- MODULE Proc_proofs ----------------------------
(***************************************************************************)
(* Proofs about Proc, for any number of processes.                         *)
(*                                                                         *)
(* First the scheduler: the type invariant, the agreement of the run       *)
(* queue, the state and the wait_state of every process, the owners of     *)
(* pending timers, and the count of processes.  None is inductive by       *)
(* itself: one needs to know that idle stays in its loop, that the current *)
(* process sleeps only on its way into schedule(), and where the code of a *)
(* zombie and of an unallocated struct is.                                 *)
(*                                                                         *)
(* Then the process tree: the lists of children stay sound through         *)
(* set_links, remove_links and the loop of do_exit, a wake-up of a waiting *)
(* parent is never lost, and the assertions of init_main hold.  That       *)
(* do_wait reaches every child is a statement about all sets that contain  *)
(* the head of the list and follow optr (ChildrenListed): for each         *)
(* operation on the list, such a set of the new list is turned into one of *)
(* the old list.  In the same way, that the tree hangs together below idle *)
(* (ParentsGrounded) is a statement about sets that follow parent.         *)
(***************************************************************************)
EXTENDS Proc, FiniteSetTheorems, TLAPS

\* idleproc stays runnable in cpu_idle; initproc is never a zombie.
KernelThreadsAlive ==
    /\ pc[idle] = "idle" /\ state[idle] = "RUNNABLE"
    /\ state[init] \in {"RUNNABLE", "SLEEPING"}

\* current is allocated; it is no longer RUNNABLE, but SLEEPING, only between a
\* blocking call and schedule().
CurrentAwake == state[current] # "FREE" /\ (state[current] = "SLEEPING" => resched)

\* A zombie is in do_exit and never leaves it; a free struct has no code.
LocationOfDead ==
    \A p \in Procs : /\ state[p] = "ZOMBIE" => pc[p] \in {"reparent", "dead"}
                     /\ state[p] = "FREE" => pc[p] = "none"

SchedInv ==
    /\ TypeOK
    /\ RunQueueExact
    /\ WaitStateCoherent
    /\ TimerOwnerInSleep
    /\ CountExact
    /\ KernelThreadsAlive
    /\ CurrentAwake
    /\ LocationOfDead

-----------------------------------------------------------------------------
LEMMA SchedInit == Init => SchedInv
<1> SUFFICES ASSUME Init PROVE SchedInv
  OBVIOUS
<1> USE ProcsAssumption DEF Init
<1>1. TypeOK
  BY DEF TypeOK, States, Waits, Ptr, Locations
<1>2. RunQueueExact
  BY DEF RunQueueExact
<1>3. WaitStateCoherent
  BY DEF WaitStateCoherent
<1>4. KernelThreadsAlive /\ CurrentAwake
  BY DEF KernelThreadsAlive, CurrentAwake
<1>5. LocationOfDead
  BY DEF LocationOfDead
<1>6. TimerOwnerInSleep
  BY DEF TimerOwnerInSleep
<1>7. CountExact
  <2>1. Allocated = {idle, init}
    BY DEF Allocated
  <2>2. Cardinality({idle}) = 1 /\ IsFiniteSet({idle})
    BY FS_Singleton
  <2>3. Cardinality({idle} \cup {init}) = Cardinality({idle}) + 1
    BY <2>2, FS_AddElement
  <2>4. {idle} \cup {init} = {idle, init} /\ nr_process = 2
    OBVIOUS
  <2>5. QED
    BY <2>1, <2>2, <2>3, <2>4 DEF CountExact
<1>8. QED
  BY <1>1, <1>2, <1>3, <1>4, <1>5, <1>6, <1>7 DEF SchedInv

\* A step that allocates and frees nothing keeps the count.
LEMMA CountKept ==
    ASSUME CountExact, nr_process' = nr_process,
           \A p \in Procs : (state'[p] = "FREE") <=> (state[p] = "FREE")
    PROVE  CountExact'
<1>1. Allocated' = Allocated
  BY DEF Allocated
<1>2. QED
  BY <1>1 DEF CountExact

\* A step of current that changes only where it is.
LEMMA QuietStep ==
    ASSUME SchedInv, NEW x \in Locations, pc' = [pc EXCEPT ![current] = x],
           UNCHANGED <<state, wait_state, runq, current, nr_process, exiting, links>>,
           current # idle,
           state[current] = "RUNNABLE" \/ (state[current] = "ZOMBIE" /\ x = "dead"),
           timers' \subseteq timers, current \notin timers',
           need_resched' \in [Procs -> BOOLEAN], waitpid' \in [Procs -> Ptr],
           resched' \in BOOLEAN
    PROVE  SchedInv'
<1> USE ProcsAssumption DEF SchedInv, TypeOK, links
<1>1. TypeOK'
  BY DEF Locations
<1>2. RunQueueExact' /\ WaitStateCoherent' /\ TimerOwnerInSleep'
  BY DEF RunQueueExact, WaitStateCoherent, TimerOwnerInSleep
<1>3. CountExact'
  BY CountKept
<1>4. KernelThreadsAlive' /\ CurrentAwake' /\ LocationOfDead'
  BY DEF KernelThreadsAlive, CurrentAwake, LocationOfDead
<1>5. QED
  BY <1>1, <1>2, <1>3, <1>4

\* The code of a running process: it is runnable and it is not idle.
LEMMA RunningCurrent ==
    ASSUME SchedInv, ~resched, pc[current] \notin {"reparent", "dead", "idle"}
    PROVE  state[current] = "RUNNABLE" /\ current # idle
  BY ProcsAssumption DEF SchedInv, TypeOK, States, CurrentAwake, LocationOfDead, KernelThreadsAlive

LEMMA ExitStep ==
    ASSUME SchedInv, do_exit, ~resched, pc[current] \in {"user", "trapret", "waitret"}
    PROVE  SchedInv'
<1> USE ProcsAssumption DEF do_exit, exit_wakes, SchedInv, TypeOK
<1>1. TypeOK'
  BY DEF States, Waits, Locations, links
<1>2. wait_state[current] = "0" /\ state[current] = "RUNNABLE"
  BY DEF CurrentAwake, WaitStateCoherent, LocationOfDead, States
<1>3. RunQueueExact'
  BY <1>2 DEF RunQueueExact
<1>4. WaitStateCoherent'
  BY <1>2 DEF WaitStateCoherent
<1>5. TimerOwnerInSleep'
  BY DEF TimerOwnerInSleep
<1>6. KernelThreadsAlive' /\ CurrentAwake'
  BY DEF KernelThreadsAlive, CurrentAwake
<1>7. LocationOfDead'
  BY DEF LocationOfDead, WaitStateCoherent
<1>8. CountExact'
  BY <1>2, CountKept DEF WaitStateCoherent
<1>9. QED
  BY <1>1, <1>3, <1>4, <1>5, <1>6, <1>7, <1>8 DEF SchedInv

LEMMA ForkStep ==
    ASSUME SchedInv, NEW proc \in Procs, NEW next \in {"wait", "trapret"},
           do_fork(proc, "user", next), ~resched, pc[current] \in {"user", "start"}
    PROVE  SchedInv'
<1> USE ProcsAssumption DEF do_fork, SchedInv, TypeOK
<1>1. TypeOK'
  BY DEF States, Waits, Locations, Ptr
<1>2. proc \notin {current, idle, init}
  BY DEF KernelThreadsAlive, CurrentAwake
<1>3. RunQueueExact'
  BY <1>2 DEF RunQueueExact
<1>4. WaitStateCoherent'
  BY DEF WaitStateCoherent
<1>5. TimerOwnerInSleep'
  BY <1>2 DEF TimerOwnerInSleep
<1>6. KernelThreadsAlive' /\ CurrentAwake'
  BY <1>2 DEF KernelThreadsAlive, CurrentAwake
<1>7. LocationOfDead'
  BY DEF LocationOfDead, CurrentAwake
<1>8. CountExact'
  <2>1. Allocated' = Allocated \cup {proc} /\ proc \notin Allocated
    BY DEF Allocated
  <2>2. IsFiniteSet(Allocated)
    BY FS_Subset DEF Allocated
  <2>3. QED
    BY <2>1, <2>2, FS_AddElement DEF CountExact
<1>9. QED
  BY <1>1, <1>3, <1>4, <1>5, <1>6, <1>7, <1>8 DEF SchedInv

\* Waking processes that are allocated and not zombies.
LEMMA WakeupStep ==
    ASSUME SchedInv, NEW W \in SUBSET Procs, wakeup_proc(W),
           \A p \in W : state[p] \in {"SLEEPING", "RUNNABLE"}, current' = current,
           nr_process' = nr_process
    PROVE  /\ state' \in [Procs -> States] /\ wait_state' \in [Procs -> Waits]
           /\ runq' \subseteq Procs
           /\ RunQueueExact' /\ WaitStateCoherent' /\ CountExact'
           /\ \A p \in Procs : state'[p] = state[p] \/ (state[p] = "SLEEPING" /\ state'[p] = "RUNNABLE")
<1>0. \A p \in Procs : state'[p] = IF p \in W /\ state[p] # "RUNNABLE" THEN "RUNNABLE" ELSE state[p]
  BY DEF wakeup_proc
<1> USE ProcsAssumption DEF wakeup_proc, SchedInv, TypeOK
<1>1. state' \in [Procs -> States] /\ wait_state' \in [Procs -> Waits] /\ runq' \subseteq Procs
  BY DEF States, Waits
<1>2. \A p \in Procs : state'[p] = state[p] \/ (state[p] = "SLEEPING" /\ state'[p] = "RUNNABLE")
  BY <1>0
<1>3. RunQueueExact'
  BY DEF RunQueueExact
<1>4. WaitStateCoherent'
  BY DEF WaitStateCoherent
<1>5. CountExact'
  BY <1>2, CountKept
<1>6. QED
  BY <1>1, <1>2, <1>3, <1>4, <1>5
-----------------------------------------------------------------------------
LEMMA SyscallStep == SchedInv /\ Syscall => SchedInv'
<1> SUFFICES ASSUME SchedInv, Syscall PROVE SchedInv'
  OBVIOUS
<1>1. CASE sys_fork
  BY <1>1, ForkStep DEF sys_fork, InUser
<1>2. CASE sys_exit
  BY <1>2, ExitStep DEF sys_exit, InUser
<1>3. CASE sys_fork_fail \/ sys_yield \/ sys_other \/ \E pid \in Ptr : sys_wait(pid)
  <2> USE <1>3, ProcsAssumption DEF sys_fork_fail, sys_yield, sys_other, sys_wait, InUser
  <2>1. ~resched /\ pc[current] = "user"
    OBVIOUS
  <2>2. state[current] = "RUNNABLE" /\ current # idle /\ current \notin timers
    BY <2>1, RunningCurrent DEF SchedInv, TimerOwnerInSleep
  <2>3. "trapret" \in Locations /\ "wait" \in Locations
    BY DEF Locations
  <2>4. CASE sys_fork_fail
    BY <2>2, <2>3, <2>4, QuietStep DEF SchedInv, TypeOK, links
  <2>5. CASE sys_yield
    BY <2>2, <2>3, <2>5, QuietStep DEF SchedInv, TypeOK, links
  <2>6. ASSUME NEW pid \in Ptr, sys_wait(pid) PROVE SchedInv'
    BY <2>2, <2>3, <2>6, QuietStep DEF SchedInv, TypeOK, links
  <2>7. CASE sys_other
    BY <2>2, <2>3, <2>7, QuietStep DEF SchedInv, TypeOK, links
  <2>8. QED
    BY <2>4, <2>5, <2>6, <2>7
<1>4. CASE sys_sleep
  <2> USE <1>4, ProcsAssumption DEF sys_sleep, InUser, SchedInv, TypeOK, links
  <2>1. state[current] = "RUNNABLE" /\ current # idle
    BY DEF CurrentAwake, LocationOfDead, States, KernelThreadsAlive
  <2>2. TypeOK' /\ RunQueueExact' /\ WaitStateCoherent' /\ TimerOwnerInSleep'
    BY <2>1 DEF States, Waits, Locations, RunQueueExact, WaitStateCoherent, TimerOwnerInSleep
  <2>3. CountExact'
    BY <2>1, CountKept
  <2>4. KernelThreadsAlive' /\ CurrentAwake' /\ LocationOfDead'
    BY <2>1 DEF KernelThreadsAlive, CurrentAwake, LocationOfDead
  <2>5. QED
    BY <2>2, <2>3, <2>4
<1>5. ASSUME NEW proc \in Procs, sys_kill(proc) PROVE SchedInv'
  <2> DEFINE W == {q \in {proc} : ~exiting[q] /\ Interrupted(wait_state[q])}
  <2> USE <1>5, ProcsAssumption DEF sys_kill, InUser, SchedInv, TypeOK, links
  <2>1. W \in SUBSET Procs /\ \A p \in W : state[p] \in {"SLEEPING", "RUNNABLE"}
    BY DEF Interrupted, WaitStateCoherent
  <2> HIDE DEF W
  <2>2. wakeup_proc(W)
    BY DEF W
  <2>3. /\ state' \in [Procs -> States] /\ wait_state' \in [Procs -> Waits]
        /\ runq' \subseteq Procs
        /\ RunQueueExact' /\ WaitStateCoherent' /\ CountExact'
        /\ \A p \in Procs : state'[p] = state[p] \/ (state[p] = "SLEEPING" /\ state'[p] = "RUNNABLE")
    BY <2>1, <2>2, WakeupStep
  <2>4. TypeOK' /\ TimerOwnerInSleep'
    BY <2>3 DEF Locations, TimerOwnerInSleep
  <2>5. KernelThreadsAlive' /\ CurrentAwake' /\ LocationOfDead'
    BY <2>3 DEF KernelThreadsAlive, CurrentAwake, LocationOfDead
  <2>6. QED
    BY <2>3, <2>4, <2>5
<1>6. QED
  BY <1>1, <1>2, <1>3, <1>4, <1>5 DEF Syscall

LEMMA WaitFoundStep == SchedInv /\ do_wait_found => SchedInv'
<1> SUFFICES ASSUME SchedInv, do_wait_found PROVE SchedInv'
  OBVIOUS
<1> USE ProcsAssumption DEF do_wait_found, SchedInv, TypeOK
<1>1. PICK proc \in Procs :
         /\ state[proc] = "ZOMBIE" /\ remove_links(proc)
         /\ state' = [state EXCEPT ![proc] = "FREE"]
         /\ parent' = [parent EXCEPT ![proc] = NULL]
         /\ exiting' = [exiting EXCEPT ![proc] = FALSE]
         /\ need_resched' = [need_resched EXCEPT ![proc] = FALSE]
         /\ pc' = [pc EXCEPT ![proc] = "none",
                             ![current] = IF current = init THEN "wait" ELSE "trapret"]
  OBVIOUS
<1>2. state[current] = "RUNNABLE" /\ current # idle /\ current \notin timers
  BY RunningCurrent DEF TimerOwnerInSleep
<1>3. TypeOK'
  <2>1. nr_process' \in Nat
    <3>1. proc \in Allocated /\ IsFiniteSet(Allocated)
      BY <1>1, FS_Subset DEF Allocated
    <3>2. Cardinality(Allocated) # 0
      BY <3>1, FS_EmptySet
    <3>3. QED
      BY <1>1, <3>2 DEF CountExact, remove_links
  <2>2. yptr' \in [Procs -> Ptr] /\ optr' \in [Procs -> Ptr] /\ cptr' \in [Procs -> Ptr]
    BY <1>1 DEF remove_links, elder_unlinked, younger_unlinked, parent_unlinked, Ptr
  <2>3. QED
    BY <1>1, <2>1, <2>2 DEF States, Ptr, Locations
<1>4. RunQueueExact' /\ WaitStateCoherent'
  BY <1>1, <1>2 DEF RunQueueExact, WaitStateCoherent
<1>5. TimerOwnerInSleep'
  BY <1>1, <1>2 DEF TimerOwnerInSleep
<1>6. KernelThreadsAlive' /\ CurrentAwake' /\ LocationOfDead'
  BY <1>1, <1>2 DEF KernelThreadsAlive, CurrentAwake, LocationOfDead
<1>7. CountExact'
  <2>1. Allocated' = Allocated \ {proc} /\ proc \in Allocated
    BY <1>1 DEF Allocated
  <2>2. IsFiniteSet(Allocated)
    BY FS_Subset DEF Allocated
  <2>3. QED
    BY <1>1, <2>1, <2>2, FS_RemoveElement DEF CountExact, remove_links
<1>8. QED
  BY <1>3, <1>4, <1>5, <1>6, <1>7

LEMMA ReparentStep == SchedInv /\ reparent => SchedInv'
<1> SUFFICES ASSUME SchedInv, reparent PROVE SchedInv'
  OBVIOUS
<1> DEFINE W == reparent_wakes(cptr[current])
<1> USE ProcsAssumption DEF reparent, SchedInv, TypeOK
<1>1. W \in SUBSET Procs /\ \A p \in W : state[p] \in {"SLEEPING", "RUNNABLE"}
  BY DEF reparent_wakes, KernelThreadsAlive
<1>2. wakeup_proc(W)
  OBVIOUS
<1> HIDE DEF W
<1>3. /\ state' \in [Procs -> States] /\ wait_state' \in [Procs -> Waits]
      /\ runq' \subseteq Procs
      /\ RunQueueExact' /\ WaitStateCoherent' /\ CountExact'
      /\ \A p \in Procs : state'[p] = state[p] \/ (state[p] = "SLEEPING" /\ state'[p] = "RUNNABLE")
  BY <1>1, <1>2, WakeupStep
<1>4. cptr[current] \in Procs
  BY DEF Ptr
<1>5. /\ cptr' \in [Procs -> Ptr] /\ optr' \in [Procs -> Ptr]
      /\ yptr' \in [Procs -> Ptr] /\ parent' \in [Procs -> Ptr]
  BY <1>4 DEF Ptr
<1>6. TypeOK' /\ TimerOwnerInSleep'
  BY <1>3, <1>5 DEF TimerOwnerInSleep
<1>7. KernelThreadsAlive' /\ CurrentAwake' /\ LocationOfDead'
  BY <1>3 DEF KernelThreadsAlive, CurrentAwake, LocationOfDead
<1>8. QED
  BY <1>3, <1>6, <1>7

\* Steps inside the kernel that change nothing but the location of current.
LEMMA KernelQuietStep ==
    ASSUME SchedInv,
           \/ do_wait_nokid \/ do_wait_repeat \/ do_sleep_return \/ trap_return \/ exit_schedule
    PROVE  SchedInv'
<1> USE ProcsAssumption DEF SchedInv, TypeOK, links
<1>1. CASE do_wait_nokid
  <2>1. state[current] = "RUNNABLE" /\ current # idle /\ current \notin timers
    BY <1>1, RunningCurrent DEF do_wait_nokid, TimerOwnerInSleep
  <2>2. PICK x \in Locations : pc' = [pc EXCEPT ![current] = x]
    BY <1>1 DEF do_wait_nokid, Locations
  <2>3. QED
    BY <1>1, <2>1, <2>2, QuietStep DEF do_wait_nokid, Ptr
<1>2. CASE do_wait_repeat
  <2>1. state[current] = "RUNNABLE" /\ current # idle /\ current \notin timers
    BY <1>2, RunningCurrent DEF do_wait_repeat, TimerOwnerInSleep
  <2>2. "wait" \in Locations
    BY DEF Locations
  <2>3. QED
    BY <1>2, <2>1, <2>2, QuietStep DEF do_wait_repeat
<1>3. CASE do_sleep_return
  <2>1. state[current] = "RUNNABLE" /\ current # idle
    BY <1>3, RunningCurrent DEF do_sleep_return
  <2>2. "trapret" \in Locations
    BY DEF Locations
  <2>3. QED
    BY <1>3, <2>1, <2>2, QuietStep DEF do_sleep_return
<1>4. CASE trap_return
  <2>1. state[current] = "RUNNABLE" /\ current # idle /\ current \notin timers
    BY <1>4, RunningCurrent DEF trap_return, TimerOwnerInSleep
  <2>2. "user" \in Locations
    BY DEF Locations
  <2>3. QED
    BY <1>4, <2>1, <2>2, QuietStep DEF trap_return
<1>5. CASE exit_schedule
  <2>1. /\ state[current] \in {"RUNNABLE", "ZOMBIE"} /\ current # idle
        /\ current \notin timers
    BY <1>5 DEF exit_schedule, CurrentAwake, States, KernelThreadsAlive, TimerOwnerInSleep
  <2>2. "dead" \in Locations
    BY DEF Locations
  <2>3. QED
    BY <1>5, <2>1, <2>2, QuietStep DEF exit_schedule
<1>6. QED
  BY <1>1, <1>2, <1>3, <1>4, <1>5

LEMMA PanicStep ==
    ASSUME SchedInv, do_exit_panic, ~resched, pc[current] \in {"waitret", "done"}
    PROVE  SchedInv'
<1>1. state[current] = "RUNNABLE" /\ current # idle /\ current \notin timers
  BY RunningCurrent DEF SchedInv, TimerOwnerInSleep
<1>2. "panic" \in Locations
  BY DEF Locations
<1>3. QED
  BY <1>1, <1>2, QuietStep DEF do_exit_panic, SchedInv, TypeOK, links

LEMMA KernelStep == SchedInv /\ Kernel => SchedInv'
<1> SUFFICES ASSUME SchedInv, Kernel PROVE SchedInv'
  OBVIOUS
<1>1. CASE cpu_idle
  <2> USE <1>1 DEF cpu_idle, SchedInv, links
  <2>1. TypeOK' /\ RunQueueExact' /\ WaitStateCoherent' /\ TimerOwnerInSleep'
    BY DEF TypeOK, RunQueueExact, WaitStateCoherent, TimerOwnerInSleep
  <2>2. CountExact' /\ KernelThreadsAlive' /\ LocationOfDead'
    BY CountKept DEF KernelThreadsAlive, LocationOfDead
  <2>3. CurrentAwake'
    BY DEF CurrentAwake, KernelThreadsAlive
  <2>4. QED
    BY <2>1, <2>2, <2>3
<1>2. CASE init_main
  BY <1>2, ForkStep DEF init_main
<1>3. CASE do_wait_sleep
  <2> USE <1>3, ProcsAssumption DEF do_wait_sleep, SchedInv, TypeOK, links
  <2>1. state[current] = "RUNNABLE" /\ current # idle /\ current \notin timers
    BY RunningCurrent DEF TimerOwnerInSleep
  <2>2. TypeOK' /\ RunQueueExact' /\ WaitStateCoherent' /\ TimerOwnerInSleep'
    BY <2>1 DEF States, Waits, Locations, RunQueueExact, WaitStateCoherent, TimerOwnerInSleep
  <2>3. CountExact'
    BY <2>1, CountKept
  <2>4. KernelThreadsAlive' /\ CurrentAwake' /\ LocationOfDead'
    BY <2>1 DEF KernelThreadsAlive, CurrentAwake, LocationOfDead
  <2>5. QED
    BY <2>2, <2>3, <2>4
<1>4. CASE do_wait_killed
  BY <1>4, ExitStep, PanicStep DEF do_wait_killed
<1>5. CASE trap_exit
  BY <1>5, ExitStep DEF trap_exit
<1>6. CASE init_main_return
  BY <1>6, PanicStep DEF init_main_return
<1>7. QED
  BY <1>1, <1>2, <1>3, <1>4, <1>5, <1>6, WaitFoundStep, ReparentStep, KernelQuietStep DEF Kernel

LEMMA ScheduleStep ==
    ASSUME SchedInv, NEW next \in Procs, schedule(next)
    PROVE  SchedInv'
<1> USE ProcsAssumption DEF schedule, SchedInv, TypeOK, links
<1>1. Ready = {p \in Procs \ {idle} : state[p] = "RUNNABLE"}
  BY DEF Ready, RunQueueExact
<1>2. TypeOK' /\ RunQueueExact'
  BY <1>1 DEF RunQueueExact
<1>3. state[next] = "RUNNABLE"
  BY <1>1 DEF KernelThreadsAlive
<1>4. WaitStateCoherent' /\ TimerOwnerInSleep' /\ KernelThreadsAlive' /\ LocationOfDead'
  BY DEF WaitStateCoherent, TimerOwnerInSleep, KernelThreadsAlive, LocationOfDead
<1>5. CurrentAwake' /\ CountExact'
  BY <1>3, CountKept DEF CurrentAwake
<1>6. QED
  BY <1>2, <1>4, <1>5

LEMMA TickStep ==
    ASSUME SchedInv, NEW expired \in SUBSET timers, NEW used_up \in BOOLEAN,
           run_timer_list(expired, used_up)
    PROVE  SchedInv'
<1> USE ProcsAssumption DEF run_timer_list, SchedInv, TypeOK, links
<1>1. expired \in SUBSET Procs /\ \A p \in expired : state[p] \in {"SLEEPING", "RUNNABLE"}
  BY DEF TimerOwnerInSleep
<1>2. /\ state' \in [Procs -> States] /\ wait_state' \in [Procs -> Waits]
      /\ runq' \subseteq Procs
      /\ RunQueueExact' /\ WaitStateCoherent' /\ CountExact'
      /\ \A p \in Procs : state'[p] = state[p] \/ (state[p] = "SLEEPING" /\ state'[p] = "RUNNABLE")
  BY <1>1, WakeupStep
<1>3. TypeOK'
  BY <1>2 DEF Locations
<1>4. /\ current \notin {idle, init} => pc[current] = "user"
      /\ pc' = [pc EXCEPT ![current] = IF current \in {idle, init} THEN pc[current] ELSE "trapret"]
  BY DEF IntrEnabled
<1>5. TimerOwnerInSleep' /\ KernelThreadsAlive' /\ LocationOfDead'
  BY <1>2, <1>4 DEF TimerOwnerInSleep, KernelThreadsAlive, LocationOfDead
<1>6. CurrentAwake'
  BY <1>2 DEF CurrentAwake
<1>7. QED
  BY <1>2, <1>3, <1>5, <1>6

LEMMA SchedStep == SchedInv /\ [Next]_vars => SchedInv'
<1> SUFFICES ASSUME SchedInv, [Next]_vars PROVE SchedInv'
  OBVIOUS
<1>1. CASE UNCHANGED vars
  BY <1>1 DEF vars, SchedInv, TypeOK, RunQueueExact, WaitStateCoherent, TimerOwnerInSleep,
              CountExact, Allocated, KernelThreadsAlive, CurrentAwake, LocationOfDead
<1>2. QED
  BY <1>1, SyscallStep, KernelStep, ScheduleStep, TickStep DEF Next, halted

-----------------------------------------------------------------------------
\* In every reachable state, for every number of processes, the run queue is
\* exactly the set of runnable processes without the CPU, and all variables have
\* their types: wakeup_proc, schedule(), do_fork, do_exit, do_wait, do_sleep and
\* do_kill together never lose or duplicate a process.
THEOREM RunQueueCorrect == Spec => [](TypeOK /\ RunQueueExact)
<1>1. SchedInv => TypeOK /\ RunQueueExact
  BY DEF SchedInv
<1>2. QED
  BY SchedInit, SchedStep, <1>1, PTL DEF Spec

\* A process is asleep exactly when its wait_state names a reason: whatever wakes it
\* (an exit, a timer, a kill) clears both, do_fork's assert(current->wait_state == 0)
\* holds, and do_kill can tell from wait_state whether it has to wake its target.
THEOREM WaitStatesCorrect == Spec => []WaitStateCoherent
<1>1. SchedInv => WaitStateCoherent
  BY DEF SchedInv
<1>2. QED
  BY SchedInit, SchedStep, <1>1, PTL DEF Spec

\* A timer in timer_list belongs to a process inside do_sleep that is neither
\* free nor a zombie: run_timer_list never touches a dead process or a stack
\* frame that is gone, and wakeup_proc's assertion holds there.
THEOREM TimersSafe == Spec => []TimerOwnerInSleep
<1>1. SchedInv => TimerOwnerInSleep
  BY DEF SchedInv
<1>2. QED
  BY SchedInit, SchedStep, <1>1, PTL DEF Spec

\* nr_process is the number of allocated processes, whatever order set_links and
\* remove_links are called in.
THEOREM CountCorrect == Spec => []CountExact
<1>1. SchedInv => CountExact
  BY DEF SchedInv
<1>2. QED
  BY SchedInit, SchedStep, <1>1, PTL DEF Spec
-----------------------------------------------------------------------------
(* The process tree.                                                       *)


Children(p) == {q \in Allocated : parent[q] = p}

\* Only current executes the loop of do_exit, and nothing interrupts it.
ReparentNow ==
    \A p \in Procs : pc[p] = "reparent" => p = current /\ ~resched /\ state[p] = "ZOMBIE"

FreeBlank == \A p \in Procs : state[p] = "FREE" => optr[p] = NULL

\* idle has the only child init; neither has siblings.
RootFixed ==
    /\ parent[idle] = NULL /\ optr[idle] = NULL
    /\ cptr[idle] = init /\ parent[init] = idle /\ optr[init] = NULL /\ yptr[init] = NULL
    /\ \A p \in Procs : parent[p] = idle => p = init

\* The head of a list has no younger sibling; in the loop of do_exit its yptr may
\* still name the one that was handed to init.
YoungestMarked ==
    \A p \in Allocated : cptr[p] # NULL =>
        yptr[cptr[p]] = NULL \/ (pc[p] = "reparent" /\ parent[yptr[cptr[p]]] # p)

ChildrenListed ==
    \A p \in Allocated : \A S \in SUBSET Procs : Follows(p, S) => Children(p) \subseteq S

\* Following parent from anywhere leads to idle.
ParentsGrounded ==
    \A S \in SUBSET Allocated :
        S # {} /\ (\A p \in S \ {idle} : parent[p] \in S) => idle \in S

InitWaits ==
    waitpid[init] = NULL /\ pc[init] \in {"start", "wait", "waitret", "done", "panic"}

\* NoLostChildWakeup in terms of parents.
NoZombieChild ==
    \A p \in Procs : wait_state[p] = "WT_CHILD" =>
        \A q \in Children(p) : waitpid[p] \in {NULL, q} => state[q] # "ZOMBIE"

TreeShape ==
    /\ FreeBlank /\ RootFixed /\ YoungestMarked
    /\ LinksConsistent /\ ChildrenListed /\ ParentsGrounded

TreeInv ==
    /\ SchedInv /\ TreeShape
    /\ ReparentNow /\ ParentCanReap /\ InitWaits /\ NoZombieChild /\ InitAssertions
-----------------------------------------------------------------------------
\* The list do_wait walks is the set of children.
LEMMA SiblingsCorrect == TypeOK /\ TreeShape => SiblingsAreChildren
<1> SUFFICES ASSUME TypeOK, TreeShape, NEW p \in Allocated
             PROVE  Siblings(p) = Children(p)
  BY DEF SiblingsAreChildren, Children
<1> USE ProcsAssumption DEF TreeShape
<1>1. Children(p) \in SUBSET Procs /\ p \in Procs
  BY DEF Children, Allocated
<1>2. Follows(p, Children(p))
  <2>1. idle \notin Children(p)
    BY <1>1 DEF Children, RootFixed
  <2>2. QED
    BY <2>1 DEF Follows, Children, LinksConsistent
<1>3. Siblings(p) \subseteq Children(p)
  BY <1>1, <1>2 DEF Siblings
<1>4. Children(p) \subseteq Siblings(p)
  BY <1>1 DEF Siblings, ChildrenListed
<1>5. QED
  BY <1>3, <1>4

\* What a do_wait looks at, in terms of parents.
LEMMA KidsAreChildren ==
    ASSUME TypeOK, SiblingsAreChildren, NEW p \in Allocated
    PROVE  Kids(p) = {q \in Children(p) : waitpid[p] \in {NULL, q}}
<1>1. waitpid[p] \in Ptr /\ p \in Procs
  BY DEF TypeOK, Allocated
<1>2. CASE waitpid[p] = NULL
  BY <1>2 DEF Kids, SiblingsAreChildren, Children
<1>3. CASE waitpid[p] # NULL
  BY <1>1, <1>3 DEF Kids, Children, Allocated, Ptr
<1>4. QED
  BY <1>2, <1>3

LEMMA NoZombieChildMeans == TypeOK /\ WaitStateCoherent /\ TreeShape /\ NoZombieChild => NoLostChildWakeup
<1> SUFFICES ASSUME TypeOK, WaitStateCoherent, TreeShape, NoZombieChild,
                    NEW p \in Procs, wait_state[p] = "WT_CHILD", NEW q \in Kids(p)
             PROVE  state[q] # "ZOMBIE"
  BY DEF NoLostChildWakeup
<1>1. p \in Allocated
  BY DEF Allocated, WaitStateCoherent
<1>2. q \in Children(p) /\ waitpid[p] \in {NULL, q}
  BY <1>1, SiblingsCorrect, KidsAreChildren
<1>3. QED
  BY <1>2 DEF NoZombieChild

LEMMA TreeInit == Init => TreeInv
<1> SUFFICES ASSUME Init PROVE TreeInv
  OBVIOUS
<1>0. SchedInv
  BY SchedInit
<1> USE ProcsAssumption DEF Init
<1>1. Allocated = {idle, init}
  BY DEF Allocated
<1>2. FreeBlank /\ RootFixed /\ YoungestMarked /\ LinksConsistent
  BY <1>1 DEF FreeBlank, RootFixed, YoungestMarked, LinksConsistent
<1>3. ChildrenListed
  BY <1>1 DEF ChildrenListed, Children, Follows
<1>4. ParentsGrounded
  BY <1>1 DEF ParentsGrounded
<1>5. ReparentNow /\ ParentCanReap /\ InitWaits /\ NoZombieChild /\ InitAssertions
  BY DEF ReparentNow, ParentCanReap, InitWaits, NoZombieChild, InitAssertions, Allocated
<1>6. QED
  BY <1>0, <1>2, <1>3, <1>4, <1>5 DEF TreeInv, TreeShape

\* A step that leaves the pointers and the set of processes alone.
LEMMA ShapeKept ==
    ASSUME TreeShape, UNCHANGED links,
           \A p \in Procs : (state'[p] = "FREE") <=> (state[p] = "FREE"),
           \A p \in Procs : pc[p] = "reparent" => pc'[p] = "reparent" \/ cptr[p] = NULL
    PROVE  TreeShape' /\ Allocated' = Allocated /\ \A p \in Procs : Children(p)' = Children(p)
<1> USE DEF TreeShape, links
<1>1. Allocated' = Allocated
  BY DEF Allocated
<1>2. \A p : Children(p)' = Children(p)
  BY <1>1 DEF Children
<1>3. FreeBlank' /\ RootFixed'
  BY DEF FreeBlank, RootFixed
<1>4. YoungestMarked' /\ LinksConsistent'
  BY <1>1 DEF YoungestMarked, LinksConsistent, Allocated
<1>5. ChildrenListed' /\ ParentsGrounded'
  BY <1>1, <1>2 DEF ChildrenListed, ParentsGrounded, Follows
<1>6. QED
  BY <1>1, <1>2, <1>3, <1>4, <1>5

\* What most steps do to the tree: nothing dies, nobody enters or leaves the loop of
\* do_exit, nobody starts to wait for a child.
Calm ==
    /\ UNCHANGED links
    /\ \A p \in Procs :
          /\ (state'[p] = "FREE") <=> (state[p] = "FREE")
          /\ state'[p] = "ZOMBIE" => state[p] = "ZOMBIE"
          /\ (pc'[p] = "reparent") <=> (pc[p] = "reparent")
          /\ pc[p] = "reparent" => UNCHANGED <<current, resched>> /\ state'[p] = state[p]
          /\ wait_state'[p] = "WT_CHILD" => wait_state[p] = "WT_CHILD" /\ waitpid'[p] = waitpid[p]
    /\ waitpid'[init] = waitpid[init]
    /\ pc'[init] \in {"start", "wait", "waitret", "done", "panic"}
    /\ pc'[init] = "done" => pc[init] = "done" /\ nr_process' = nr_process

LEMMA CalmStep ==
    ASSUME TreeInv, SchedInv', Calm
    PROVE  TreeInv'
<1> USE ProcsAssumption DEF TreeInv, Calm
<1>1. TreeShape' /\ Allocated' = Allocated /\ \A p \in Procs : Children(p)' = Children(p)
  BY ShapeKept
<1>2. ReparentNow' /\ InitWaits'
  BY DEF ReparentNow, InitWaits
<1>3. ParentCanReap'
  BY <1>1 DEF ParentCanReap, links, Allocated, SchedInv, TypeOK, TreeShape, LinksConsistent
<1>4. NoZombieChild'
  BY <1>1 DEF NoZombieChild, Children, Allocated
<1>5. InitAssertions'
  BY <1>1 DEF InitAssertions, links
<1>6. QED
  BY <1>1, <1>2, <1>3, <1>4, <1>5
-----------------------------------------------------------------------------
\* The system calls but fork and exit.
LEMMA CalmSyscall ==
    ASSUME TreeInv,
           \/ sys_fork_fail \/ sys_yield \/ sys_sleep \/ sys_other
           \/ (\E pid \in Ptr : sys_wait(pid)) \/ (\E proc \in Procs : sys_kill(proc))
    PROVE  Calm
<1> USE ProcsAssumption DEF TreeInv, InUser, SchedInv, TypeOK
<1>1. pc[current] = "user" /\ ~resched
  BY DEF sys_fork_fail, sys_yield, sys_sleep, sys_other, sys_wait, sys_kill
<1>2. current # init /\ current # idle /\ wait_state[current] = "0" /\ state[current] = "RUNNABLE"
  BY <1>1, RunningCurrent DEF InitWaits, WaitStateCoherent
<1>3. CASE sys_fork_fail \/ sys_yield \/ sys_other \/ \E pid \in Ptr : sys_wait(pid)
  BY <1>1, <1>2, <1>3
     DEF Calm, sys_fork_fail, sys_yield, sys_other, sys_wait, links, ReparentNow, InitWaits
<1>4. CASE sys_sleep
  BY <1>1, <1>2, <1>4 DEF Calm, sys_sleep, links, ReparentNow, InitWaits
<1>5. ASSUME NEW proc \in Procs, sys_kill(proc) PROVE Calm
  BY <1>1, <1>2, <1>5 DEF Calm, sys_kill, wakeup_proc, Interrupted, links, ReparentNow, InitWaits,
                          WaitStateCoherent
<1>6. QED
  BY <1>3, <1>4, <1>5

LEMMA CalmKernel ==
    ASSUME TreeInv,
           \/ cpu_idle \/ do_wait_repeat \/ do_sleep_return \/ trap_return
           \/ (~resched /\ pc[current] \in {"waitret", "done"} /\ do_exit_panic)
    PROVE  Calm
<1> USE ProcsAssumption DEF TreeInv, SchedInv, TypeOK, Calm, links, ReparentNow, InitWaits
<1>1. CASE cpu_idle
  BY <1>1 DEF cpu_idle, KernelThreadsAlive
<1>2. CASE do_wait_repeat
  BY <1>2 DEF do_wait_repeat
<1>3. CASE do_sleep_return
  BY <1>3 DEF do_sleep_return
<1>4. CASE trap_return
  BY <1>4 DEF trap_return
<1>5. CASE ~resched /\ pc[current] \in {"waitret", "done"} /\ do_exit_panic
  BY <1>5 DEF do_exit_panic
<1>6. QED
  BY <1>1, <1>2, <1>3, <1>4, <1>5

LEMMA CalmSchedule ==
    ASSUME TreeInv, NEW next \in Procs, schedule(next)
    PROVE  Calm
  BY ProcsAssumption DEF schedule, TreeInv, SchedInv, TypeOK, Calm, links, ReparentNow, InitWaits

LEMMA CalmTick ==
    ASSUME TreeInv, NEW expired \in SUBSET timers, NEW used_up \in BOOLEAN,
           run_timer_list(expired, used_up)
    PROVE  Calm
<1> USE ProcsAssumption DEF run_timer_list, TreeInv, SchedInv, TypeOK
<1>1. \A p \in expired : state[p] \in {"SLEEPING", "RUNNABLE"} /\ pc[p] = "sleepret"
  BY DEF TimerOwnerInSleep
<1>2. current \notin {idle, init} => pc[current] = "user"
  BY DEF IntrEnabled
<1>3. QED
  BY <1>1, <1>2 DEF Calm, wakeup_proc, links, ReparentNow, InitWaits

\* do_exit: the parent learns of the zombie.
LEMMA TreeExit ==
    ASSUME TreeInv, SchedInv', do_exit, ~resched, pc[current] \in {"user", "trapret", "waitret"}
    PROVE  TreeInv'
<1> USE ProcsAssumption DEF TreeInv, do_exit, exit_wakes, SchedInv, TypeOK
<1>0. state[current] = "RUNNABLE" /\ current # idle /\ wait_state[current] = "0"
  BY RunningCurrent DEF WaitStateCoherent
<1>1. \A p \in Procs : (state'[p] = "FREE") <=> (state[p] = "FREE")
  BY <1>0 DEF WaitStateCoherent
<1>2. TreeShape' /\ Allocated' = Allocated /\ \A p \in Procs : Children(p)' = Children(p)
  BY <1>1, ShapeKept
<1>3. ReparentNow' /\ InitWaits'
  BY DEF ReparentNow, InitWaits
<1>4. ParentCanReap'
  <2> SUFFICES ASSUME NEW p \in Allocated \ {idle}, state'[parent[p]] = "ZOMBIE"
               PROVE  parent[p] = current /\ pc'[current] = "reparent"
    BY <1>2 DEF ParentCanReap, links
  <2>1. parent[p] \in Procs
    BY DEF TreeShape, LinksConsistent, Allocated
  <2>2. state[parent[p]] # "ZOMBIE"
    BY DEF ParentCanReap
  <2>3. QED
    BY <2>1, <2>2
<1>5. NoZombieChild'
  <2> SUFFICES ASSUME NEW p \in Procs, wait_state'[p] = "WT_CHILD", NEW q \in Children(p)',
                      waitpid'[p] \in {NULL, q}
               PROVE  state'[q] # "ZOMBIE"
    BY DEF NoZombieChild
  <2>0. q \in Children(p)
    BY <1>2
  <2>1. q \in Children(p) /\ parent[q] = p /\ q \in Procs
    BY ONLY <2>0 DEF Children, Allocated
  <2>2. p \notin exit_wakes /\ wait_state[p] = "WT_CHILD"
    OBVIOUS
  <2>3. q # current
    BY <2>1, <2>2
  <2>4. QED
    BY <2>1, <2>2, <2>3 DEF NoZombieChild
<1>6. InitAssertions'
  BY <1>2 DEF InitAssertions, links
<1>7. QED
  BY <1>2, <1>3, <1>4, <1>5, <1>6

\* The loop of do_exit ends when nobody is left below the zombie.
LEMMA TreeExitEnds ==
    ASSUME TreeInv, SchedInv', exit_schedule
    PROVE  TreeInv'
<1> USE ProcsAssumption DEF TreeInv, exit_schedule, SchedInv, TypeOK
<1>1. TreeShape' /\ Allocated' = Allocated /\ \A p \in Procs : Children(p)' = Children(p)
  BY ShapeKept DEF ReparentNow
<1>2. ReparentNow' /\ InitWaits' /\ NoZombieChild' /\ InitAssertions'
  BY <1>1 DEF ReparentNow, InitWaits, NoZombieChild, InitAssertions, links
<1>3. Children(current) = {}
  <2>1. current \in Allocated /\ Follows(current, {})
    BY DEF CurrentAwake, Allocated, Follows
  <2>2. QED
    BY <2>1 DEF TreeShape, ChildrenListed
<1>4. ParentCanReap'
  BY <1>1, <1>3 DEF ParentCanReap, links, Children
<1>5. QED
  BY <1>1, <1>2, <1>4

\* do_wait goes to sleep only when no child it waits for is a zombie.
LEMMA TreeWaitSleep ==
    ASSUME TreeInv, SchedInv', do_wait_sleep
    PROVE  TreeInv'
<1> USE ProcsAssumption DEF TreeInv, do_wait_sleep, SchedInv, TypeOK
<1>0. state[current] = "RUNNABLE" /\ current # idle /\ current \in Allocated
  BY RunningCurrent DEF Allocated
<1>1. TreeShape' /\ Allocated' = Allocated /\ \A p \in Procs : Children(p)' = Children(p)
  BY <1>0, ShapeKept
<1>2. ReparentNow' /\ InitWaits' /\ InitAssertions'
  BY <1>1 DEF ReparentNow, InitWaits, InitAssertions, links
<1>3. ParentCanReap'
  BY <1>0, <1>1 DEF ParentCanReap, links, Allocated, TreeShape, LinksConsistent
<1>4. NoZombieChild'
  <2>1. Kids(current) = {q \in Children(current) : waitpid[current] \in {NULL, q}}
    BY <1>0, SiblingsCorrect, KidsAreChildren
  <2>2. QED
    BY <1>0, <1>1, <2>1 DEF NoZombieChild, Children, Allocated
<1>5. QED
  BY <1>1, <1>2, <1>3, <1>4

\* Once init has no children only idle and init are left.
LEMMA InitAlone ==
    ASSUME TypeOK, KernelThreadsAlive, TreeShape, Children(init) = {}
    PROVE  Allocated = {idle, init}
<1> USE ProcsAssumption DEF TreeShape
<1> DEFINE S == Allocated \ {idle, init}
<1>1. idle \in Allocated /\ init \in Allocated
  BY DEF KernelThreadsAlive, Allocated
<1>2. \A p \in S \ {idle} : parent[p] \in S
  BY DEF LinksConsistent, RootFixed, Children, Allocated
<1>3. S = {}
  BY <1>2 DEF ParentsGrounded
<1>4. QED
  BY <1>1, <1>3

LEMMA TreeNoKid ==
    ASSUME TreeInv, SchedInv', do_wait_nokid
    PROVE  TreeInv'
<1> USE ProcsAssumption DEF TreeInv, do_wait_nokid
<1>0. /\ state[current] = "RUNNABLE" /\ current # idle /\ current \in Allocated
      /\ wait_state[current] = "0"
  BY RunningCurrent DEF Allocated, SchedInv, TypeOK, WaitStateCoherent
<1>1. CASE current # init
  <2>1. Calm
    BY <1>0, <1>1 DEF Calm, links, ReparentNow, InitWaits, SchedInv, TypeOK
  <2>2. QED
    BY <2>1, CalmStep
<1>2. CASE current = init
  <2>1. TreeShape' /\ Allocated' = Allocated /\ \A p \in Procs : Children(p)' = Children(p)
    BY ShapeKept DEF SchedInv, TypeOK
  <2>2. ReparentNow' /\ InitWaits' /\ ParentCanReap' /\ NoZombieChild'
    BY <1>0, <1>2, <2>1 DEF ReparentNow, InitWaits, ParentCanReap, NoZombieChild, SchedInv, TypeOK, links
  <2>3. Children(init) = {}
    BY <1>0, <1>2, SiblingsCorrect, KidsAreChildren DEF SchedInv, InitWaits
  <2>4. Allocated = {idle, init}
    BY <2>3, InitAlone DEF SchedInv
  <2>5. nr_process = 2
    <3>1. Cardinality({idle}) = 1 /\ IsFiniteSet({idle})
      BY FS_Singleton
    <3>2. Cardinality({idle} \cup {init}) = Cardinality({idle}) + 1
      BY <3>1, FS_AddElement
    <3>3. {idle} \cup {init} = {idle, init}
      OBVIOUS
    <3>4. QED
      BY <2>4, <3>1, <3>2, <3>3 DEF SchedInv, CountExact
  <2>6. cptr[init] = NULL
    BY <1>0, <1>2, <2>3 DEF TreeShape, LinksConsistent, Children
  <2>7. InitAssertions'
    BY <2>1, <2>4, <2>5, <2>6 DEF InitAssertions, links, TreeShape, RootFixed
  <2>8. QED
    BY <2>1, <2>2, <2>7
<1>3. QED
  BY <1>1, <1>2
-----------------------------------------------------------------------------
\* set_links in do_fork: the new process becomes the head of the list of current.
LEMMA TreeFork ==
    ASSUME TreeInv, SchedInv', NEW proc \in Procs, NEW next, do_fork(proc, "user", next), ~resched,
           \/ pc[current] = "user" /\ next = "trapret"
           \/ current = init /\ pc[init] = "start" /\ next = "wait"
    PROVE  TreeInv'
<1> USE ProcsAssumption
<1>0. TypeOK /\ current \in Procs /\ cptr[current] \in Ptr
  BY DEF TreeInv, SchedInv, TypeOK
<1>1. /\ state[current] = "RUNNABLE" /\ current # idle /\ wait_state[current] = "0"
      /\ current \in Allocated
  BY RunningCurrent DEF TreeInv, SchedInv, TypeOK, WaitStateCoherent, Allocated
<1>2. proc \notin Allocated /\ proc \notin {idle, init, current} /\ Allocated' = Allocated \cup {proc}
  BY <1>0, <1>1 DEF do_fork, Allocated, TreeInv, SchedInv, TypeOK, KernelThreadsAlive
<1>3. /\ \A p \in Procs : parent'[p] = IF p = proc THEN current ELSE parent[p]
      /\ \A p \in Procs : optr'[p] = IF p = proc THEN cptr[current] ELSE optr[p]
      /\ \A p \in Procs : cptr'[p] = IF p = current THEN proc ELSE IF p = proc THEN NULL ELSE cptr[p]
      /\ \A p \in Procs : yptr'[p] = IF p = proc THEN NULL ELSE IF p = cptr[current] THEN proc ELSE yptr[p]
      /\ \A p \in Procs : state'[p] = IF p = proc THEN "RUNNABLE" ELSE state[p]
      /\ \A p \in Procs : pc'[p] = IF p = current THEN next ELSE IF p = proc THEN "user" ELSE pc[p]
  BY <1>0, <1>2 DEF do_fork, TypeOK
<1>4. \A p \in Allocated : parent[p] # proc /\ cptr[p] # proc /\ optr[p] # proc /\ p # proc
  BY <1>2 DEF TreeInv, TreeShape, LinksConsistent, RootFixed
<1>5. \A p \in Procs : p \in Allocated \/ state[p] = "FREE"
  BY DEF Allocated
<1>6. FreeBlank'
  BY <1>3, <1>5 DEF TreeInv, TreeShape, FreeBlank
<1>7. RootFixed'
  <2>1. cptr[current] # init
    BY <1>1 DEF TreeInv, TreeShape, LinksConsistent, RootFixed
  <2>2. QED
    BY <1>1, <1>2, <1>3, <2>1 DEF TreeInv, TreeShape, RootFixed
<1>8. YoungestMarked'
  <2> SUFFICES ASSUME NEW p \in Allocated', cptr'[p] # NULL
               PROVE  yptr'[cptr'[p]] = NULL \/ (pc'[p] = "reparent" /\ parent'[yptr'[cptr'[p]]] # p)
    BY DEF YoungestMarked
  <2>0. p \in Procs /\ p # proc
    BY <1>2, <1>3 DEF Allocated
  <2>1. CASE p = current
    BY <1>0, <1>3, <2>1
  <2>2. CASE p # current
    <3>1. p \in Allocated /\ cptr'[p] = cptr[p] /\ pc[p] # "reparent" /\ cptr[p] \in Allocated /\ parent[cptr[p]] = p
      BY <1>0, <1>1, <1>2, <1>3, <2>0, <2>2 DEF TreeInv, ReparentNow, TreeShape, LinksConsistent
    <3>2. cptr[p] # cptr[current] /\ yptr[cptr[p]] = NULL /\ cptr[p] # proc /\ cptr[p] \in Procs
      BY <1>1, <1>2, <2>2, <3>1 DEF TreeInv, TreeShape, YoungestMarked, LinksConsistent, Allocated
    <3>3. QED
      BY <1>3, <3>1, <3>2
  <2>3. QED
    BY <2>1, <2>2
<1>9. LinksConsistent'
  <2>0. Allocated \subseteq Procs /\ Allocated' \subseteq Procs
    BY <1>2 DEF Allocated
  <2>1. ASSUME NEW p \in Allocated', cptr'[p] # NULL
        PROVE  /\ cptr'[p] \in Allocated' /\ parent'[cptr'[p]] = p
               /\ yptr'[cptr'[p]] = NULL \/ pc'[p] = "reparent"
    <3>1. p \in Procs /\ (p = current \/ (p # proc /\ p \in Allocated /\ cptr'[p] = cptr[p]))
      BY <1>2, <1>3, <2>0, <2>1
    <3>2. CASE p = current
      BY <1>0, <1>2, <1>3, <3>2
    <3>3. CASE p # current
      BY <1>2, <1>3, <1>4, <1>8, <2>0, <2>1, <3>1, <3>3 DEF TreeInv, TreeShape, LinksConsistent, YoungestMarked
    <3>4. QED
      BY <3>2, <3>3
  <2>2. ASSUME NEW p \in Allocated' \ {idle}
        PROVE  /\ parent'[p] \in Allocated'
               /\ cptr'[parent'[p]] # p =>
                      /\ yptr'[p] \in Allocated' /\ optr'[yptr'[p]] = p
                      /\ parent'[yptr'[p]] = parent'[p]
               /\ optr'[p] # NULL =>
                      /\ optr'[p] \in Allocated' /\ yptr'[optr'[p]] = p
                      /\ parent'[optr'[p]] = parent'[p]
    <3>1. CASE p = proc
      <4>1. parent'[p] = current /\ cptr'[current] = p /\ optr'[p] = cptr[current]
        BY <1>0, <1>3, <3>1
      <4>2. cptr[current] # NULL => /\ cptr[current] \in Allocated /\ parent[cptr[current]] = current
        BY <1>1 DEF TreeInv, TreeShape, LinksConsistent
      <4>3. QED
        BY <1>1, <1>2, <1>3, <2>0, <3>1, <4>1, <4>2
    <3>2. CASE p # proc
      <4>1. p \in Allocated /\ p \in Procs /\ parent'[p] = parent[p] /\ optr'[p] = optr[p]
        BY <1>2, <1>3, <2>0, <3>2
      <4>2. /\ parent[p] \in Allocated
            /\ cptr[parent[p]] # p =>
                      /\ yptr[p] \in Allocated /\ optr[yptr[p]] = p
                      /\ parent[yptr[p]] = parent[p]
            /\ optr[p] # NULL =>
                      /\ optr[p] \in Allocated /\ yptr[optr[p]] = p
                      /\ parent[optr[p]] = parent[p]
        BY <4>1 DEF TreeInv, TreeShape, LinksConsistent
      <4>3. cptr'[parent[p]] # p =>
                      /\ yptr'[p] \in Allocated' /\ optr'[yptr'[p]] = p
                      /\ parent'[yptr'[p]] = parent'[p]
        <5>1. CASE p = cptr[current]
          <6>1. yptr'[p] = proc /\ optr'[proc] = p /\ parent'[proc] = current
            BY <1>3, <3>2, <4>1, <5>1
          <6>2. parent[p] = current
            BY <1>0, <1>1, <5>1, <4>1 DEF TreeInv, TreeShape, LinksConsistent
          <6>3. QED
            BY <1>2, <4>1, <6>1, <6>2
        <5>2. CASE p # cptr[current]
          <6>1. (yptr'[p] = yptr[p] /\ cptr[parent[p]] # p) \/ cptr'[parent[p]] = p
            BY <1>3, <1>4, <2>0, <3>2, <4>1, <4>2, <5>2
          <6>2. QED
            BY <1>2, <1>3, <1>4, <2>0, <4>1, <4>2, <6>1
        <5>3. QED
          BY <5>1, <5>2
      <4>4. optr'[p] # NULL =>
                      /\ optr'[p] \in Allocated' /\ yptr'[optr'[p]] = p
                      /\ parent'[optr'[p]] = parent'[p]
        <5> SUFFICES ASSUME optr[p] # NULL
                     PROVE  optr[p] \in Allocated' /\ yptr'[optr[p]] = p /\ parent'[optr[p]] = parent[p]
          BY <4>1
        <5>1. optr[p] # cptr[current]
          <6> SUFFICES ASSUME optr[p] = cptr[current] PROVE FALSE
            OBVIOUS
          <6>1. yptr[cptr[current]] = NULL
            BY <1>1, <1>0 DEF TreeInv, TreeShape, YoungestMarked, ReparentNow
          <6>2. QED
            BY <4>1, <4>2, <6>1, <2>0
        <5>2. QED
          BY <1>2, <1>3, <1>4, <2>0, <4>1, <4>2, <5>1
      <4>5. QED
        BY <1>2, <4>1, <4>2, <4>3, <4>4
    <3>3. QED
      BY <3>1, <3>2
  <2>3. QED
    BY <2>1, <2>2 DEF LinksConsistent
<1>10. /\ Children(proc)' = {}
       /\ \A p \in Procs \ {proc} :
             Children(p)' = IF p = current THEN Children(p) \cup {proc} ELSE Children(p)
  BY <1>2, <1>3, <1>4 DEF Children, Allocated
<1>11. ChildrenListed'
  <2> SUFFICES ASSUME NEW p \in Allocated', NEW S \in SUBSET Procs, Follows(p, S)'
               PROVE  Children(p)' \subseteq S
    BY DEF ChildrenListed
  <2>1. CASE p = proc
    BY <1>10, <2>1
  <2>2. CASE p # proc
    <3>0. p \in Allocated /\ p \in Procs
      BY <1>2, <2>2 DEF Allocated
    <3>1. \A q \in S : optr[q] # NULL => optr[q] \in S
      BY <1>3, <1>2, <1>5 DEF Follows, TreeInv, TreeShape, FreeBlank
    <3>2. (p = current => proc \in S) /\ (cptr[p] # NULL => cptr[p] \in S)
      BY <1>0, <1>3, <2>2, <3>0 DEF Follows
    <3>3. Children(p) \subseteq S
      BY <3>0, <3>1, <3>2 DEF Follows, TreeInv, TreeShape, ChildrenListed
    <3>4. QED
      BY <1>10, <2>2, <3>0, <3>2, <3>3
  <2>3. QED
    BY <2>1, <2>2
<1>12. ParentsGrounded'
  <2> SUFFICES ASSUME NEW S \in SUBSET Allocated', S # {}, \A p \in S \ {idle} : parent'[p] \in S
               PROVE  idle \in S
    BY DEF ParentsGrounded
  <2> DEFINE T == S \ {proc}
  <2>1. T \in SUBSET Allocated /\ T \in SUBSET Procs
    BY <1>2 DEF Allocated
  <2>2. T # {}
    BY <1>1, <1>2, <1>3
  <2>3. \A p \in T \ {idle} : parent[p] \in T
    BY <1>3, <1>4, <2>1
  <2>4. QED
    BY <2>1, <2>2, <2>3 DEF TreeInv, TreeShape, ParentsGrounded
<1>13. ReparentNow' /\ InitWaits'
  BY <1>0, <1>1, <1>2, <1>3 DEF TreeInv, ReparentNow, InitWaits, do_fork, TypeOK
<1>14. ParentCanReap'
  BY <1>1, <1>2, <1>3, <1>4 DEF TreeInv, ParentCanReap, TreeShape, LinksConsistent, Allocated, do_fork
<1>15. NoZombieChild'
  <2> SUFFICES ASSUME NEW p \in Procs, wait_state'[p] = "WT_CHILD", NEW q \in Children(p)',
                      waitpid'[p] \in {NULL, q}
               PROVE  state'[q] # "ZOMBIE"
    BY DEF NoZombieChild
  <2>1. p # proc /\ p # current /\ wait_state[p] = "WT_CHILD" /\ waitpid'[p] = waitpid[p]
    BY <1>0, <1>1 DEF do_fork, TypeOK
  <2>2. q \in Children(p) /\ q # proc /\ q \in Procs
    BY <1>2, <1>10, <2>1 DEF Children, Allocated
  <2>3. QED
    BY <1>3, <2>1, <2>2 DEF TreeInv, NoZombieChild
<1>16. InitAssertions'
  <2>1. pc'[init] # "done"
    <3>1. CASE current = init
      BY <1>3, <3>1 DEF TreeInv, InitWaits
    <3>2. CASE current # init
      BY <1>1, <1>2, <1>3, <3>2 DEF TreeInv, InitAssertions
    <3>3. QED
      BY <3>1, <3>2
  <2>2. QED
    BY <2>1 DEF InitAssertions
<1>17. QED
  BY <1>6, <1>7, <1>8, <1>9, <1>11, <1>12, <1>13, <1>14, <1>15, <1>16 DEF TreeInv, TreeShape
-----------------------------------------------------------------------------
\* One turn of the loop of do_exit: the head of the list of current becomes the head
\* of the list of init.
LEMMA TreeReparent ==
    ASSUME TreeInv, SchedInv', reparent
    PROVE  TreeInv'
<1> USE ProcsAssumption
<1> DEFINE proc == cptr[current]
           old == cptr[init]
           W == reparent_wakes(proc)
<1>0. /\ TypeOK /\ current \in Procs /\ current \in Allocated /\ Allocated \subseteq Procs
      /\ init \in Allocated /\ pc[init] # "reparent" /\ pc[current] = "reparent"
      /\ current # init /\ current # idle
  BY DEF reparent, TreeInv, SchedInv, TypeOK, Allocated, CurrentAwake, InitWaits, KernelThreadsAlive
<1>1. proc \in Allocated /\ parent[proc] = current /\ proc \in Procs /\ proc \notin {idle, init, NULL}
  BY <1>0 DEF reparent, TreeInv, TreeShape, LinksConsistent, RootFixed
<1>2. old # NULL => old \in Allocated /\ parent[old] = init /\ yptr[old] = NULL /\ old \notin {proc, init, idle}
  BY <1>0, <1>1 DEF TreeInv, TreeShape, LinksConsistent, RootFixed
<1>3. /\ \A p \in Procs : parent'[p] = IF p = proc THEN init ELSE parent[p]
      /\ \A p \in Procs : optr'[p] = IF p = proc THEN old ELSE optr[p]
      /\ \A p \in Procs : cptr'[p] = IF p = init THEN proc ELSE IF p = current THEN optr[proc] ELSE cptr[p]
      /\ \A p \in Procs : yptr'[p] = IF p = proc THEN NULL ELSE IF p = old THEN proc ELSE yptr[p]
      /\ pc' = pc /\ current' = current /\ resched' = resched /\ waitpid' = waitpid
  BY <1>0, <1>1 DEF reparent, TypeOK
<1>4. wakeup_proc(W) /\ W \subseteq {init}
  BY DEF reparent, reparent_wakes
<1>5. /\ \A p \in Procs : state'[p] = state[p] \/ (p = init /\ state'[p] = "RUNNABLE")
      /\ \A p \in Procs : wait_state'[p] # "0" => wait_state'[p] = wait_state[p]
      /\ Allocated' = Allocated
  BY <1>0, <1>4 DEF wakeup_proc, Allocated, TypeOK
<1>6. \A r \in Allocated : optr[r] # proc
  <2> SUFFICES ASSUME NEW r \in Allocated, optr[r] = proc PROVE FALSE
    OBVIOUS
  <2>1. yptr[proc] = r /\ parent[r] = current /\ r # NULL
    BY <1>0, <1>1 DEF TreeInv, TreeShape, LinksConsistent, RootFixed
  <2>2. QED
    BY <1>0, <1>1, <2>1 DEF TreeInv, TreeShape, YoungestMarked
<1>7. optr[proc] # NULL =>
         /\ optr[proc] \in Allocated /\ yptr[optr[proc]] = proc /\ parent[optr[proc]] = current
         /\ optr[proc] \notin {proc, init, idle, old}
  BY <1>0, <1>1, <1>2, <1>6 DEF TreeInv, TreeShape, LinksConsistent, RootFixed
<1> HIDE DEF proc, old, W
<1>8. FreeBlank' /\ RootFixed'
  <2>1. FreeBlank'
    BY <1>1, <1>3, <1>5 DEF TreeInv, TreeShape, FreeBlank, Allocated
  <2>2. RootFixed'
    BY <1>0, <1>1, <1>2, <1>3 DEF TreeInv, TreeShape, RootFixed
  <2>3. QED
    BY <2>1, <2>2
<1>9. YoungestMarked'
  <2> SUFFICES ASSUME NEW p \in Allocated, cptr'[p] # NULL
               PROVE  yptr'[cptr'[p]] = NULL \/ (pc[p] = "reparent" /\ parent'[yptr'[cptr'[p]]] # p)
    BY <1>3, <1>5 DEF YoungestMarked
  <2>1. CASE p = init
    BY <1>0, <1>1, <1>3, <2>1
  <2>2. CASE p = current
    <3>1. cptr'[p] = optr[proc] /\ yptr'[optr[proc]] = proc /\ parent'[proc] = init
      BY <1>0, <1>1, <1>3, <1>7, <2>2
    <3>2. QED
      BY <1>0, <2>2, <3>1
  <2>3. CASE p \notin {init, current}
    <3>1. cptr'[p] = cptr[p] /\ cptr[p] \in Allocated /\ parent[cptr[p]] = p /\ pc[p] # "reparent"
      BY <1>0, <1>3, <2>3 DEF TreeInv, TreeShape, LinksConsistent, ReparentNow
    <3>2. cptr[p] \notin {proc, old} /\ yptr[cptr[p]] = NULL
      BY <1>1, <1>2, <2>3, <3>1 DEF TreeInv, TreeShape, YoungestMarked
    <3>3. QED
      BY <1>0, <1>3, <3>1, <3>2
  <2>4. QED
    BY <2>1, <2>2, <2>3
<1>10. LinksConsistent'
  <2>1. ASSUME NEW p \in Allocated, cptr'[p] # NULL
        PROVE  /\ cptr'[p] \in Allocated /\ parent'[cptr'[p]] = p
               /\ yptr'[cptr'[p]] = NULL \/ pc[p] = "reparent"
    <3>1. CASE p = init
      BY <1>0, <1>1, <1>3, <3>1
    <3>2. CASE p = current
      BY <1>0, <1>1, <1>3, <1>7, <2>1, <3>2
    <3>3. CASE p \notin {init, current}
      <4>1. cptr'[p] = cptr[p] /\ cptr[p] \in Allocated /\ parent[cptr[p]] = p
        BY <1>0, <1>3, <2>1, <3>3 DEF TreeInv, TreeShape, LinksConsistent
      <4>2. cptr[p] # NULL
        BY <2>1, <4>1
      <4>3. cptr[p] # proc /\ cptr[p] # old
        BY <1>1, <1>2, <3>3, <4>1, <4>2
      <4>4. QED
        BY <1>0, <1>3, <1>5, <1>9, <2>1, <4>1, <4>3 DEF YoungestMarked
    <3>4. QED
      BY <3>1, <3>2, <3>3
  <2>2. ASSUME NEW p \in Allocated \ {idle}
        PROVE  /\ parent'[p] \in Allocated
               /\ cptr'[parent'[p]] # p =>
                      /\ yptr'[p] \in Allocated /\ optr'[yptr'[p]] = p
                      /\ parent'[yptr'[p]] = parent'[p]
               /\ optr'[p] # NULL =>
                      /\ optr'[p] \in Allocated /\ yptr'[optr'[p]] = p
                      /\ parent'[optr'[p]] = parent'[p]
    <3>0. /\ parent[p] \in Allocated
          /\ cptr[parent[p]] # p =>
                      /\ yptr[p] \in Allocated /\ optr[yptr[p]] = p
                      /\ parent[yptr[p]] = parent[p]
          /\ optr[p] # NULL =>
                      /\ optr[p] \in Allocated /\ yptr[optr[p]] = p
                      /\ parent[optr[p]] = parent[p]
      BY DEF TreeInv, TreeShape, LinksConsistent
    <3>1. CASE p = proc
      BY <1>0, <1>1, <1>2, <1>3, <3>1
    <3>2. CASE p = old
      <4>1. p # proc /\ parent'[p] = init /\ yptr'[p] = proc /\ optr'[proc] = p /\ parent'[proc] = init
        BY <1>0, <1>1, <1>2, <1>3, <3>2
      <4>2. optr'[p] = optr[p]
        BY <1>0, <1>3, <4>1
      <4>3. optr[p] # NULL => optr[p] \notin {proc, old}
        BY <1>0, <1>2, <1>6, <3>0, <3>2
      <4>4. QED
        BY <1>0, <1>1, <1>2, <1>3, <3>0, <3>2, <4>1, <4>2, <4>3
    <3>3. CASE p \notin {proc, old}
      <4>1. parent'[p] = parent[p] /\ yptr'[p] = yptr[p] /\ optr'[p] = optr[p]
        BY <1>0, <1>3, <3>3
      <4>2. cptr'[parent[p]] # p =>
                      /\ yptr'[p] \in Allocated /\ optr'[yptr'[p]] = p
                      /\ parent'[yptr'[p]] = parent'[p]
        <5> SUFFICES ASSUME cptr'[parent[p]] # p
                     PROVE  yptr[p] \in Allocated /\ optr'[yptr[p]] = p /\ parent'[yptr[p]] = parent[p]
          BY <4>1
        <5>1. cptr[parent[p]] # p
          BY <1>0, <1>3, <3>0, <3>3 DEF proc, old
        <5>2. yptr[p] # proc
          <6> SUFFICES ASSUME yptr[p] = proc PROVE FALSE
            OBVIOUS
          <6>1. optr[proc] = p /\ parent[p] = current
            BY <1>1, <3>0, <5>1
          <6>2. QED
            BY <1>0, <1>3, <6>1
        <5>3. QED
          BY <1>0, <1>3, <3>0, <5>1, <5>2
      <4>3. optr[p] # NULL => optr[p] \notin {proc, old}
        BY <1>0, <1>2, <1>6, <3>0
      <4>4. QED
        BY <1>0, <1>3, <3>0, <4>1, <4>2, <4>3
    <3>4. QED
      BY <3>1, <3>2, <3>3
  <2>3. QED
    BY <1>3, <1>5, <2>1, <2>2 DEF LinksConsistent
<1>11. \A p \in Procs :
          Children(p)' = IF p = init THEN Children(p) \cup {proc}
                         ELSE IF p = current THEN Children(p) \ {proc} ELSE Children(p)
  BY <1>0, <1>1, <1>3, <1>5 DEF Children
<1>12. ChildrenListed'
  <2> SUFFICES ASSUME NEW p \in Allocated, NEW S \in SUBSET Procs, Follows(p, S)'
               PROVE  Children(p)' \subseteq S
    BY <1>5 DEF ChildrenListed
  <2>0. \A q \in S \ {proc} : optr[q] # NULL => optr[q] \in S
    BY <1>3 DEF Follows
  <2>1. CASE p = current
    <3> DEFINE T == S \cup {proc}
    <3>1. T \in SUBSET Procs
      BY <1>1
    <3>2. Follows(p, T)
      BY <1>0, <1>1, <1>3, <2>0, <2>1 DEF Follows, proc
    <3>3. Children(p) \subseteq T
      BY <3>1, <3>2 DEF TreeInv, TreeShape, ChildrenListed
    <3>4. QED
      BY <1>0, <1>11, <2>1, <3>3
  <2>2. CASE p # current
    <3> DEFINE T == S \ {proc}
    <3>1. \A q \in T : optr[q] # NULL => optr[q] \in T
      BY <1>0, <1>6, <2>0 DEF TreeInv, TreeShape, FreeBlank, Allocated
    <3>2. cptr[p] # NULL => cptr[p] # proc
      BY <1>0, <1>1, <2>2 DEF TreeInv, TreeShape, LinksConsistent
    <3>3. cptr[p] # NULL => cptr[p] \in S
      <4>1. CASE p = init
        BY <1>0, <1>1, <1>2, <1>3, <4>1 DEF Follows, old
      <4>2. CASE p # init
        BY <1>0, <1>3, <2>2, <4>2 DEF Follows
      <4>3. QED
        BY <4>1, <4>2
    <3>4. Children(p) \subseteq T
      BY <3>1, <3>2, <3>3 DEF TreeInv, TreeShape, ChildrenListed, Follows
    <3>5. p = init => proc \in S
      BY <1>0, <1>1, <1>3 DEF Follows
    <3>6. QED
      BY <1>0, <1>11, <2>2, <3>4, <3>5
  <2>3. QED
    BY <2>1, <2>2
<1>13. ParentsGrounded'
  <2> SUFFICES ASSUME NEW S \in SUBSET Allocated, S # {}, \A p \in S \ {idle} : parent'[p] \in S
               PROVE  idle \in S
    BY <1>5 DEF ParentsGrounded
  <2>1. CASE proc \in S
    <3>1. init \in S
      BY <1>1, <1>3, <2>1
    <3>2. parent'[init] = idle
      BY <1>8 DEF RootFixed
    <3>3. QED
      BY <3>1, <3>2
  <2>2. CASE proc \notin S
    BY <1>0, <1>3, <2>2 DEF TreeInv, TreeShape, ParentsGrounded
  <2>3. QED
    BY <2>1, <2>2
<1>14. ReparentNow' /\ InitWaits'
  BY <1>0, <1>3, <1>5 DEF TreeInv, ReparentNow, InitWaits
<1>15. ParentCanReap'
  <2> SUFFICES ASSUME NEW p \in Allocated \ {idle}, state'[parent'[p]] = "ZOMBIE"
               PROVE  parent'[p] = current /\ pc[current] = "reparent"
    BY <1>3, <1>5 DEF ParentCanReap
  <2>1. p # proc
    BY <1>0, <1>1, <1>3, <1>5 DEF TreeInv, SchedInv, KernelThreadsAlive
  <2>2. parent'[p] = parent[p] /\ parent[p] \in Procs /\ state[parent[p]] = "ZOMBIE"
    BY <1>0, <1>3, <1>5, <2>1 DEF TreeInv, TreeShape, LinksConsistent
  <2>3. QED
    BY <2>2 DEF TreeInv, ParentCanReap
<1>16. NoZombieChild'
  <2> SUFFICES ASSUME NEW p \in Procs, wait_state'[p] = "WT_CHILD", NEW q \in Children(p)',
                      waitpid'[p] \in {NULL, q}, state'[q] = "ZOMBIE"
               PROVE  FALSE
    BY DEF NoZombieChild
  <2>1. wait_state[p] = "WT_CHILD"
    BY <1>5
  <2>2. q \in Allocated
    BY <1>5 DEF Children
  <2>3. state[q] = "ZOMBIE"
    BY <1>0, <1>5, <2>2
  <2>4. CASE q \in Children(p)
    BY <1>3, <2>1, <2>3, <2>4 DEF TreeInv, NoZombieChild
  <2>5. CASE q \notin Children(p)
    <3>1. p = init /\ q = proc
      BY <1>11, <2>5
    <3>2. init \in W /\ state[init] # "RUNNABLE"
      BY <2>1, <2>3, <3>1 DEF W, reparent_wakes, TreeInv, SchedInv, WaitStateCoherent
    <3>3. wait_state'[init] = "0"
      BY <1>4, <3>2 DEF wakeup_proc
    <3>4. QED
      BY <3>1, <3>3
  <2>6. QED
    BY <2>4, <2>5
<1>17. InitAssertions'
  BY <1>0, <1>3 DEF TreeInv, InitAssertions
<1>18. QED
  BY <1>8, <1>9, <1>10, <1>12, <1>13, <1>14, <1>15, <1>16, <1>17 DEF TreeInv, TreeShape
-----------------------------------------------------------------------------
\* What do_wait knows of the zombie it found: nobody is below it, and its siblings,
\* if it has any, are where its pointers say.
LEMMA FoundZombie ==
    ASSUME TreeInv, pc[current] = "wait", ~resched,
           NEW proc \in Kids(current), state[proc] = "ZOMBIE"
    PROVE  /\ current \in Allocated \ {idle} /\ proc \in Allocated \ {idle, init, current}
           /\ parent[proc] = current /\ Children(proc) = {} /\ cptr[proc] = NULL
           /\ yptr[proc] = NULL <=> cptr[current] = proc
           /\ yptr[proc] # NULL => /\ yptr[proc] \in Allocated \ {idle, init, proc}
                                   /\ optr[yptr[proc]] = proc /\ parent[yptr[proc]] = current
           /\ optr[proc] # NULL => /\ optr[proc] \in Allocated \ {idle, init, proc}
                                   /\ yptr[optr[proc]] = proc /\ parent[optr[proc]] = current
           /\ \A p \in Procs : pc[p] # "reparent"
           /\ \A p \in Allocated : cptr[p] # NULL => yptr[cptr[p]] = NULL
<1> USE ProcsAssumption
<1>1. /\ TypeOK /\ current \in Allocated /\ current # idle /\ state[current] = "RUNNABLE"
      /\ Allocated \subseteq Procs
  BY RunningCurrent DEF TreeInv, SchedInv, TypeOK, Allocated
<1>2. proc \in Children(current)
  BY <1>1, SiblingsCorrect, KidsAreChildren DEF TreeInv
<1>3. proc \in Allocated /\ parent[proc] = current /\ proc \notin {idle, init, current}
  BY <1>1, <1>2 DEF Children, TreeInv, SchedInv, KernelThreadsAlive
<1>4. Children(proc) = {}
  <2> SUFFICES ASSUME NEW q \in Allocated, parent[q] = proc PROVE FALSE
    BY DEF Children
  <2>1. q # idle
    BY <1>1, <1>3 DEF TreeInv, TreeShape, RootFixed
  <2>2. QED
    BY <1>3, <2>1 DEF TreeInv, ParentCanReap
<1>5. cptr[proc] = NULL
  BY <1>3, <1>4 DEF Children, TreeInv, TreeShape, LinksConsistent
<1>6. /\ \A p \in Procs : pc[p] # "reparent"
      /\ \A p \in Allocated : cptr[p] # NULL => yptr[cptr[p]] = NULL
  BY <1>1 DEF TreeInv, TreeShape, YoungestMarked, ReparentNow
<1>7. cptr[current] # proc => /\ yptr[proc] \in Allocated
                              /\ optr[yptr[proc]] = proc /\ parent[yptr[proc]] = current
  BY <1>3 DEF TreeInv, TreeShape, LinksConsistent
<1>8. yptr[proc] = NULL <=> cptr[current] = proc
  BY <1>1, <1>3, <1>6, <1>7
<1>9. optr[proc] # NULL => /\ optr[proc] \in Allocated
                           /\ yptr[optr[proc]] = proc /\ parent[optr[proc]] = current
  BY <1>3 DEF TreeInv, TreeShape, LinksConsistent
<1>10. \A p \in Allocated : parent[p] = current => p \notin {idle, init}
  BY <1>1 DEF TreeInv, TreeShape, RootFixed
<1>11. yptr[proc] # proc
  <2> SUFFICES ASSUME yptr[proc] = proc PROVE FALSE
    OBVIOUS
  <2> DEFINE S == Children(current) \ {proc}
  <2>1. cptr[current] # proc
    BY <1>1, <1>3, <1>8
  <2>2. cptr[current] # NULL => cptr[current] \in S
    BY <1>1, <2>1 DEF Children, TreeInv, TreeShape, LinksConsistent
  <2>3. ASSUME NEW q \in S, optr[q] # NULL PROVE optr[q] \in S
    <3>1. q \in Allocated /\ parent[q] = current /\ q # proc /\ q # idle
      BY <1>10 DEF Children
    <3>2. optr[q] \in Allocated /\ yptr[optr[q]] = q /\ parent[optr[q]] = current
      BY <2>3, <3>1 DEF TreeInv, TreeShape, LinksConsistent
    <3>3. QED
      BY <3>1, <3>2 DEF Children
  <2>4. S \in SUBSET Procs
    BY <1>1 DEF Children
  <2>5. Follows(current, S)
    BY <2>2, <2>3 DEF Follows
  <2>6. Children(current) \subseteq S
    BY <1>1, <2>4, <2>5 DEF TreeInv, TreeShape, ChildrenListed
  <2>7. QED
    BY <1>2, <2>6
<1>12. QED
  BY <1>1, <1>3, <1>4, <1>5, <1>6, <1>7, <1>8, <1>9, <1>10, <1>11

\* remove_links in do_wait: a child without children leaves the list of current.
LEMMA TreeFound ==
    ASSUME TreeInv, SchedInv', do_wait_found
    PROVE  TreeInv'
<1> USE ProcsAssumption
<1>1. PICK proc \in Procs :
         /\ proc \in Kids(current) /\ state[proc] = "ZOMBIE" /\ remove_links(proc)
         /\ state' = [state EXCEPT ![proc] = "FREE"]
         /\ parent' = [parent EXCEPT ![proc] = NULL]
         /\ pc' = [pc EXCEPT ![proc] = "none",
                             ![current] = IF current = init THEN "wait" ELSE "trapret"]
  BY DEF do_wait_found
<1>2. TypeOK /\ pc[current] = "wait" /\ ~resched /\ Allocated \subseteq Procs /\ current \in Procs
  BY DEF do_wait_found, TreeInv, SchedInv, TypeOK, Allocated
<1> DEFINE y == yptr[proc]
           o == optr[proc]
<1>3. /\ current \in Allocated \ {idle} /\ proc \in Allocated \ {idle, init, current}
      /\ parent[proc] = current /\ Children(proc) = {} /\ cptr[proc] = NULL
      /\ y = NULL <=> cptr[current] = proc
      /\ \A p \in Procs : pc[p] # "reparent"
      /\ \A p \in Allocated : cptr[p] # NULL => yptr[cptr[p]] = NULL
  BY <1>1, <1>2, FoundZombie
<1>4. y # NULL => /\ y \in Allocated /\ y \notin {idle, init, proc}
                  /\ optr[y] = proc /\ parent[y] = current
  BY <1>1, <1>2, FoundZombie
<1>5. o # NULL => /\ o \in Allocated /\ o \notin {idle, init, proc}
                  /\ yptr[o] = proc /\ parent[o] = current
  BY <1>1, <1>2, FoundZombie
<1>6. /\ \A p \in Procs : parent'[p] = IF p = proc THEN NULL ELSE parent[p]
      /\ \A p \in Procs : yptr'[p] = IF p = proc THEN NULL ELSE IF p = o THEN y ELSE yptr[p]
      /\ \A p \in Procs : optr'[p] = IF p = proc THEN NULL ELSE IF p = y THEN o ELSE optr[p]
      /\ \A p \in Procs : cptr'[p] = IF p = current /\ y = NULL THEN o ELSE cptr[p]
      /\ \A p \in Procs : state'[p] = IF p = proc THEN "FREE" ELSE state[p]
      /\ \A p \in Procs : pc'[p] = IF p = current THEN (IF current = init THEN "wait" ELSE "trapret")
                                   ELSE IF p = proc THEN "none" ELSE pc[p]
  BY <1>1, <1>2, <1>3 DEF remove_links, elder_unlinked, younger_unlinked, parent_unlinked, TypeOK
<1>7. /\ current' = current /\ wait_state' = wait_state
      /\ \A p \in Procs : waitpid'[p] = IF p = current THEN NULL ELSE waitpid[p]
  BY <1>2 DEF do_wait_found, TypeOK
<1>8. Allocated' = Allocated \ {proc}
  BY <1>6 DEF Allocated
<1>9. \A r \in Allocated : optr[r] = proc => r = y
  BY <1>3 DEF TreeInv, TreeShape, LinksConsistent, RootFixed
<1>10. \A r \in Allocated \ {idle} : yptr[r] = proc => r = o
  <2> SUFFICES ASSUME NEW r \in Allocated \ {idle}, yptr[r] = proc PROVE r = o
    OBVIOUS
  <2>1. cptr[parent[r]] # r
    BY <1>2, <1>3 DEF TreeInv, TreeShape, LinksConsistent
  <2>2. QED
    BY <2>1 DEF TreeInv, TreeShape, LinksConsistent
<1> HIDE DEF y, o
<1>11. FreeBlank' /\ RootFixed'
  <2>1. FreeBlank'
    BY <1>3, <1>4, <1>6 DEF TreeInv, TreeShape, FreeBlank, Allocated
  <2>2. RootFixed'
    BY <1>2, <1>3, <1>4, <1>5, <1>6 DEF TreeInv, TreeShape, RootFixed
  <2>3. QED
    BY <2>1, <2>2
<1>12. ASSUME NEW p \in Allocated', cptr'[p] # NULL
       PROVE  cptr'[p] \in Allocated' /\ parent'[cptr'[p]] = p /\ yptr'[cptr'[p]] = NULL
  <2>0. p \in Allocated /\ p \in Procs /\ p # proc
    BY <1>2, <1>8
  <2>1. CASE p = current /\ y = NULL
    <3>1. cptr'[p] = o
      BY <1>6, <2>0, <2>1
    <3>2. QED
      BY <1>2, <1>5, <1>6, <1>8, <1>12, <2>1, <3>1
  <2>2. CASE ~(p = current /\ y = NULL)
    <3>1. cptr'[p] = cptr[p] /\ cptr[p] # NULL
      BY <1>6, <1>12, <2>0, <2>2
    <3>2. cptr[p] \in Allocated /\ parent[cptr[p]] = p /\ yptr[cptr[p]] = NULL
      BY <1>3, <2>0, <3>1 DEF TreeInv, TreeShape, LinksConsistent
    <3>3. cptr[p] # proc
      BY <1>3, <2>2, <3>2
    <3>4. cptr[p] # o
      BY <1>2, <1>3, <1>5, <3>1, <3>2
    <3>5. QED
      BY <1>2, <1>6, <1>8, <3>1, <3>2, <3>3, <3>4
  <2>3. QED
    BY <2>1, <2>2
<1>13. ASSUME NEW p \in Allocated' \ {idle}
       PROVE  /\ parent'[p] \in Allocated'
              /\ cptr'[parent'[p]] # p =>
                     /\ yptr'[p] \in Allocated' /\ optr'[yptr'[p]] = p
                     /\ parent'[yptr'[p]] = parent'[p]
              /\ optr'[p] # NULL =>
                     /\ optr'[p] \in Allocated' /\ yptr'[optr'[p]] = p
                     /\ parent'[optr'[p]] = parent'[p]
  <2>0. p \in Allocated \ {idle} /\ p \in Procs /\ p # proc
    BY <1>2, <1>8
  <2>1. /\ parent[p] \in Allocated
        /\ cptr[parent[p]] # p =>
               yptr[p] \in Allocated /\ optr[yptr[p]] = p /\ parent[yptr[p]] = parent[p]
        /\ optr[p] # NULL =>
               optr[p] \in Allocated /\ yptr[optr[p]] = p /\ parent[optr[p]] = parent[p]
    BY <2>0 DEF TreeInv, TreeShape, LinksConsistent
  <2>2. parent[p] # proc
    BY <1>3, <2>0 DEF Children
  <2>3. parent'[p] = parent[p] /\ parent[p] \in Allocated'
    BY <1>6, <1>8, <2>0, <2>1, <2>2
  <2>4. ASSUME cptr'[parent[p]] # p
        PROVE  yptr'[p] \in Allocated' /\ optr'[yptr'[p]] = p /\ parent'[yptr'[p]] = parent[p]
    <3>1. CASE p = o
      <4>1. o # NULL
        BY <2>0, <3>1
      <4>2. parent[p] = current /\ yptr'[p] = y
        BY <1>5, <1>6, <2>0, <3>1, <4>1
      <4>3. y # NULL
        BY <1>2, <1>6, <2>4, <3>1, <4>2
      <4>4. QED
        BY <1>2, <1>4, <1>6, <1>8, <3>1, <4>2, <4>3
    <3>2. CASE p # o
      <4>1. cptr[parent[p]] # p
        BY <1>2, <1>3, <1>6, <2>0, <2>1, <2>4
      <4>2. yptr'[p] = yptr[p] /\ yptr[p] # proc
        BY <1>6, <1>10, <2>0, <3>2
      <4>3. yptr[p] # y
        BY <1>2, <1>4, <2>0, <2>1, <4>1
      <4>4. QED
        BY <1>2, <1>6, <1>8, <2>1, <4>1, <4>2, <4>3
    <3>3. QED
      BY <3>1, <3>2
  <2>5. ASSUME optr'[p] # NULL
        PROVE  optr'[p] \in Allocated' /\ yptr'[optr'[p]] = p /\ parent'[optr'[p]] = parent[p]
    <3>1. CASE p = y
      <4>1. y # NULL
        BY <2>0, <3>1
      <4>2. optr'[p] = o /\ parent[p] = current
        BY <1>4, <1>6, <2>0, <3>1, <4>1
      <4>3. QED
        BY <1>2, <1>5, <1>6, <1>8, <2>5, <3>1, <4>2
    <3>2. CASE p # y
      <4>1. optr'[p] = optr[p] /\ optr[p] # proc /\ optr[p] # NULL
        BY <1>6, <1>9, <2>0, <2>5, <3>2
      <4>2. optr[p] # o
        BY <1>5, <2>0, <2>1, <4>1
      <4>3. QED
        BY <1>2, <1>6, <1>8, <2>1, <4>1, <4>2
    <3>3. QED
      BY <3>1, <3>2
  <2>6. QED
    BY <2>3, <2>4, <2>5
<1>14. YoungestMarked' /\ LinksConsistent'
  <2>1. YoungestMarked'
    BY <1>12 DEF YoungestMarked
  <2>2. LinksConsistent'
    BY <1>12, <1>13 DEF LinksConsistent
  <2>3. QED
    BY <2>1, <2>2
<1>15. \A p \in Procs \ {proc} : Children(p)' = Children(p) \ {proc}
  BY <1>2, <1>6, <1>8 DEF Children
<1>16. ChildrenListed'
  <2> SUFFICES ASSUME NEW p \in Allocated', NEW S \in SUBSET Procs, Follows(p, S)'
               PROVE  Children(p)' \subseteq S
    BY DEF ChildrenListed
  <2>0. p \in Allocated /\ p \in Procs /\ p # proc
    BY <1>2, <1>8
  <2>1. (cptr'[p] # NULL => cptr'[p] \in S) /\ \A q \in S : optr'[q] # NULL => optr'[q] \in S
    BY DEF Follows
  <2>2. CASE (p = current /\ y = NULL) \/ (y # NULL /\ y \in S)
    <3> DEFINE T == S \cup {proc}
    <3>1. cptr[p] # NULL => cptr[p] \in T
      BY <1>3, <1>6, <2>0, <2>1
    <3>2. o # NULL => o \in S
      <4>1. CASE p = current /\ y = NULL
        BY <1>6, <2>0, <2>1, <4>1
      <4>2. CASE y # NULL /\ y \in S
        BY <1>4, <1>6, <2>1, <4>2
      <4>3. QED
        BY <2>2, <4>1, <4>2
    <3>3. ASSUME NEW q \in T, optr[q] # NULL PROVE optr[q] \in T
      <4>1. CASE q = proc
        BY <3>2, <3>3, <4>1 DEF o
      <4>2. CASE q = y
        BY <1>4, <3>3, <4>2
      <4>3. CASE q # proc /\ q # y
        BY <1>6, <2>1, <3>3, <4>3
      <4>4. QED
        BY <4>1, <4>2, <4>3
    <3>4. Follows(p, T)
      BY <3>1, <3>3 DEF Follows
    <3>5. Children(p) \subseteq T
      BY <2>0, <3>4 DEF TreeInv, TreeShape, ChildrenListed
    <3>6. QED
      BY <1>15, <2>0, <3>5
  <2>3. CASE ~((p = current /\ y = NULL) \/ (y # NULL /\ y \in S))
    <3> DEFINE T == S \ {proc}
    <3>1. cptr[p] # NULL => cptr[p] \in T
      <4>1. cptr'[p] = cptr[p]
        BY <1>6, <2>0, <2>3
      <4>2. cptr[p] # proc
        BY <1>2, <1>3, <2>0, <2>3 DEF TreeInv, TreeShape, LinksConsistent
      <4>3. QED
        BY <2>1, <4>1, <4>2
    <3>2. ASSUME NEW q \in T, optr[q] # NULL PROVE optr[q] \in T
      <4>1. q \in Allocated /\ q # proc /\ q # y
        BY <2>3, <3>2 DEF TreeInv, TreeShape, FreeBlank, Allocated
      <4>2. optr'[q] = optr[q] /\ optr[q] # proc
        BY <1>6, <1>9, <4>1
      <4>3. QED
        BY <2>1, <3>2, <4>2
    <3>3. T \in SUBSET Procs /\ Follows(p, T)
      BY <3>1, <3>2 DEF Follows
    <3>4. Children(p) \subseteq T
      BY <2>0, <3>3 DEF TreeInv, TreeShape, ChildrenListed
    <3>5. QED
      BY <1>15, <2>0, <3>4
  <2>4. QED
    BY <2>2, <2>3
<1>17. ParentsGrounded'
  BY <1>2, <1>6, <1>8 DEF TreeInv, TreeShape, ParentsGrounded
<1>18. ReparentNow' /\ InitWaits'
  BY <1>3, <1>6, <1>7 DEF TreeInv, ReparentNow, InitWaits
<1>19. ParentCanReap'
  <2> SUFFICES ASSUME NEW p \in Allocated' \ {idle}, state'[parent'[p]] = "ZOMBIE" PROVE FALSE
    BY DEF ParentCanReap
  <2>1. p \in Allocated \ {idle} /\ parent'[p] = parent[p] /\ parent[p] \in Procs
    BY <1>2, <1>6, <1>8 DEF TreeInv, TreeShape, LinksConsistent
  <2>2. state[parent[p]] = "ZOMBIE"
    BY <1>6, <2>1
  <2>3. QED
    BY <1>2, <1>3, <2>1, <2>2 DEF TreeInv, ParentCanReap
<1>20. NoZombieChild'
  <2> SUFFICES ASSUME NEW p \in Procs, wait_state'[p] = "WT_CHILD", NEW q \in Children(p)',
                      waitpid'[p] \in {NULL, q}
               PROVE  state'[q] # "ZOMBIE"
    BY DEF NoZombieChild
  <2>1. state[p] = "SLEEPING"
    BY <1>7 DEF TreeInv, SchedInv, WaitStateCoherent
  <2>2. p # proc /\ p # current
    BY <1>1, <1>2, <2>1, RunningCurrent DEF TreeInv
  <2>3. q \in Children(p) /\ q # proc /\ q \in Procs
    BY <1>2, <1>15, <2>2 DEF Children
  <2>4. QED
    BY <1>6, <1>7, <2>2, <2>3 DEF TreeInv, NoZombieChild
<1>21. InitAssertions'
  <2>1. pc'[init] # "done"
    <3>1. CASE current = init
      BY <1>6, <3>1
    <3>2. CASE current # init
      <4>1. pc[init] # "done"
        BY <1>3 DEF TreeInv, InitAssertions
      <4>2. QED
        BY <1>3, <1>6, <3>2, <4>1
    <3>3. QED
      BY <3>1, <3>2
  <2>2. QED
    BY <2>1 DEF InitAssertions
<1>22. QED
  BY <1>11, <1>14, <1>16, <1>17, <1>18, <1>19, <1>20, <1>21 DEF TreeInv, TreeShape
-----------------------------------------------------------------------------
LEMMA TreeSyscall == TreeInv /\ SchedInv' /\ Syscall => TreeInv'
<1> SUFFICES ASSUME TreeInv, SchedInv', Syscall PROVE TreeInv'
  OBVIOUS
<1>1. CASE sys_fork
  BY <1>1, TreeFork DEF sys_fork, InUser
<1>2. CASE sys_exit
  BY <1>2, TreeExit DEF sys_exit, InUser
<1>3. CASE \/ sys_fork_fail \/ sys_yield \/ sys_sleep \/ sys_other
           \/ (\E pid \in Ptr : sys_wait(pid)) \/ (\E proc \in Procs : sys_kill(proc))
  BY <1>3, CalmSyscall, CalmStep
<1>4. QED
  BY <1>1, <1>2, <1>3 DEF Syscall

LEMMA TreeKernel == TreeInv /\ SchedInv' /\ Kernel => TreeInv'
<1> SUFFICES ASSUME TreeInv, SchedInv', Kernel PROVE TreeInv'
  OBVIOUS
<1>1. CASE cpu_idle \/ do_wait_repeat \/ do_sleep_return \/ trap_return
  BY <1>1, CalmKernel, CalmStep
<1>2. CASE init_main_return
  <2>1. ~resched /\ pc[current] = "done" /\ do_exit_panic
    BY <1>2 DEF init_main_return
  <2>2. QED
    BY <2>1, CalmKernel, CalmStep
<1>3. CASE do_wait_killed
  <2>1. ~resched /\ pc[current] = "waitret" /\ (do_exit \/ do_exit_panic)
    BY <1>3 DEF do_wait_killed
  <2>2. CASE do_exit
    BY <2>1, <2>2, TreeExit
  <2>3. CASE do_exit_panic
    BY <2>1, <2>3, CalmKernel, CalmStep
  <2>4. QED
    BY <2>1, <2>2, <2>3
<1>4. CASE trap_exit
  BY <1>4, TreeExit DEF trap_exit
<1>5. CASE init_main
  BY <1>5, TreeFork DEF init_main
<1>6. QED
  BY <1>1, <1>2, <1>3, <1>4, <1>5, TreeReparent, TreeExitEnds, TreeFound, TreeWaitSleep, TreeNoKid
     DEF Kernel

LEMMA TreeStep == TreeInv /\ [Next]_vars => TreeInv'
<1> SUFFICES ASSUME TreeInv, [Next]_vars PROVE TreeInv'
  OBVIOUS
<1>1. SchedInv'
  BY SchedStep DEF TreeInv
<1>2. CASE Syscall
  BY <1>1, <1>2, TreeSyscall
<1>3. CASE Kernel
  BY <1>1, <1>3, TreeKernel
<1>4. CASE \E p \in Procs : schedule(p)
  BY <1>1, <1>4, CalmSchedule, CalmStep
<1>5. CASE \E expired \in SUBSET timers, used_up \in BOOLEAN : run_timer_list(expired, used_up)
  BY <1>1, <1>5, CalmTick, CalmStep
<1>6. CASE UNCHANGED vars
  <2>1. Calm
    BY <1>6, ProcsAssumption DEF vars, Calm, links, TreeInv, InitWaits
  <2>2. QED
    BY <1>1, <2>1, CalmStep
<1>7. QED
  BY <1>2, <1>3, <1>4, <1>5, <1>6 DEF Next, halted

\* After any history of do_fork, do_exit and do_wait, for any number of processes:
\* cptr, yptr and optr form a sound list of children below every process, the list
\* do_wait(0) walks holds exactly the processes that name the caller as their
\* parent, and a zombie has no children once the loop of its do_exit has ended.
THEOREM TreeCorrect == Spec => []TreeSound
<1>1. TreeInv => TreeSound
  BY SiblingsCorrect DEF TreeInv, SchedInv, TreeShape, TreeSound
<1>2. QED
  BY TreeInit, TreeStep, <1>1, PTL DEF Spec

\* A process asleep in do_wait has no zombie child its call would accept: neither
\* the check before do_wait sleeps nor the wake-ups of do_exit, its hand-over to
\* init included, miss one.
THEOREM ChildExitNotMissed == Spec => []NoLostChildWakeup
<1>1. TreeInv => NoLostChildWakeup
  BY NoZombieChildMeans DEF TreeInv, SchedInv
<1>2. QED
  BY TreeInit, TreeStep, <1>1, PTL DEF Spec

\* When the loop of init_main ends only idle and init are left, nr_process is 2 and
\* the pointers of init are blank: the assertions of init_main hold.
THEOREM InitMainAssertionsHold == Spec => []InitAssertions
<1>1. TreeInv => InitAssertions
  BY DEF TreeInv
<1>2. QED
  BY TreeInit, TreeStep, <1>1, PTL DEF Spec
=============================================================================
