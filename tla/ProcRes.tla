------------------------------ MODULE ProcRes ------------------------------
(***************************************************************************)
(* What a process owns and who frees it (kern/process/proc.c): the         *)
(* proc_struct, the mm and the table of open files, through do_fork,       *)
(* do_execve, do_exit and do_wait with the paths on which they fail.  mm   *)
(* and files may be shared between processes (CLONE_VM, CLONE_FS) and are  *)
(* counted; sys_fork passes neither flag, but do_fork and the counts are   *)
(* written for both.                                                       *)
(*                                                                         *)
(* The numbers of the processes are given out by get_pid, whose static     *)
(* variables outlive the processes they were computed from.                *)
(*                                                                         *)
(* A call that fails before it has changed anything is a stuttering step   *)
(* and has no action.  Scheduling and the process tree are in module Proc. *)
(***************************************************************************)
EXTENDS Naturals, FiniteSets, Sequences, SequencesExt

CONSTANTS
    Procs,    \* proc_structs
    root,     \* the first of them: user_main, a kernel thread without mm
    MMs, FSs, \* mm_structs and files_structs
    rootfs,   \* the files_struct of root
    MAX_PID,
    NULL,
    CloneFlags, \* the clone_flags do_fork is called with
    MaxCount  \* bound: references to one mm or table

ASSUME ResAssumption ==
    /\ root \in Procs /\ rootfs \in FSs /\ NULL \notin MMs \cup FSs
    /\ IsFiniteSet(Procs) /\ MaxCount \in Nat
    /\ MAX_PID \in Nat /\ MAX_PID > Cardinality(Procs) + 1 \* with init
    /\ CloneFlags \subseteq SUBSET {"CLONE_VM", "CLONE_FS"}

VARIABLES
    state,        \* "FREE", "LIVE", "ZOMBIE"
    mm, filesp,   \* proc->mm and proc->filesp
    mm_count,     \* mm->mm_count; of an mm that is not allocated 0
    files_count,  \* files->files_count, likewise
    pid,          \* proc->pid; 0 of a free struct
    proc_list,    \* the numbers of the processes in proc_list, the newest first
    last_pid, next_safe, \* the static variables of get_pid
    fate          \* "ok" or "panic"

pidvars == <<pid, proc_list, last_pid, next_safe>>
vars == <<state, mm, filesp, mm_count, files_count, fate, pidvars>>

\* p executes a system call; user_main, which has no mm yet, only calls do_execve
InSyscall(p) == fate = "ok" /\ state[p] = "LIVE" /\ mm[p] # NULL

\* init_main, number 1, has created user_main, number 2.
Init ==
    /\ state = [p \in Procs |-> IF p = root THEN "LIVE" ELSE "FREE"]
    /\ mm = [p \in Procs |-> NULL]
    /\ filesp = [p \in Procs |-> IF p = root THEN rootfs ELSE NULL]
    /\ mm_count = [m \in MMs |-> 0]
    /\ files_count = [f \in FSs |-> IF f = rootfs THEN 1 ELSE 0]
    /\ fate = "ok"
    /\ pid = [p \in Procs |-> IF p = root THEN 2 ELSE 0] /\ proc_list = <<2, 1>>
    /\ last_pid = 2 /\ next_safe = MAX_PID

\* copy_mm: the mm of the child of a process that has one
copy_mm(p, flags, m) ==
    IF "CLONE_VM" \in flags THEN m = mm[p] /\ mm_count[m] < MaxCount
    ELSE m \in MMs /\ mm_count[m] = 0

\* copy_files
copy_files(p, flags, f) ==
    IF "CLONE_FS" \in flags THEN f = filesp[p] /\ files_count[f] < MaxCount
    ELSE f \in FSs /\ files_count[f] = 0

Inc(count, x) == IF x = NULL THEN count ELSE [count EXCEPT ![x] = @ + 1]
Dec(count, x) == IF x = NULL THEN count ELSE [count EXCEPT ![x] = @ - 1]

Scans == [last : 1..MAX_PID, safe : 1..MAX_PID, k : 1..(Len(proc_list) + 1)]

\* the loop of get_pid from entry k of the list: a number in use is passed over, and
\* once next_safe is reached the loop starts again
scan[s \in Scans] ==
    LET at == proc_list[s.k]
        next == s.last + 1
    IN IF s.k > Len(proc_list) THEN s
       ELSE IF at = s.last /\ next >= s.safe
       THEN scan[[last |-> IF next >= MAX_PID THEN 1 ELSE next, safe |-> MAX_PID, k |-> 1]]
       ELSE IF at = s.last THEN scan[[last |-> next, safe |-> s.safe, k |-> s.k + 1]]
       ELSE scan[[last |-> s.last, k |-> s.k + 1,
                  safe |-> IF at > s.last /\ at < s.safe THEN at ELSE s.safe]]

\* Mutant: next_safe is believed although the numbers start again from 1.
get_pid_stale ==
    LET next == IF last_pid + 1 >= MAX_PID THEN 1 ELSE last_pid + 1
    IN IF next < next_safe THEN [last |-> next, safe |-> next_safe]
       ELSE scan[[last |-> next, safe |-> MAX_PID, k |-> 1]]

\* get_pid: the numbers below next_safe are taken without looking
get_pid ==
    LET next == IF last_pid + 1 >= MAX_PID THEN 1 ELSE last_pid + 1
    IN IF next # 1 /\ next < next_safe THEN [last |-> next, safe |-> next_safe]
       ELSE scan[[last |-> next, safe |-> MAX_PID, k |-> 1]]

\* get_pid and set_links
number(c) ==
    /\ pid' = [pid EXCEPT ![c] = get_pid.last]
    /\ proc_list' = <<get_pid.last>> \o proc_list
    /\ last_pid' = get_pid.last /\ next_safe' = get_pid.safe

\* do_fork of a child c with everything at hand
do_fork(p, c, flags) ==
    /\ InSyscall(p) /\ state[c] = "FREE"
    /\ \E m \in MMs, f \in FSs :
          /\ copy_mm(p, flags, m) /\ copy_files(p, flags, f)
          /\ mm' = [mm EXCEPT ![c] = m]
          /\ filesp' = [filesp EXCEPT ![c] = f]
          /\ mm_count' = Inc(mm_count, m)
          /\ files_count' = Inc(files_count, f)
    /\ state' = [state EXCEPT ![c] = "LIVE"]
    /\ number(c)
    /\ UNCHANGED fate

\* do_fork runs out of memory.  The kernel stack takes two pages, which alloc_pages
\* may refuse: the label bad_fork_cleanup_kstack then calls put_kstack on a stack that
\* does not exist, and kva2page(0) panics.  Everything else takes single pages, which
\* alloc_pages does not refuse once swap_init has run: it panics in swap_out (see Vmm).
do_fork_no_memory(p) ==
    /\ InSyscall(p) /\ \E c \in Procs : state[c] = "FREE"
    /\ fate' = "panic"
    /\ UNCHANGED <<state, mm, filesp, mm_count, files_count, pidvars>>

\* Mutant: the table is put twice.
put_files_twice(p) == Dec(Dec(files_count, filesp[p]), filesp[p])

\* put_files in do_exit
put_files(p) == Dec(files_count, filesp[p])

\* Mutant: the mm of the process is not given back.
put_mm_never(p) == mm_count

\* mm_count_dec; at 0 exit_mmap, put_pgdir and mm_destroy follow
put_mm(p) == Dec(mm_count, mm[p])

\* do_exit: a process without an mm does not give back its files
do_exit(p) ==
    /\ fate = "ok" /\ state[p] = "LIVE"
    /\ state' = [state EXCEPT ![p] = "ZOMBIE"]
    /\ mm_count' = put_mm(p)
    /\ mm' = [mm EXCEPT ![p] = NULL]
    /\ files_count' = IF mm[p] # NULL THEN put_files(p) ELSE files_count
    /\ UNCHANGED <<filesp, fate, pidvars>>

\* do_execve: the old mm goes, load_icode builds a new one.  Any process in user
\* mode may call it, and so does user_main.
do_execve(p) ==
    /\ fate = "ok" /\ state[p] = "LIVE"
    /\ \E m \in MMs :
          /\ put_mm(p)[m] = 0
          /\ mm' = [mm EXCEPT ![p] = m]
          /\ mm_count' = Inc(put_mm(p), m)
    /\ UNCHANGED <<state, filesp, files_count, fate, pidvars>>

\* sysfile_open of the program fails: do_exit with the old mm in place
do_execve_no_file(p) == do_exit(p)

\* load_icode fails: do_exit after the old mm is gone
do_execve_no_load(p) ==
    /\ fate = "ok" /\ state[p] = "LIVE"
    /\ state' = [state EXCEPT ![p] = "ZOMBIE"]
    /\ mm_count' = put_mm(p)
    /\ mm' = [mm EXCEPT ![p] = NULL]
    /\ UNCHANGED <<filesp, files_count, fate, pidvars>>

\* do_wait from label `found': remove_links, put_kstack, kfree
do_wait(c) ==
    /\ fate = "ok" /\ state[c] = "ZOMBIE"
    /\ state' = [state EXCEPT ![c] = "FREE"]
    /\ filesp' = [filesp EXCEPT ![c] = NULL]
    /\ \E i \in DOMAIN proc_list :
          proc_list[i] = pid[c] /\ proc_list' = RemoveAt(proc_list, i)
    /\ pid' = [pid EXCEPT ![c] = 0]
    /\ UNCHANGED <<mm, mm_count, files_count, fate, last_pid, next_safe>>

sys_exit(p) == InSyscall(p) /\ do_exit(p)

Next ==
    \E p \in Procs :
        \/ do_fork_no_memory(p)
        \/ \E c \in Procs, flags \in CloneFlags : do_fork(p, c, flags)
        \/ do_execve(p) \/ do_execve_no_file(p) \/ do_execve_no_load(p)
        \/ sys_exit(p) \/ do_wait(p)

Spec == Init /\ [][Next]_vars
-----------------------------------------------------------------------------
Live == {p \in Procs : state[p] = "LIVE"}
Users(f) == {p \in Live : filesp[p] = f}

\* mm_count is exactly the number of processes that run on the mm: an address
\* space goes with its last user and not before, on every path of do_fork,
\* do_execve and do_exit.
MmCountExact ==
    \A m \in MMs : mm_count[m] = Cardinality({p \in Procs : mm[p] = m})

\* A table of open files is never destroyed under a process that uses it (it
\* may outlive them: do_exit keeps the table of a process that lost its mm).
FilesOutliveUsers == \A f \in FSs : files_count[f] >= Cardinality(Users(f))

\* No two processes have the same number, init and zombies included, through
\* numbers that wrap around at MAX_PID and a next_safe that is kept between calls
\* while processes come and go.
PidsUnique ==
    LET numbered == {p \in Procs : state[p] # "FREE"}
    IN fate = "ok" =>
        /\ ToSet(proc_list) = {1} \cup {pid[p] : p \in numbered}
        /\ Len(proc_list) = Cardinality(numbered) + 1 /\ IsInjective(proc_list)
        /\ ToSet(proc_list) \subseteq 1..(MAX_PID - 1)
=============================================================================
