# A TLA+ model of the ucore kernel in this repository

The repository holds a teaching operating system (ucore, RISC-V) at several
stages: `lab0` to `lab5` are snapshots, `_lab8` is the complete kernel. This
directory models `_lab8/kern`. The machine has one CPU; concurrency comes from
timer interrupts and from processes that sleep in the middle of kernel code.

## 1. The system

| Component | State | Operations | What is hard | Correct means |
|---|---|---|---|---|
| process life cycle, `process/proc.c` | `proc_struct`: state, wait_state, flags, tree pointers, pid; `nr_process`, `current` | fork, exec, exit, wait, kill, sleep, yield, get_pid | a sleeper and whoever wakes it race; do_exit rewires lists of several processes; exec fails half way; get_pid caches | nobody is lost or reaped twice, no missed wake-up, nothing freed under a user, numbers unique |
| scheduler core, `schedule/sched.c` | run queue, need_resched | wakeup_proc, schedule, run_timer_list | wake-ups from five places | the queue holds exactly the runnable processes |
| stride class, `schedule/default_sched_stride.c`, `libs/skew_heap.h` | stride, priority, time slice, skew heap | enqueue, dequeue, pick_next, proc_tick | strides wrap at 32 bits | nobody is lost from the heap or starves |
| timers, `schedule/sched.c` | `timer_list`, a list of differences | add, delete, tick | unsigned differences, deletion in the middle | each timer expires at its own tick |
| traps and system calls, `trap/`, `syscall/` | need_resched and PF_EXITING on the way out | dispatch, return to user mode | a kill between a check and a sleep | a killed process ends |
| wait queues and semaphores, `sync/` | value, queue of `wait_t`s on stacks | down, try_down, up, wakeup_queue | hand-over of a permit to a process that has not run yet | permits conserved, first come first served |
| physical pages, `mm/default_pmm.c` | list of free blocks | alloc, free | splitting and joining | memory is partitioned; first fit |
| kernel heap, `mm/kmalloc.c` | circular list of free units, list of big blocks | kmalloc, kfree | joining across pages, rounding of sizes, two allocations for one request | blocks disjoint and large enough |
| virtual memory, `mm/vmm.c`, page tables, `mm/pmm.c` | list of vmas with a cache, three levels of tables, frames | mm_map, dup_mmap, exit_mmap, do_pgfault, user_mem_check | overlaps, programs that fail half way, tables freed by ranges | vmas disjoint, every frame has an owner, buffers checked exactly |
| swap, `mm/swap*.c` | FIFO of pages | swap_out, swap_in | initialised, but no page ever becomes swappable | |
| VFS and open files, `fs/vfs`, `fs/file.c`, `fs/fs.c` | reference and open counts, tables | open, close, dup, chdir, fork, exec, exit | error paths that keep or drop references; close under a sleeping reader | counts exact |
| SFS, `fs/sfs` | inodes in memory, block map, free map | read, write, seek, truncate, fsync, reclaim | half-done growth, truncation under another descriptor, write-back | every block has one owner |
| keyboard, `fs/devs/dev_stdin.c` | ring buffer, wait queue | write (interrupt), read | all readers woken for one character, overflow, kill | each character is accounted for |
| philosophers `sync/check_sync.c`, monitors `sync/monitor.c` | | not called; empty bodies | | |
| other devices, drivers, debugging, boot | | | straight-line I/O | |

Processes meet in the scheduler: every blocking operation sets `wait_state`,
links a `wait_t` or a `timer_t` on its own kernel stack somewhere, and calls
`schedule()`; the waking side calls `wakeup_proc`. System calls run with
interrupts off, so a process loses the CPU only in `schedule()`; the timer
interrupt reaches user code, idle, and init (a kernel thread). The disk is a RAM
disk that does not sleep. So a call into memory management or into a file of
the disk is one atomic step, and what is hard about it is the sequence of calls
and the calls that fail half way; only a read of the keyboard sleeps inside the
file code.

## 2. The modules

| Module | Source | State and actions |
|---|---|---|
| `Proc` | proc.c, sched.c, trap.c, syscall.c | One action per stretch of kernel code between two calls of `schedule()`, and one per iteration of the loop in do_exit. `pc[p]` says where p goes on; `resched` is TRUE inside `schedule()`; pick_next is left open. |
| `ProcRes` | proc.c | Who owns mms and file tables through do_fork, do_execve, do_exit, do_wait, with the paths on which they fail; the numbers of get_pid with its two static variables. |
| `Stride` | default_sched_stride.c, skew_heap.h, sched.c | The class that `Proc` leaves open: the skew heap with the pointers of its nodes, strides modulo `Wrap`, time slices; tick, yield, sleep, exit, wake-up, fork, lab6_set_priority. |
| `Sem` | sem.c, wait.c | The operations of a semaphore, one per section with interrupts off. |
| `SemLock` | sem.c | Processes that take and return permits (mm_sem, fs_sem, inode sem, disk0_sem). |
| `TimerSpec`, `TimerList` | sched.c | Independent count-downs; the list of differences that implements them. |
| `PmmSpec`, `DefaultPmm` | default_pmm.c | First fit over a set of pages; the list of blocks that implements it. |
| `Kmalloc` | kmalloc.c, pmm.c | Composed with `DefaultPmm`, which it extends: units cut from pages, headers of big blocks, other users of pages. `pending` is a request between its two allocations. |
| `Vmm` | vmm.c, pmm.c, proc.c | One mm is the list of vmas, the cache and the sets of tables and mapped pages; frames are counted. Actions: exec, exit, fork, page fault, and a system call that checks a buffer. |
| `Files` | file.c, fs.c, vfsfile.c, vfspath.c, inode.c | Tables, their entries and their users, references and opens of inodes, which inodes are in memory; a read that sleeps is two actions. |
| `SfsFile` | sfs_inode.c, file.c | Free map, inode on disk and in memory, indirect blocks, positions of descriptors. |
| `DevStdin` | dev_stdin.c, wait.c | The interrupt that writes, the readers, kill. Characters are numbered so that loss, duplication and order are visible. |
| `Proc_proofs`, `ProcRes_proofs`, `Interrupts_proofs` (`TimerList`, `DevStdin` and `Stride`), `Kmalloc_proofs` (with `DefaultPmm`), `Vmm_proofs`, `Files_proofs`, `SfsSem_proofs` (`SfsFile` and `SemLock`) | | The theorems about these modules, see section 4. |
| `ListLemmas` | | Facts about lists, least elements, induction over positions and sets of the same size that several proofs cite. |
| `MC*` | | Constants and symmetry sets for TLC; `MCVmm` lists the programs. |

In `Kmalloc`, `Vmm`, `Files`, `SfsFile` and `Stride` the functions of the kernel
are operators from states (records) to states; an action applies one call of a
process and assigns the result. `fate` is "ok" until an assertion, a panic or a
wild pointer stops the kernel, and names it.

Definitions whose comment begins with "Mutant" are plausible mistakes in the
definition after them. Each property has one that breaks it; they are used by
no specification. Variables marked "history" record what happened for the
properties and influence nothing.

Left out of the data: in `Proc` pids are the structs themselves; exit codes,
names, path names, register contents and the contents of data blocks and pages;
the positions of `DevStdin` count up without wrapping at 64 bits. One
consequence: part (3) of sfs_io_nolock adds `alen` to a buffer pointer that has
been advanced already; which bytes move is not in `SfsFile`, how many is.
The run queue of `Proc` is a set: a second enqueue would show only as a member
that does not belong there (its pointers are in `Stride`). A file that is no ELF
(proc.c:675-682) has no action of its own in `Vmm`: it leaves what a program
leaves whose first segment mm_map refuses.

## 3. The runs

| Run | Bounds | Shows, and why the bounds suffice |
|---|---|---|
| `proc_safety` | idle, init, 3 user processes, MAX_PROCESS 5 | Run queue, wait states, tree, timers, count. Three user processes are a parent, a child and a grandchild or two siblings, enough for every case of remove_links and for handing over several children. fork fails at the limit. |
| `proc_liveness` | 2 user processes | Orphans are reaped; a killed process leaves the CPU. |
| `proc_kill` (violation) | 2 user processes | A kill can be lost; see below. |
| `sem_lock` | 5 processes on a lock and a pool of 2 | The queue gets four deep; takers compete with woken processes; processes that hold one semaphore wait for the other. |
| `timer_list` | 4 timers, at most 6 ticks | Insertion at the head, in the middle, at the end and at equal times. |
| `kmalloc` | 5 pages of 4 units of 2 bytes; kmalloc of 3, 8, 9, 32, 35 and 64 bytes; 1 or 2 pages for others | A small block, one page, two pages, four pages (what sfs_do_mount and disk0_device_init ask for), a size of which halving loses bytes, and more pages than there are: pages next to each other and apart are cut up, joining happens across pages, headers share pages with blocks, both ways of running out of pages occur. |
| `dev_stdin` | 3 readers, buffer 2, 5 characters, reads of up to 3 | The buffer overflows, positions wrap, a read spans several sleeps. |
| `proc_res` | 3 processes, 3 mms, 3 tables, MAX_PID 6 | Sharing by CLONE_VM and CLONE_FS; numbers wrap around with processes in every position of the list. |
| `files` | 2 processes, 2 tables of 3 entries, a directory, a file, the keyboard | Both processes on one table and on two; a table fills up; a reader asleep while the other process closes, opens again, execs and exits. |
| `sfs_file` | 3 descriptors, 1 file, 5 blocks of 2 bytes, 1 direct pointer and 3 indirect ones, 0, 1 or 3 blocks of other files | The file fills the disk and reaches the largest index; growth fails at a direct block, at the indirect block and at the block behind it. |
| `vmm` | 2 processes, pages 1 to 7, page tables of 2 pages, directories of 2 tables, 20 frames, 13 programs | Programs as the linker script lays them out, with several tables or directories, with segments out of order, overlapping in ways mm_map sees and does not see, below USERBASE, into the stack, and truncated, with nothing mapped at all; memory runs out. |
| `stride` | 3 processes, strides modulo 8, BIG_STRIDE 2, priorities 0 and 2, slices of 2 ticks | Strides wrap many times; processes come back with strides old enough to be compared wrongly. The heap has up to three nodes, so a merge goes down both ways. |

`CHECK_DEADLOCK FALSE` stands where the system may stop: two processes that
take two semaphores in opposite orders (`SemLock`), a machine nobody types on
(`DevStdin`), all processes gone or a panic (`ProcRes`, `Kmalloc`, `Vmm`,
`Files`, `SfsFile`). In `Stride` a tick is always possible.

### Fairness

`Proc`: the kernel's own steps are weakly fair (nothing can stop them). The
clock interrupts whatever runs with interrupts on, so a time slice ends and a
timer runs out eventually. Strong fairness of `schedule(p)` says that the policy
does not pass over a process that is ready again and again. User code owes
nothing: it may spin for ever. `SemLock`: a holder that is not asleep returns
what it holds; `WaiterServed` is stated for behaviours in which processes do not
for ever sleep on one semaphore with a permit of another. `Stride`: the timer
interrupt keeps coming (weak fairness of `tick`), and nothing else is assumed.

`EveryoneRuns` in `Stride` is what the policy really gives, and it is less than
the strong fairness `Proc` assumes: a new process starts with stride 0 and one
that slept keeps its old stride, so an endless chain of forks, or one process
that sleeps and wakes for ever, can keep another from running. The property
assumes that joining stops in the end. The liveness runs of `Proc` are therefore
statements about the kernel above a fair policy.

### What the violation shows

`proc_kill`: `trap()` looks at PF_EXITING, then calls `schedule()`, then
returns to user mode without looking again. A process killed while it waited
there can sleep or wait for a child with the flag set; a second kill returns
-E_KILLED and wakes nobody. (`KilledLeavesCpu` is what does hold.) A reader of
the keyboard has the same trouble: `dev_stdin_read` goes back to sleep if its
last wake-up was for a key, also when the process was killed in between.

### What else the models contain

Behaviours of the code that the properties describe rather than forbid:

* `swap_init` runs at boot and leaves `check_mm_struct` NULL. From then on
  `alloc_pages(1)` does not return NULL but calls `swap_out(NULL)`; the error
  paths for single pages are dead, and so are the failures of copy_mm and
  copy_files in do_fork. `setup_kstack` asks for two pages and may fail: then
  do_fork calls put_kstack on no stack and panics (`do_fork_no_memory`).
* A process whose exec fails in load_icode exits without an mm, and do_exit then
  keeps its file table: `FilesOutliveUsers` has an inequality.
* `exit_range` says it frees a directory "only when all pde0s in it are already
  invalid" but looks only at those of the range: the page tables of another vma
  under the same directory are lost (`lost` in `Vmm`). A program whose text
  and data fit in one page table loses nothing (`FramesAccounted`); the 4 MB of
  data of `user/testbss.c` run over several tables under the directory of its
  text, and exit_mmap loses all but those of the text's vma.
* `mm_map` looks only at the vma that contains the start of the new one; an
  overlap from below reaches the assertion in insert_vma_struct
  (`OverlapOnlyIfAsked`). A write to a mapped read-only page is taken for a page
  on the swap disk and stops the kernel ("swap_in").
* kmalloc of a size just below a page fails an assertion of slob_alloc, and
  kmalloc(0) could hand out the static block arena. No caller asks for these, and
  `KmallocAssumption` says so. find_order drops a bit at each halving: 8193 bytes
  get two pages. Up to two pages and for whole pages, the four-page requests of
  sfs_do_mount and disk0_device_init among them, the result is right; any other
  size may get fewer bytes than asked for, short by less than a byte per page
  (`BlocksLargeEnough`).
* vfs_open with O_CREAT and O_EXCL on a file that exists keeps the reference of
  the look-up (`lost` in `Files`). Operations an inode lacks (creating a file,
  reading a directory) fail an assertion ("vop").
* A file truncated through one descriptor while another is further on: the next
  write there fails `assert(index <= din->blocks)` (`cut` in `SfsFile`). A
  growth that fails on an empty file leaves blocks, and the next O_TRUNC fails
  `assert(tblks == din->blocks)` ("tblks"). SFS_MAX_FILE_SIZE exceeds what the
  pointers reach, beyond which the kernel panics ("range"). O_CREAT truncates an
  existing file; O_APPEND only sets the position at open.
* A full keyboard buffer overwrites its oldest character with the newest, which
  is then delivered out of order (`CharactersAccounted` says what remains true).
* A priority above BIG_STRIDE makes a step of 0. The bound on `Priorities`
  excludes it; the mutant of `EveryoneRuns` shows what it would do.

## 4. What is proved

All for arbitrary constants satisfying the named assumptions. Each proof module
states its inductive invariant at the top; here is what it adds to the
properties, and why.

* `Proc_proofs` (from `ProcsAssumption`: idle and init are two distinct
  processes, finitely many). The scheduler: `RunQueueCorrect`,
  `WaitStatesCorrect`, `TimersSafe`, `CountCorrect`. The inductive invariant
  `SchedInv` adds three facts: idle and init are never zombies or free
  (`KernelThreadsAlive`), the current process sleeps only on its way into
  `schedule()` (`CurrentAwake`), and zombies and free structs have no code to go
  on with (`LocationOfDead`). Without the second, a wake-up of current could be
  queued and run twice; without the third, a zombie could come back to the queue
  through a trap.
  The process tree: `TreeCorrect`, `ChildExitNotMissed`,
  `InitMainAssertionsHold`. That do_wait reaches every child along `optr` is
  stated without recursion: every set that contains the head of the list and is
  closed under `optr` contains all children (`ChildrenListed`). For each way the
  list changes (set_links, remove_links, one round of the loop in do_exit) a
  closed set of the new list is turned into one of the old. The invariant also
  says what is only true between two rounds of that loop (`YoungestMarked`), and
  that the loop runs uninterrupted (`ReparentNow`).
* `ProcRes_proofs` (`ResAssumption`): `MmCountCorrect`,
  `FilesNotDestroyedInUse`, `NumbersUnique`. The invariant adds that only a living
  process has an mm and that every living one has a table; otherwise an exit could
  put an mm twice, or a table nobody counted. For the numbers, `NextSafeSound`: none
  in use lies between last_pid and next_safe, so that get_pid may take one from
  there unseen. That its loop ends although it starts again at the head of the list
  is an induction over the distance to a free number (`Away`) and, within it, over
  the rest of the list (`ScanEnds`); there is a free number because MAX_PID is above
  the number of processes, which get_pid asserts. The loop itself has a value
  whether it ends or not (`LoopHasValue`).
* `SfsSem_proofs`, the semaphores (`SemAssumption`): `PermitsTheorem`, `NoLostWakeup`,
  `DownReturnsWithPermit`, `HandoverTheorem`. `LockInv` adds that a process in a
  queue does not hold what it waits for (`QueuedLackPermit`); otherwise a
  hand-over might not create a holder for the one that goes, and permits would
  not add up.
* `Interrupts_proofs`, the timers (`TimerAssumption`): `CountDownSafe`, and the refinement
  `TimersIndependent`: the list of differences implements `TimerSpec`. First it
  is shown that the recursive sum `Due` has values (by induction over positions,
  `IntervalInduction`); then, for each operation, what happens to all sums at
  once: add_timer inserts one and leaves the others, del_timer takes one out, a
  tick lowers all by 1 and drops those that reach 0.
* `Kmalloc_proofs`, the pages (`NPAGEAssumption`): `BlocksCorrect`, and the refinement
  `FirstFitCorrect`: the list of blocks implements `PmmSpec`. Inside
  default_free_pages blocks may touch, so the invariant of a list (`AreaOK`) is
  kept apart from the places where blocks touch (`Touches`): linking the block
  creates at most two, and the two joins remove them. For the refinement: as no
  two blocks of the list touch, a run of free pages lies within one block, so
  the first block that is large enough starts at the lowest run, and if there
  is none then there is no run.
* `Kmalloc_proofs`, the heap (`KmallocAssumption`): `HeapCorrect`, `BlocksHoldRequest`;
  `PagesCorrectUnderHeap` and `FirstFitUnderHeap` carry the two results about
  pages over to the composition, because the heap and its neighbours call the
  page manager only as `DefaultPmm` supposes (`HeapUsesPages`: `KSpec => Spec`).
  `Sound` relates a list of free units, the blocks given out and the pages cut
  up; taking a block, returning one and adding a page are lemmas about it
  (`TakeSound`, `FreeSound`, `GrowSound`). `HeapInv` adds that addresses in use
  are distinct, that at most one request is half done, and that the pages of
  the heap are blocks the page manager gave to it; otherwise a page could be
  returned under the heap. `KmallocAssumption` leaves the sizes open, but for the
  gap below a page and what is no int. For the pages of a request, the loop of
  find_order is a recursive function; that it has a value comes first
  (`HalveValue`), then, by induction on the size, that the quotient times the
  pages misses at most the bits lost (`HalveSound`), from which what a caller gets
  follows (`OrderEnough`). A request above all pages fails, because the count of
  free pages never exceeds them (`FreeCount`).
* `Interrupts_proofs`, the keyboard (`StdinAssumption`): `NoLostKey`, `CharactersCorrect`,
  `ReadsComplete`. The invariant adds that the two positions are at most a buffer
  apart, so that positions between them name different places of the buffer
  (`ModInjective`), and that a reader that is awake and was not killed was woken
  for a character.
* `Files_proofs` (`FilesAssumption`): `RefsCorrect`, `ReaderFileKept`,
  `FileAssertionsHold`. Inside a call a reference may have no owner: a look-up
  took one that no entry holds yet, or an entry or a working directory was
  cleared before its reference is given back. `Refs` counts these references in
  hand; then every call is a sequence of moves of one reference (`IncGood`,
  `DropGood`, `FillGood`, ...), and the loops of files_closeall and files_destroy
  preserve it by induction over descriptors. `FilesInv` adds that the count of
  an entry is one for being open plus its sleeping readers, that the count of a
  table is the number of its users, and that a table without users is empty;
  otherwise a close could free an entry under a reader, or a new process could
  get a table with entries on it.
* `SfsSem_proofs`, the file system (`SfsAssumption`): `SfsBlocksOwnedOnce`, `SfsNoHoles`,
  `SfsFdWithinFile`, `SfsPanicsExplained`. Ownership is proved of the map from
  slots (file, and direct block, indirect block or entry) to block numbers
  (`Map`): every step of an operation fills one slot, clears one, or takes a
  block from the free map, and a block without a slot is in hand (`Parts`). The
  loops over blocks in sfs_truncfile and sfs_io_nolock preserve this round by
  round (`IntervalInduction`). `SfsInv` adds `Rows` (the first `din->blocks`
  blocks are there, and no direct block behind them) and `DiskCurrent`:
  sfs_bmap_load_nolock does not mark every growth, so the inode read again after
  a close may be an old one, and it may stand for the one in memory because only
  growth behind the direct blocks comes unmarked (`Synced`); the entries of the
  indirect block are then found in place. Otherwise a block could get a second
  owner, or an old inode bring back a block that was freed.
* `Vmm_proofs` (`VmmAssumption`): `MmStaysSound`, `FramesAddUp`, `OverlapAsked`,
  `UserMemCheckIsExact`, for any sizes of tables, user range, number of frames
  and programs. `Sound` is the invariant of one address space. Its core
  (`Tables`) goes both ways: every page has its table and every table its
  directory, and no table or directory is there without a page of a vma under
  it. Without the second direction exit_range, which visits only the directories
  of the vmas, might miss one. Every function conserves `Total`, the sum of free
  frames, lost tables and the frames of the address space it works on; across
  processes the frames are a union of disjoint tagged sets, of which a step
  replaces those of one process (`Balance`, `ReplaceStep`). An insertion goes
  between its neighbours or one of them overlaps (`PlaceFacts`, `InsertVma`), so
  no page is ever mapped over another; in dup_mmap the vma inserted lies below
  all that are there, so the assertion cannot fail in fork. put_mm loses nothing
  if no directory serves two tables (`ExitClean`). The loops are recursive
  functions: that they have values is proved first (`RoundsExist`; for the rounds
  of user_mem_check, which go up to the top of the user's range, `WalkExists` by
  induction from the top), then what a round preserves.

* `Interrupts_proofs`, the scheduling class (`StrideAssumption`): `PoolHoldsTheReady`,
  `StridesCompare`. A ghost `sub`, the nodes below each node, says that the
  pointers form a tree (`IsTree`); `Merged` says what a merge of two trees is: the
  nodes of both, nothing else touched, the parent of the new root as it was, the
  order kept. `MergeCorrect` proves it of the recursive function, whose value
  exists because the two nodes it looks at have ever fewer nodes below them
  (`MergeCallsExist`), and by induction on that number. The invariant
  (`StrideInv`) adds that nodes outside the heap have no pointers and that the
  root has no parent; otherwise skew_heap_remove, which decides by the parent
  whether it replaces the root, would leave the old root in place. For the order,
  signed differences of at most BIG_STRIDE add up (`SignedAdd`) if BIG_STRIDE is
  below a third of `Wrap`: then the root is the least (`RootLeast`), so a pass of
  at most BIG_STRIDE keeps it within BIG_STRIDE of the others (`PickCounted`).
  With BIG_STRIDE just below half of `Wrap`, three strides can each be before the
  next; in the kernel it is a quarter.

Only model-checked: the properties that need fairness (the liveness properties of
`proc_liveness`, `WaiterServed`, `EveryoneRuns`), which are outside the prover's
reach.

## 5. Plan

Every safety property and every step property of the passing runs has its
theorem. What a next step could take on is several files and the look-up of names
in `SfsFile`, and `Proc` composed with `Stride` in place of its open pick_next.

## 6. Not modelled

* Swap: see above; nothing of it runs but the call that fails.
* `sync/check_sync.c`: init_main does not call it. `sync/monitor.c`: the bodies
  of cond_wait and cond_signal are empty.
* Directory search, sfs_namefile and sfs_getdirentry: directories are only read
  (there is no vop_create or vop_unlink), so they change no state. sfs_unmount
  is never called.
* Drivers, boot, context switch and trap entry (assembly and straight-line
  I/O), debugging output, `libs` except the skew heap, user programs (their
  assertions are used as statements about the kernel), `tools/`.
* `lab0` to `lab5`: snapshots of the same kernel with fewer parts.
