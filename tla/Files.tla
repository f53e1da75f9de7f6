------------------------------- MODULE Files -------------------------------
(***************************************************************************)
(* Tables of open files (kern/fs/file.c, fs.c), the opening and closing of *)
(* inodes (vfs/vfsfile.c, inode.c) and the inodes in memory (sfs_inode.c): *)
(* who holds which reference, through open with its failures, close, dup,  *)
(* chdir, fork, exec and exit, and through a read that sleeps while another *)
(* process with the same table closes the file under it.  Tables are       *)
(* shared with CLONE_FS, which sys_fork does not pass; file.c counts the   *)
(* users of an entry all the same.                                         *)
(*                                                                         *)
(* Only a read of the keyboard sleeps; every other call is one step.  A    *)
(* call that changes nothing, such as a read of a file, has no action.     *)
(***************************************************************************)
EXTENDS Naturals, FiniteSetsExt

CONSTANTS
    Procs, first,  \* processes; the first of them
    Tabs, ftab,    \* files_structs; that of the first process
    NENTRY,        \* FILES_STRUCT_NENTRY
    Dirs, Regs, Devs, \* inodes: directories, files, devices
    root,          \* the root directory
    NONE,
    MaxLeak        \* bound: references lost

ASSUME FilesAssumption ==
    /\ first \in Procs /\ ftab \in Tabs /\ root \in Dirs
    /\ NENTRY \in Nat \ {0} /\ MaxLeak \in Nat
    /\ IsFiniteSet(Procs) /\ IsFiniteSet(Tabs)
    /\ NONE \notin Tabs \cup Dirs \cup Regs \cup Devs \cup 0..(NENTRY - 1)

VARIABLES
    filesp,      \* proc->filesp; NONE of a process that does not exist
    reading,     \* the entry a process sleeps on in dev_stdin_read, or NONE
    files_count, \* users of a table
    pwd,         \* files->pwd
    fd_array,    \* files->fd_array: status, open_count and node
    ref_count, open_count, \* of an inode
    cached,      \* the inodes of the disk that are in memory
    fate,        \* "ok", "vop" (an operation the inode lacks) or "assert"
    seen,        \* history: the inode a sleeping reader started on
    lost         \* history: references nobody will give back

vars == <<filesp, reading, files_count, pwd, fd_array, ref_count, open_count, cached,
          fate, seen, lost>>

Nodes == Dirs \cup Regs \cup Devs
Fd == 0..(NENTRY - 1)
NoFile == [status |-> "NONE", count |-> 0, node |-> NONE]

\* references that last as long as the kernel: bootfs_node, and the list of devices
base(n) == IF n \in Devs \cup {root} THEN 1 ELSE 0

Init ==
    /\ filesp = [p \in Procs |-> IF p = first THEN ftab ELSE NONE]
    /\ reading = [p \in Procs |-> NONE] /\ seen = reading
    /\ files_count = [t \in Tabs |-> IF t = ftab THEN 1 ELSE 0]
    /\ pwd = [t \in Tabs |-> IF t = ftab THEN root ELSE NONE]
    /\ fd_array = [t \in Tabs |-> [d \in Fd |-> NoFile]]
    /\ ref_count = [n \in Nodes |-> base(n) + (IF n = root THEN 1 ELSE 0)]
    /\ open_count = [n \in Nodes |-> 0]
    /\ cached = {root} /\ fate = "ok"
    /\ lost = [n \in Nodes |-> 0]
-----------------------------------------------------------------------------
(* The functions below map states to states: fds is one table, the rest    *)
(* are the variables of the same names.                                    *)
Work(t) == [fds |-> fd_array[t], ref |-> ref_count, open |-> open_count,
            cached |-> cached, fate |-> fate]

Asserted(s, cond) == IF cond THEN s ELSE [s EXCEPT !.fate = "assert"]

inode_ref_inc(s, n) == [s EXCEPT !.ref[n] = @ + 1]

\* inode_ref_dec; the last reference reclaims the inode: sfs_reclaim and inode_kill
inode_ref_dec(s, n) ==
    LET t == Asserted(s, s.ref[n] > 0 /\ (s.ref[n] = 1 => s.open[n] = 0))
    IN IF t.fate # "ok" THEN t
       ELSE [t EXCEPT !.ref[n] = @ - 1, !.cached = IF s.ref[n] = 1 THEN @ \ {n} ELSE @]

inode_open_dec(s, n) ==
    IF s.open[n] = 0 THEN Asserted(s, FALSE) ELSE [s EXCEPT !.open[n] = @ - 1]

\* vfs_lookup: the references to directories on the way are given back; the inode
\* is found in memory or loaded (sfs_load_inode)
vfs_lookup(s, n) ==
    [inode_ref_inc(s, n) EXCEPT !.cached = IF n \in Devs THEN @ ELSE @ \cup {n}]

vfs_close(s, n) == inode_ref_dec(inode_open_dec(s, n), n)

\* fd_array_free of an entry that was open
fd_array_free(s, d) ==
    LET t == Asserted(s, s.fds[d].status = "CLOSED" /\ s.fds[d].count = 0)
    IN IF t.fate # "ok" THEN t ELSE [vfs_close(t, s.fds[d].node) EXCEPT !.fds[d] = NoFile]

\* fd_array_release; with the status it leaves
fd_array_release(s, d) ==
    LET t == [Asserted(s, s.fds[d].count > 0) EXCEPT !.fds[d].count = @ - 1]
    IN IF t.fate # "ok" THEN t
       ELSE IF t.fds[d].count = 0 THEN fd_array_free(t, d) ELSE t

\* Mutant: the entry goes although somebody uses it.
fd_array_close_now(s, d) ==
    fd_array_free([s EXCEPT !.fds[d].status = "CLOSED", !.fds[d].count = 0], d)

\* fd_array_close: the entry stays, closed, until its last user is done
fd_array_close(s, d) == fd_array_release([s EXCEPT !.fds[d].status = "CLOSED"], d)

close_if_open(s, d) == IF s.fds[d].status = "OPENED" THEN fd_array_close(s, d) ELSE s

\* Mutant: the loop starts one late.
close_from_next(s, k) ==
    LET before[d \in 0..NENTRY] == IF d <= k + 1 THEN s ELSE close_if_open(before[d - 1], d - 1)
    IN  before[NENTRY]

\* the loops of files_closeall (from 2) and files_destroy (from 0): before[d] is the
\* state when they reach entry d
close_from(s, k) ==
    LET before[d \in 0..NENTRY] == IF d <= k THEN s ELSE close_if_open(before[d - 1], d - 1)
    IN  before[NENTRY]

Set(t, s) ==
    /\ fd_array' = [fd_array EXCEPT ![t] = s.fds]
    /\ ref_count' = s.ref /\ open_count' = s.open /\ cached' = s.cached /\ fate' = s.fate

\* p is in a system call
Runs(p) == fate = "ok" /\ filesp[p] # NONE /\ reading[p] = NONE
Opened(p, d) == fd_array[filesp[p]][d].status = "OPENED"
Free(p) == {d \in Fd : fd_array[filesp[p]][d].status = "NONE"}
-----------------------------------------------------------------------------
\* the flags of open; directories and the keyboard refuse most of them
OpenFlags == {{}, {"WR"}, {"WR", "TRUNC"}, {"CREAT"}, {"CREAT", "EXCL"}, {"WR", "APPEND"}}
vop_open(n, flags) ==
    CASE n \in Regs -> TRUE
      [] n \in Dirs -> flags \cap {"WR", "APPEND"} = {}
      [] n \in Devs -> flags = {}

\* Mutant: the reference of the look-up stays.
open_refused_kept(s, n) == s

open_refused(s, n) == inode_ref_dec(s, n)

\* file_open, vfs_open: the reference that the look-up gave goes to the entry, is
\* given back, or, with O_EXCL on a file that exists, is lost.  A directory has no
\* vop_truncate.
file_open(p, n, flags) ==
    /\ Runs(p) /\ Free(p) # {}
    /\ LET t == filesp[p]
           s == vfs_lookup(Work(t), n)
           o == [s EXCEPT !.open[n] = @ + 1,
                          !.fds[Min(Free(p))] = [status |-> "OPENED", count |-> 1, node |-> n]]
       IN CASE {"CREAT", "EXCL"} \subseteq flags ->
                  /\ lost[n] < MaxLeak
                  /\ lost' = [lost EXCEPT ![n] = @ + 1] /\ Set(t, s)
            [] ~({"CREAT", "EXCL"} \subseteq flags) /\ ~vop_open(n, flags) ->
                  Set(t, open_refused(s, n)) /\ UNCHANGED lost
            [] OTHER ->
                  /\ Set(t, IF flags \cap {"TRUNC", "CREAT"} # {} /\ n \notin Regs
                            THEN [s EXCEPT !.fate = "vop"] ELSE o)
                  /\ UNCHANGED lost
    /\ UNCHANGED <<filesp, reading, files_count, pwd, seen>>

\* what no inode, or not this one, can do: creating a file (no vop_create), reading
\* or seeking in a directory, fsync of a device
file_no_vop(p) ==
    /\ Runs(p)
    /\ Free(p) # {} \/ \E d \in Fd : Opened(p, d) /\ fd_array[filesp[p]][d].node \notin Regs
    /\ fate' = "vop"
    /\ UNCHANGED <<filesp, reading, files_count, pwd, fd_array, ref_count, open_count, cached, seen, lost>>

file_close(p, d) ==
    /\ Runs(p) /\ Opened(p, d)
    /\ Set(filesp[p], fd_array_close(Work(filesp[p]), d))
    /\ UNCHANGED <<filesp, reading, files_count, pwd, seen, lost>>

\* file_dup, fd_array_dup
file_dup(p, d, e) ==
    /\ Runs(p) /\ Opened(p, d) /\ e \in Free(p)
    /\ LET n == fd_array[filesp[p]][d].node
       IN Set(filesp[p], [inode_ref_inc(Work(filesp[p]), n) EXCEPT !.open[n] = @ + 1,
                             !.fds[e] = [status |-> "OPENED", count |-> 1, node |-> n]])
    /\ UNCHANGED <<filesp, reading, files_count, pwd, seen, lost>>

\* file_read of the keyboard: fd_array_acquire, and the process goes to sleep
file_read(p, d) ==
    /\ Runs(p) /\ Opened(p, d) /\ fd_array[filesp[p]][d].node \in Devs
    /\ reading' = [reading EXCEPT ![p] = d]
    /\ seen' = [seen EXCEPT ![p] = fd_array[filesp[p]][d].node]
    /\ fd_array' = [fd_array EXCEPT ![filesp[p]][d].count = @ + 1]
    /\ UNCHANGED <<filesp, files_count, pwd, ref_count, open_count, cached, fate, lost>>

\* ... and is back
file_read_done(p) ==
    /\ fate = "ok" /\ reading[p] # NONE
    /\ Set(filesp[p], fd_array_release(Work(filesp[p]), reading[p]))
    /\ reading' = [reading EXCEPT ![p] = NONE] /\ seen' = [seen EXCEPT ![p] = NONE]
    /\ UNCHANGED <<filesp, files_count, pwd, lost>>

\* vfs_chdir, vfs_set_curdir
vfs_chdir(p, n) ==
    /\ Runs(p)
    /\ LET t == filesp[p]
           s == vfs_lookup(Work(t), n)
           u == IF n \in Dirs /\ n # pwd[t] THEN inode_ref_dec(inode_ref_inc(s, n), pwd[t]) ELSE s
       IN /\ Set(t, inode_ref_dec(u, n))
          /\ pwd' = IF n \in Dirs THEN [pwd EXCEPT ![t] = n] ELSE pwd
    /\ UNCHANGED <<filesp, reading, files_count, seen, lost>>

\* copy_files in do_fork with CLONE_FS
fork_shared(p, c) ==
    /\ Runs(p) /\ filesp[c] = NONE
    /\ filesp' = [filesp EXCEPT ![c] = filesp[p]]
    /\ files_count' = [files_count EXCEPT ![filesp[p]] = @ + 1]
    /\ UNCHANGED <<reading, pwd, fd_array, ref_count, open_count, cached, fate, seen, lost>>

\* the entries dup_files copies
copied(t) == {d \in Fd : fd_array[t][d].status = "OPENED"}

\* copy_files without it: files_create and dup_files
fork_copied(p, c, t) ==
    /\ Runs(p) /\ filesp[c] = NONE /\ files_count[t] = 0
    /\ LET old == filesp[p]
           At(n) == {d \in copied(old) : fd_array[old][d].node = n}
       IN /\ fd_array' = [fd_array EXCEPT ![t] = [d \in Fd |->
                IF d \in copied(old) THEN [fd_array[old][d] EXCEPT !.count = 1]
                ELSE NoFile]]
          /\ ref_count' = [n \in Nodes |->
                ref_count[n] + Cardinality(At(n)) + (IF pwd[old] = n THEN 1 ELSE 0)]
          /\ open_count' = [n \in Nodes |-> open_count[n] + Cardinality(At(n))]
          /\ pwd' = [pwd EXCEPT ![t] = pwd[old]]
    /\ filesp' = [filesp EXCEPT ![c] = t]
    /\ files_count' = [files_count EXCEPT ![t] = 1]
    /\ UNCHANGED <<reading, cached, fate, seen, lost>>

\* do_execve: files_closeall keeps entries 0 and 1; the program is opened, read
\* and closed again
files_closeall(p) ==
    /\ Runs(p)
    /\ Set(filesp[p], close_from(Work(filesp[p]), 2))
    /\ UNCHANGED <<filesp, reading, files_count, pwd, seen, lost>>

\* put_files in do_exit; with the last user files_destroy
put_files(p) ==
    /\ Runs(p)
    /\ LET t == filesp[p]
           s == close_from(inode_ref_dec(Work(t), pwd[t]), 0)
       IN IF files_count[t] = 1
          THEN /\ Set(t, Asserted(s, \A d \in Fd : s.fds[d].status = "NONE"))
               /\ pwd' = [pwd EXCEPT ![t] = NONE]
          ELSE UNCHANGED <<pwd, fd_array, ref_count, open_count, cached, fate>>
    /\ files_count' = [files_count EXCEPT ![filesp[p]] = @ - 1]
    /\ filesp' = [filesp EXCEPT ![p] = NONE]
    /\ UNCHANGED <<reading, seen, lost>>

Next ==
    \E p \in Procs :
        \/ \E n \in Nodes, flags \in OpenFlags : file_open(p, n, flags)
        \/ \E n \in Nodes : vfs_chdir(p, n)
        \/ \E d \in Fd : file_close(p, d) \/ file_read(p, d)
        \/ \E d, e \in Fd : file_dup(p, d, e)
        \/ file_read_done(p) \/ file_no_vop(p)
        \/ \E c \in Procs : fork_shared(p, c) \/ \E t \in Tabs : fork_copied(p, c, t)
        \/ files_closeall(p) \/ put_files(p)

Spec == Init /\ [][Next]_vars
-----------------------------------------------------------------------------
Entries(n) == {e \in Tabs \X Fd : fd_array[e[1]][e[2]].node = n}

\* Every reference to an inode has an owner: open_count is the number of table
\* entries on it, ref_count adds the working directories, what the kernel keeps
\* and what vfs_open lost; and an inode of the disk is in memory exactly while it
\* is referenced.  Every path of vfs_open but one is accounted for.
RefsExact ==
    fate = "ok" => \A n \in Nodes :
        /\ open_count[n] = Cardinality(Entries(n))
        /\ ref_count[n] = open_count[n] + base(n) + lost[n] + Cardinality({t \in Tabs : pwd[t] = n})
        /\ n \notin Devs => (n \in cached <=> ref_count[n] > 0)

\* A process that sleeps in a read finds the file it started on when it is back:
\* its entry is neither freed nor reused for another file meanwhile.
ReaderKeepsFile ==
    \A p \in Procs : reading[p] # NONE =>
        /\ filesp[p] # NONE
        /\ LET e == fd_array[filesp[p]][reading[p]]
           IN e.node = seen[p] /\ e.status \in {"OPENED", "CLOSED"}

\* The assertions on the way: an entry that is freed has no users and is not open,
\* a table that is destroyed is empty, an inode that is killed is not open, and
\* counts are positive where they are decremented.
AssertionsHold == fate # "assert"
=============================================================================
