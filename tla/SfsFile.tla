------------------------------ MODULE SfsFile ------------------------------
(***************************************************************************)
(* Regular files of the simple file system (kern/fs/sfs/sfs_inode.c) as    *)
(* they are reached through file descriptors (kern/fs/file.c): the free    *)
(* map, the block pointers of an inode, its size and the position of every *)
(* descriptor, through open, close, dup, read, write, seek and fsync.      *)
(*                                                                         *)
(* What a block of data holds is left out; what an indirect block holds is *)
(* not.  The disk is a RAM disk that neither fails nor sleeps, and the     *)
(* kernel is not preempted, so a call is one step; only the free map can   *)
(* run out.  A call that returns an error before it has changed anything   *)
(* is a stuttering step; so are the tests of the access mode (O_RDWR here). *)
(***************************************************************************)
EXTENDS Integers, FiniteSetsExt, SequencesExt

CONSTANTS
    Files,       \* the files on the disk
    Fds,         \* file descriptors, of one process or of several
    NBlocks,     \* blocks of data on the disk
    Others,      \* how many of them files may hold that nobody opens
    NDirect,     \* SFS_NDIRECT
    NEntry,      \* SFS_BLK_NENTRY
    BlkSize,     \* SFS_BLKSIZE, which is also IOBUF_SIZE
    MaxFileSize, \* SFS_MAX_FILE_SIZE
    NONE         \* of a descriptor that is not open

ASSUME SfsAssumption ==
    /\ NBlocks \in Nat /\ Others \subseteq 0..NBlocks /\ NDirect \in Nat /\ NEntry \in Nat
    /\ BlkSize \in Nat \ {0} /\ MaxFileSize \in Nat \ {0}

VARIABLES
    held,          \* the blocks of files that nobody opens
    freemap,       \* sfs->freemap: the free blocks
    unused_blocks, \* sfs->super.unused_blocks
    entries,       \* the block numbers in a block that is used as indirect block
    disk,          \* the inode as the disk has it
    din,           \* the inode in memory; of a file nobody has open that of the disk
    dirty,         \* sin->dirty
    fd,            \* the descriptors
    fate,          \* "ok", or the assertion or panic that stopped the kernel
    cut            \* history: files truncated under a descriptor in their middle

vars == <<held, freemap, unused_blocks, entries, disk, din, dirty, fd, fate, cut>>

Block == 1..NBlocks
Entry == 0..(NEntry - 1)
Dinode == [size : Nat, blocks : Nat,
           direct : [0..(NDirect - 1) -> {0} \cup Block], indirect : {0} \cup Block]
Empty == [size |-> 0, blocks |-> 0, direct |-> [i \in 0..(NDirect - 1) |-> 0], indirect |-> 0]
Zero == [i \in Entry |-> 0]
Cdiv(n) == (n + BlkSize - 1) \div BlkSize

Open(d) == fd[d] # NONE
Users(f) == {d \in Fds : Open(d) /\ fd[d].node = f}

\* the file system is mounted; tools/mksfs.c fills a disk from its first block on
Init ==
    /\ \E n \in Others : held = 1..n
    /\ freemap = Block \ held /\ unused_blocks = Cardinality(freemap)
    /\ entries = [b \in Block |-> Zero]
    /\ disk = [f \in Files |-> Empty] /\ din = disk
    /\ dirty = [f \in Files |-> FALSE]
    /\ fd = [d \in Fds |-> NONE]
    /\ fate = "ok" /\ cut = {}
-----------------------------------------------------------------------------
(* What the functions below work on: the free map, one inode and the       *)
(* indirect blocks.  ret is "ok", "E_NO_MEM" or the reason of a panic, blk *)
(* the block a function hands back.                                        *)
Work(f) == [free |-> freemap, unused |-> unused_blocks, entries |-> entries,
            din |-> din[f], dirty |-> dirty[f], ret |-> "ok", blk |-> 0]

\* sfs_block_alloc: the first free block, cleared
sfs_block_alloc(s) ==
    IF s.free = {} THEN [s EXCEPT !.ret = "E_NO_MEM"]
    ELSE LET b == Min(s.free)
         IN [s EXCEPT !.free = @ \ {b}, !.unused = @ - 1, !.entries[b] = Zero, !.blk = b]

sfs_block_free(s, b) == [s EXCEPT !.free = @ \cup {b}, !.unused = @ + 1]

\* sfs_bmap_get_nolock with create, for a direct block
get_direct(s, index) ==
    LET t == sfs_block_alloc(s)
    IN IF t.ret # "ok" THEN t
       ELSE [t EXCEPT !.din.direct[index] = t.blk, !.dirty = TRUE]

\* Mutant: the new indirect block is not given back.
failed_cleanup_not(s, e) == [e EXCEPT !.ret = "E_NO_MEM"]

\* the label failed_cleanup: the indirect block goes back if it is new
failed_cleanup(s, e) == [s EXCEPT !.ret = "E_NO_MEM"]

\* sfs_bmap_get_sub_nolock with create: the indirect block, if there is none
\* yet, and then the block it is to point to, unless it does already
sfs_bmap_get_sub(s, i) ==
    LET e == IF s.din.indirect = 0 THEN sfs_block_alloc(s)
             ELSE [s EXCEPT !.blk = s.din.indirect]
        t == sfs_block_alloc(e)
    IN CASE e.ret # "ok" -> e
         [] e.ret = "ok" /\ e.entries[e.blk][i] # 0 -> e
         [] e.ret = "ok" /\ e.entries[e.blk][i] = 0 ->
              IF t.ret # "ok" THEN failed_cleanup(s, e)
              ELSE [t EXCEPT !.entries[e.blk][i] = t.blk, !.din.indirect = e.blk,
                             !.dirty = @ \/ s.din.indirect = 0]

\* the disk block of index; 0 if there is none
sfs_bmap_get(s, index) ==
    IF index < NDirect THEN s.din.direct[index]
    ELSE IF index - NDirect \notin Entry \/ s.din.indirect = 0 THEN 0
    ELSE s.entries[s.din.indirect][index - NDirect]

\* get or create the block of index, which is din->blocks
sfs_bmap_create(s, index) ==
    IF index < NDirect THEN get_direct(s, index) ELSE sfs_bmap_get_sub(s, index - NDirect)

\* Mutant: the block is counted before it is there.
count_block_early(t) == [t EXCEPT !.din.blocks = @ + 1]

\* din->blocks ++, once the block is there
count_block(t) == IF t.ret # "ok" THEN t ELSE [t EXCEPT !.din.blocks = @ + 1]

\* sfs_bmap_load_nolock
sfs_bmap_load(s, index) ==
    IF s.ret # "ok" THEN s
    ELSE IF index > s.din.blocks THEN [s EXCEPT !.ret = "index"]
    ELSE IF index >= NDirect + NEntry THEN [s EXCEPT !.ret = "range"]
    ELSE IF index = s.din.blocks THEN count_block(sfs_bmap_create(s, index))
    ELSE IF sfs_bmap_get(s, index) = 0 THEN [s EXCEPT !.ret = "hole"] ELSE s

\* a loop over blocks; at[n] is the state after n of them
load_all(s, first, last) ==
    LET at[n \in 0..(last - first + 1)] ==
            IF n = 0 THEN s ELSE sfs_bmap_load(at[n - 1], first + n - 1)
    IN  at[last - first + 1]

\* sfs_bmap_free_sub_nolock
sfs_bmap_free_sub(s, i) ==
    LET ent == s.din.indirect
        ino == s.entries[ent][i]
    IN IF ino = 0 THEN s ELSE [sfs_block_free(s, ino) EXCEPT !.entries[ent][i] = 0]

\* sfs_bmap_truncate_nolock: free the last block (sfs_bmap_free_nolock)
sfs_bmap_truncate(s, index) ==
    LET ino == sfs_bmap_get(s, index)
        t == IF index >= NDirect
             THEN IF s.din.indirect = 0 THEN s ELSE sfs_bmap_free_sub(s, index - NDirect)
             ELSE IF ino = 0 THEN s ELSE [sfs_block_free(s, ino) EXCEPT !.din.direct[index] = 0]
    IN [t EXCEPT !.din.blocks = @ - 1, !.dirty = TRUE]

\* the other loop of sfs_truncfile: the blocks from the last one down to tblks
truncate_all(s, tblks) ==
    LET at[n \in 0..(s.din.blocks - tblks)] ==
            IF n = 0 THEN s ELSE sfs_bmap_truncate(at[n - 1], s.din.blocks - n)
    IN  at[s.din.blocks - tblks]

\* sfs_truncfile
sfs_truncfile(s, len) ==
    LET nblks == s.din.blocks
        tblks == Cdiv(len)
        t == IF nblks < tblks THEN load_all(s, nblks, tblks - 1)
             ELSE truncate_all(s, tblks)
    IN CASE s.din.size = len /\ tblks # nblks -> [s EXCEPT !.ret = "tblks"]
         [] s.din.size = len /\ tblks = nblks -> s
         [] s.din.size # len /\ t.ret # "ok" -> t
         [] s.din.size # len /\ t.ret = "ok" -> [t EXCEPT !.din.size = len, !.dirty = TRUE]

\* the label out of sfs_io_nolock
set_size(s, endpos) ==
    IF endpos > s.din.size THEN [s EXCEPT !.din.size = endpos, !.dirty = TRUE] ELSE s

\* Mutant: the length asked for, whether or not the disk became full.
Moved_all(t, offset, endpos) == endpos - offset

\* alen: if the disk becomes full, the transfer ends before the first block that
\* is not to be had
Moved(t, offset, endpos) ==
    IF t.ret = "ok" THEN endpos - offset ELSE Max({0, t.din.blocks * BlkSize - offset})

\* sfs_io_nolock: the blocks from offset on are loaded one by one
sfs_io(s, offset, endpos) ==
    LET t == load_all(s, offset \div BlkSize, (endpos - 1) \div BlkSize)
    IN set_size(t, offset + Moved(t, offset, endpos))
-----------------------------------------------------------------------------
\* the state after a call on file f that ended with s, and the new descriptors
Done(f, s, fds) ==
    IF s.ret \in {"ok", "E_NO_MEM"}
    THEN /\ freemap' = s.free /\ unused_blocks' = s.unused /\ entries' = s.entries
         /\ din' = [din EXCEPT ![f] = s.din] /\ dirty' = [dirty EXCEPT ![f] = s.dirty]
         /\ fd' = fds
         /\ UNCHANGED <<held, disk, fate>>
    ELSE /\ fate' = s.ret
         /\ UNCHANGED <<held, freemap, unused_blocks, entries, disk, din, dirty, fd>>

\* the flags that make a difference; with O_TRUNC or O_CREAT, O_APPEND makes none
OpenFlags == {{}, {"TRUNC"}, {"CREAT"}, {"APPEND"}}

\* file_open and vfs_open on a file that exists: O_CREAT truncates as O_TRUNC does
file_open(d, f, flags) ==
    /\ fate = "ok" /\ ~Open(d)
    /\ LET t == IF flags \cap {"TRUNC", "CREAT"} # {} THEN sfs_truncfile(Work(f), 0)
                ELSE Work(f)
       IN /\ Done(f, t, [fd EXCEPT ![d] =
                [node |-> f, pos |-> IF "APPEND" \in flags THEN t.din.size ELSE 0]])
          /\ cut' = IF t.din.size < din[f].size /\ \E e \in Users(f) : fd[e].pos > t.din.size
                    THEN cut \cup {f} ELSE cut

\* sfs_fsync
written_back(f) == IF dirty[f] THEN [disk EXCEPT ![f] = din[f]] ELSE disk

\* file_close; the last descriptor writes the inode back (sfs_close) and lets
\* go of it (sfs_reclaim): the next open reads it from the disk
file_close(d) ==
    /\ fate = "ok" /\ Open(d)
    /\ fd' = [fd EXCEPT ![d] = NONE]
    /\ LET f == fd[d].node
       IN IF Users(f) = {d}
          THEN /\ disk' = written_back(f)
               /\ din' = [din EXCEPT ![f] = disk'[f]]
               /\ dirty' = [dirty EXCEPT ![f] = FALSE]
          ELSE UNCHANGED <<disk, din, dirty>>
    /\ UNCHANGED <<held, freemap, unused_blocks, entries, fate, cut>>

file_fsync(d) ==
    /\ fate = "ok" /\ Open(d) /\ dirty[fd[d].node]
    /\ disk' = written_back(fd[d].node)
    /\ dirty' = [dirty EXCEPT ![fd[d].node] = FALSE]
    /\ UNCHANGED <<held, freemap, unused_blocks, entries, din, fd, fate, cut>>

\* file_dup: the copy has a position of its own
file_dup(d, e) ==
    /\ fate = "ok" /\ Open(d) /\ ~Open(e)
    /\ fd' = [fd EXCEPT ![e] = fd[d]]
    /\ UNCHANGED <<held, freemap, unused_blocks, entries, disk, din, dirty, fate, cut>>

\* file_write of len bytes, at most one buffer of sysfile_write
file_write(d, len) ==
    /\ fate = "ok" /\ Open(d) /\ fd[d].pos < MaxFileSize
    /\ LET f == fd[d].node
           pos == fd[d].pos
           endpos == Min({pos + len, MaxFileSize})
           t == sfs_io(Work(f), pos, endpos)
       IN Done(f, t, [fd EXCEPT ![d].pos = pos + Moved(t, pos, endpos)])
    /\ UNCHANGED cut

\* file_read: not past the end of the file
file_read(d, len) ==
    /\ fate = "ok" /\ Open(d) /\ fd[d].pos < din[fd[d].node].size
    /\ LET f == fd[d].node
           pos == fd[d].pos
           endpos == Min({pos + len, din[f].size})
           t == sfs_io(Work(f), pos, endpos)
       IN Done(f, t, [fd EXCEPT ![d].pos = pos + Moved(t, pos, endpos)])
    /\ UNCHANGED cut

\* Mutant: the file does not grow.
sfs_tryseek_short(s, pos) == s

\* sfs_tryseek: past the end the file grows
sfs_tryseek(s, pos) == IF pos > s.din.size THEN sfs_truncfile(s, pos) ELSE s

\* file_seek; the three values of whence reach the same positions
file_seek(d, pos) ==
    /\ fate = "ok" /\ Open(d) /\ pos < MaxFileSize
    /\ LET f == fd[d].node
           t == sfs_tryseek(Work(f), pos)
       IN Done(f, t, IF t.ret = "ok" THEN [fd EXCEPT ![d].pos = pos] ELSE fd)
    /\ UNCHANGED cut

Next ==
    \E d \in Fds :
        \/ \E f \in Files, flags \in OpenFlags : file_open(d, f, flags)
        \/ file_close(d) \/ file_fsync(d)
        \/ \E e \in Fds : file_dup(d, e)
        \/ \E len \in 1..BlkSize : file_write(d, len) \/ file_read(d, len)
        \/ \E pos \in 0..MaxFileSize : file_seek(d, pos)

Spec == Init /\ [][Next]_vars
-----------------------------------------------------------------------------
\* Where an inode has block numbers: slot -1 is its indirect block, the others are
\* the blocks of the file.
Slot == -1..(NDirect + NEntry - 1)
Pointer(f, k) == IF k = -1 THEN din[f].indirect ELSE sfs_bmap_get(Work(f), k)

\* No block is lost and none has two owners: every block is free, or of another
\* file, or in exactly one slot of one inode, through partial failures (an indirect
\* block allocated for a block that is not to be had), through closing and re-reading
\* inodes that were changed without being marked dirty, and after truncation.
BlocksOwnedOnce ==
    /\ unused_blocks = Cardinality(freemap)
    /\ freemap \cap held = {}
    /\ \A b \in Block : b \in freemap \cup held <=> \A f \in Files, k \in Slot : Pointer(f, k) # b
    /\ \A f, g \in Files, k, l \in Slot :
          Pointer(f, k) = Pointer(g, l) /\ Pointer(f, k) # 0 => f = g /\ k = l

\* sfs_block_inuse panics for block 0: every index below din->blocks has a block.
NoHoles ==
    \A f \in Files : \A i \in 0..(din[f].blocks - 1) :
        sfs_bmap_get(Work(f), i) # 0

\* A file never claims more bytes than it has blocks for, and no descriptor is
\* past the end of its file - as long as nobody truncated the file (an open with
\* O_TRUNC or O_CREAT) under a descriptor that was further on.
FdWithinFile ==
    \A f \in Files \ cut :
        /\ din[f].size <= din[f].blocks * BlkSize
        /\ \A d \in Users(f) : fd[d].pos <= din[f].size

\* The assertion of sfs_bmap_load_nolock, assert(index <= din->blocks), can only
\* fail for such a file, and a block below din->blocks is never missing.
PanicsExplained == fate # "hole" /\ (fate = "index" => cut # {})
=============================================================================
