--------------------------- MODULE SfsSem_proofs ---------------------------
(***************************************************************************)
(* Proofs about the simple file system and the semaphores it works under:  *)
(* SfsFile and SemLock.                                                    *)
(*                                                                         *)
(* SemLock, for any processes, semaphores and initial values: permits are  *)
(* conserved (for a lock: mutual exclusion), no wake-up is lost, and       *)
(* down() returns only with a permit.  The inductive invariant adds that a *)
(* process in a wait queue does not hold what it waits for, so that a      *)
(* hand-over creates a holder for the one that went away.                  *)
(*                                                                         *)
(* SfsFile, for any files, descriptors and sizes of disk, block and inode: *)
(* every block has one owner, no block below din->blocks is missing, and a *)
(* file is as long as its descriptors need it to be unless it was          *)
(* truncated under one of them.                                            *)
(*                                                                         *)
(* Ownership is proved of the map from slots to block numbers (Map): every *)
(* step of an operation fills a slot, clears one or takes a block from the *)
(* free map, and a block that was taken and has no slot yet is in hand.    *)
(* The invariant says besides what makes it safe to re-read an inode whose *)
(* changes were not marked dirty: only blocks behind the direct ones can   *)
(* have come unmarked (Synced).                                            *)
(***************************************************************************)
EXTENDS SfsFile, SemLock, ListLemmas

Descr == [node : Files, pos : Nat]
Table == [Block -> [Entry -> {0} \cup Block]]
Results == {"ok", "E_NO_MEM", "index", "range", "hole", "tblks"}
WorkType == [free : SUBSET Block, unused : Int, entries : Table, din : Dinode,
             dirty : BOOLEAN, ret : Results, blk : {0} \cup Block]

SfsTypeOK ==
    /\ held \in SUBSET Block /\ freemap \in SUBSET Block /\ unused_blocks \in Int
    /\ entries \in Table
    /\ disk \in [Files -> Dinode] /\ din \in [Files -> Dinode]
    /\ dirty \in [Files -> BOOLEAN]
    /\ fd \in [Fds -> Descr \cup {NONE}]

\* What slot k of an inode holds.
At(ents, ino, k) ==
    IF k = -1 THEN ino.indirect
    ELSE IF k < NDirect THEN ino.direct[k]
    ELSE IF ino.indirect = 0 THEN 0 ELSE ents[ino.indirect][k - NDirect]

Map(ents, D) == [x \in Files \X Slot |-> At(ents, D[x[1]], x[2])]

\* Every block is free, held by others, in hand or in one slot.
Parts(free, hand, M) ==
    /\ M \in [Files \X Slot -> {0} \cup Block]
    /\ free \in SUBSET Block /\ hand \in SUBSET Block /\ held \in SUBSET Block
    /\ \A b \in Block : /\ ~(b \in free /\ b \in held) /\ ~(b \in free /\ b \in hand)
                        /\ ~(b \in held /\ b \in hand)
    /\ \A b \in Block : b \in free \/ b \in held \/ b \in hand
                           <=> \A x \in Files \X Slot : M[x] # b
    /\ \A x, y \in Files \X Slot : M[x] = M[y] /\ M[x] # 0 => x = y

\* The first blocks of a file are there, and no direct one is behind them.
Row(M, g, n) ==
    /\ \A k \in 0..(n - 1) : k \in Slot /\ M[<<g, k>>] # 0
    /\ \A k \in 0..(NDirect - 1) : k >= n => M[<<g, k>>] = 0

Rows(M, D) == \A g \in Files : Row(M, g, D[g].blocks)

\* An inode on disk that may stand for the one in memory.
Synced(old, ino) ==
    /\ old.direct = ino.direct /\ old.indirect = ino.indirect /\ old.size = ino.size
    /\ old.blocks <= ino.blocks
    /\ old.blocks = ino.blocks \/ NDirect <= old.blocks

DiskCurrent ==
    \A f \in Files : ~dirty[f] =>
        /\ Synced(disk[f], din[f])
        /\ f \notin cut => disk[f].size <= disk[f].blocks * BlkSize

SfsInv ==
    /\ SfsTypeOK
    /\ Parts(freemap, {}, Map(entries, din))
    /\ unused_blocks = Cardinality(freemap)
    /\ Rows(Map(entries, din), din)
    /\ DiskCurrent
    /\ FdWithinFile
    /\ PanicsExplained
-----------------------------------------------------------------------------
(* Blocks change hands.                                                    *)

LEMMA TakeFree ==
    ASSUME NEW free, NEW hand, NEW M, Parts(free, hand, M), NEW b \in free
    PROVE  Parts(free \ {b}, hand \cup {b}, M)
  BY DEF Parts

LEMMA PutFree ==
    ASSUME NEW free, NEW hand, NEW M, Parts(free, hand, M), NEW b \in hand
    PROVE  Parts(free \cup {b}, hand \ {b}, M)
  BY DEF Parts

LEMMA FillSlot ==
    ASSUME NEW free, NEW hand, NEW M, Parts(free, hand, M), NEW b \in hand,
           NEW x \in Files \X Slot, M[x] = 0
    PROVE  Parts(free, hand \ {b}, [M EXCEPT ![x] = b])
<1> DEFINE N == [M EXCEPT ![x] = b]
<1>1. b \in Block /\ b # 0 /\ \A y \in Files \X Slot : M[y] # b
  BY DEF Parts, Block
<1>2. /\ N \in [Files \X Slot -> {0} \cup Block] /\ N[x] = b
      /\ \A y \in Files \X Slot : y # x => N[y] = M[y]
  BY <1>1 DEF Parts
<1> HIDE DEF N
<1>3. QED
  <2>1. \A c \in Block : (\A y \in Files \X Slot : N[y] # c) <=> c # b /\ \A y \in Files \X Slot : M[y] # c
    BY <1>1, <1>2 DEF Block
  <2>2. \A y, z \in Files \X Slot : N[y] = N[z] /\ N[y] # 0 => y = z
    BY <1>1, <1>2 DEF Parts
  <2>3. Parts(free, hand \ {b}, N)
    BY <1>1, <1>2, <2>1, <2>2 DEF Parts
  <2>4. QED
    BY <2>3 DEF N

LEMMA ClearSlot ==
    ASSUME NEW free, NEW hand, NEW M, Parts(free, hand, M),
           NEW x \in Files \X Slot, M[x] # 0
    PROVE  Parts(free, hand \cup {M[x]}, [M EXCEPT ![x] = 0])
<1> DEFINE N == [M EXCEPT ![x] = 0]
           b == M[x]
<1>1. b \in Block /\ \A y \in Files \X Slot : M[y] = b => y = x
  BY DEF Parts
<1>2. /\ N \in [Files \X Slot -> {0} \cup Block] /\ N[x] = 0
      /\ \A y \in Files \X Slot : y # x => N[y] = M[y]
  BY <1>1 DEF Parts
<1>3. b \notin free /\ b \notin held /\ b \notin hand
  BY <1>1 DEF Parts
<1>a. 0 \notin Block
  BY DEF Block
<1>4. \A c \in Block : (\A y \in Files \X Slot : N[y] # c) <=> c = b \/ \A y \in Files \X Slot : M[y] # c
  <2>1. M[x] = b
    OBVIOUS
  <2> HIDE DEF N, b
  <2>2. QED
    BY <1>1, <1>2, <1>a, <2>1
<1>5. \A y, z \in Files \X Slot : N[y] = N[z] /\ N[y] # 0 => y = z
  <2> HIDE DEF N, b
  <2>1. QED
    BY <1>1, <1>2 DEF Parts
<1> HIDE DEF N, b
<1>6. Parts(free, hand \cup {b}, N)
  BY <1>1, <1>2, <1>3, <1>4, <1>5 DEF Parts
<1>7. QED
  BY <1>6 DEF N, b
-----------------------------------------------------------------------------
(* What the steps of an operation do to the map of slots.                  *)

LEMMA Numbers ==
    /\ NBlocks \in Nat /\ NDirect \in Nat /\ NEntry \in Nat /\ BlkSize \in Nat /\ BlkSize > 0
    /\ 0 \notin Block /\ -1 \in Slot
    /\ \A i \in 0..(NDirect - 1) : i \in Slot /\ i # -1 /\ i < NDirect
    /\ \A i \in Entry : NDirect + i \in Slot /\ NDirect + i # -1 /\ ~(NDirect + i < NDirect)
                        /\ (NDirect + i) - NDirect = i
    /\ \A k \in Slot : k # -1 => (k < NDirect => k \in 0..(NDirect - 1))
                               /\ (~(k < NDirect) => k - NDirect \in Entry)
  BY SfsAssumption DEF Block, Slot, Entry

LEMMA MapAt ==
    ASSUME NEW ents \in Table, NEW D \in [Files -> Dinode]
    PROVE  /\ Map(ents, D) \in [Files \X Slot -> {0} \cup Block]
           /\ \A g \in Files, k \in Slot : /\ <<g, k>> \in Files \X Slot
                                           /\ Map(ents, D)[<<g, k>>] = At(ents, D[g], k)
<1>1. ASSUME NEW g \in Files, NEW k \in Slot PROVE At(ents, D[g], k) \in {0} \cup Block
  <2>1. /\ D[g].indirect \in {0} \cup Block
        /\ D[g].direct \in [0..(NDirect - 1) -> {0} \cup Block]
    BY DEF Dinode
  <2>2. QED
    BY <2>1, Numbers DEF At, Table
<1>2. QED
  BY <1>1 DEF Map

LEMMA SlotAt ==
    ASSUME NEW ents, NEW D, NEW g \in Files, NEW k \in Slot
    PROVE  Map(ents, D)[<<g, k>>] = At(ents, D[g], k)
<1>1. <<g, k>> \in Files \X Slot /\ <<g, k>>[1] = g /\ <<g, k>>[2] = k
  OBVIOUS
<1>2. QED
  BY <1>1 DEF Map

\* Two maps with the same slots are the same.
LEMMA MapEqual ==
    ASSUME NEW ents \in Table, NEW D \in [Files -> Dinode],
           NEW N \in [Files \X Slot -> {0} \cup Block],
           \A g \in Files, k \in Slot : At(ents, D[g], k) = N[<<g, k>>]
    PROVE  Map(ents, D) = N
<1> DEFINE M == Map(ents, D)
<1>1. M \in [Files \X Slot -> {0} \cup Block]
  BY MapAt
<1>2. \A x \in Files \X Slot : M[x] = N[x]
  <2> TAKE x \in Files \X Slot
  <2>1. x = <<x[1], x[2]>> /\ x[1] \in Files /\ x[2] \in Slot
    OBVIOUS
  <2>2. M[<<x[1], x[2]>>] = N[<<x[1], x[2]>>]
    BY <2>1, MapAt
  <2>3. QED
    BY <2>1, <2>2
<1> HIDE DEF M
<1>3. M = N
  BY ONLY <1>1, <1>2, N \in [Files \X Slot -> {0} \cup Block]
<1>4. QED
  BY ONLY <1>3 DEF M

LEMMA MapSame ==
    ASSUME NEW ents \in Table, NEW D \in [Files -> Dinode], NEW D2 \in [Files -> Dinode],
           \A g \in Files : D2[g].direct = D[g].direct /\ D2[g].indirect = D[g].indirect
    PROVE  Map(ents, D2) = Map(ents, D)
<1>1. \A g \in Files, k \in Slot : At(ents, D2[g], k) = At(ents, D[g], k)
  BY DEF At
<1>2. ASSUME NEW g \in Files, NEW k \in Slot PROVE Map(ents, D)[<<g, k>>] = At(ents, D[g], k)
  BY ONLY SlotAt, g \in Files, k \in Slot
<1>3. \A g \in Files, k \in Slot : At(ents, D2[g], k) = Map(ents, D)[<<g, k>>]
  BY ONLY <1>1, <1>2
<1>4. QED
  BY <1>3, MapAt, MapEqual

\* A block that is no indirect block is written.
LEMMA MapWritten ==
    ASSUME NEW ents \in Table, NEW D \in [Files -> Dinode], NEW b \in Block, NEW r,
           [ents EXCEPT ![b] = r] \in Table, \A g \in Files : D[g].indirect # b
    PROVE  Map([ents EXCEPT ![b] = r], D) = Map(ents, D)
<1> DEFINE ents2 == [ents EXCEPT ![b] = r]
<1>0. \A c \in Block : c # b => ents2[c] = ents[c]
  BY DEF Table
<1> HIDE DEF ents2
<1>1. ASSUME NEW g \in Files, NEW k \in Slot PROVE At(ents2, D[g], k) = At(ents, D[g], k)
  <2>1. D[g].indirect \in {0} \cup Block
    BY DEF Dinode
  <2>2. QED
    BY <1>0, <2>1 DEF At
<1>a. ASSUME NEW g \in Files, NEW k \in Slot PROVE Map(ents, D)[<<g, k>>] = At(ents, D[g], k)
  BY ONLY SlotAt, g \in Files, k \in Slot
<1>2. \A g \in Files, k \in Slot : At(ents2, D[g], k) = Map(ents, D)[<<g, k>>]
  BY ONLY <1>1, <1>a
<1>3. ents2 \in Table
  BY DEF ents2
<1>4. Map(ents2, D) = Map(ents, D)
  BY <1>2, <1>3, MapAt, MapEqual
<1>5. QED
  BY <1>4 DEF ents2

\* N is M with v in slot k of f.
Changed(M, N, f, k, v) == N = [M EXCEPT ![<<f, k>>] = v]

LEMMA MapChanged ==
    ASSUME NEW ents \in Table, NEW D \in [Files -> Dinode],
           NEW ents2 \in Table, NEW D2 \in [Files -> Dinode],
           NEW f \in Files, NEW k \in Slot, NEW v \in {0} \cup Block,
           At(ents2, D2[f], k) = v,
           \A g \in Files, l \in Slot : g # f \/ l # k => At(ents2, D2[g], l) = At(ents, D[g], l)
    PROVE  Changed(Map(ents, D), Map(ents2, D2), f, k, v)
<1> DEFINE M == Map(ents, D)
           N == [M EXCEPT ![<<f, k>>] = v]
<1>a. M \in [Files \X Slot -> {0} \cup Block]
  BY MapAt
<1>b. ASSUME NEW g \in Files, NEW l \in Slot PROVE M[<<g, l>>] = At(ents, D[g], l)
  BY ONLY SlotAt, g \in Files, l \in Slot
<1>1. /\ M \in [Files \X Slot -> {0} \cup Block]
      /\ \A g \in Files, l \in Slot : M[<<g, l>>] = At(ents, D[g], l)
  BY <1>a, <1>b
<1> HIDE DEF M
<1>2. /\ N \in [Files \X Slot -> {0} \cup Block]
      /\ \A g \in Files, l \in Slot : N[<<g, l>>] = IF g = f /\ l = k THEN v ELSE M[<<g, l>>]
  BY <1>1
<1> HIDE DEF N
<1>3. \A g \in Files, l \in Slot : At(ents2, D2[g], l) = N[<<g, l>>]
  BY <1>1, <1>2
<1>4. Map(ents2, D2) = N
  BY <1>2, <1>3, MapEqual
<1>5. QED
  BY <1>4 DEF Changed, M, N

LEMMA MapDirect ==
    ASSUME NEW ents \in Table, NEW D \in [Files -> Dinode], NEW D2 \in [Files -> Dinode],
           NEW f \in Files, NEW i \in 0..(NDirect - 1), NEW v \in {0} \cup Block,
           \A g \in Files : g # f => D2[g] = D[g],
           D2[f].direct = [D[f].direct EXCEPT ![i] = v], D2[f].indirect = D[f].indirect
    PROVE  Changed(Map(ents, D), Map(ents, D2), f, i, v)
<1>1. D[f].direct \in [0..(NDirect - 1) -> {0} \cup Block]
  BY DEF Dinode
<1>2. D2[f].direct[i] = v /\ \A l \in 0..(NDirect - 1) : l # i => D2[f].direct[l] = D[f].direct[l]
  BY <1>1
<1>3. At(ents, D2[f], i) = v
  BY <1>2, Numbers DEF At
<1>4. ASSUME NEW g \in Files, NEW l \in Slot, g # f \/ l # i
      PROVE  At(ents, D2[g], l) = At(ents, D[g], l)
  <2>1. CASE g # f
    BY <2>1
  <2>2. CASE g = f
    BY <1>2, <1>4, <2>2, Numbers DEF At
  <2>3. QED
    BY <2>1, <2>2
<1>5. i \in Slot
  BY Numbers
<1>6. QED
  BY ONLY <1>3, <1>4, <1>5, MapChanged, ents \in Table, D \in [Files -> Dinode],
          D2 \in [Files -> Dinode], f \in Files, v \in {0} \cup Block

LEMMA MapIndirect ==
    ASSUME NEW ents \in Table, NEW D \in [Files -> Dinode], NEW D2 \in [Files -> Dinode],
           NEW f \in Files, NEW b \in Block, ents[b] = Zero,
           \A g \in Files : g # f => D2[g] = D[g],
           D2[f].direct = D[f].direct, D[f].indirect = 0, D2[f].indirect = b
    PROVE  Changed(Map(ents, D), Map(ents, D2), f, -1, b)
<1>1. At(ents, D2[f], -1) = b
  BY DEF At
<1>2. \A i \in Entry : ents[b][i] = 0
  BY DEF Zero
<1>3. ASSUME NEW g \in Files, NEW l \in Slot, g # f \/ l # -1
      PROVE  At(ents, D2[g], l) = At(ents, D[g], l)
  <2>1. CASE g # f
    BY <2>1
  <2>2. CASE g = f
    BY <1>2, <1>3, <2>2, Numbers DEF At
  <2>3. QED
    BY <2>1, <2>2
<1>4. -1 \in Slot /\ b \in {0} \cup Block
  BY Numbers
<1>5. QED
  BY ONLY <1>1, <1>3, <1>4, MapChanged, ents \in Table, D \in [Files -> Dinode],
          D2 \in [Files -> Dinode], f \in Files

LEMMA MapEntry ==
    ASSUME NEW ents \in Table, NEW D \in [Files -> Dinode], NEW f \in Files,
           NEW i \in Entry, NEW v \in {0} \cup Block,
           D[f].indirect # 0, \A g \in Files : g # f => D[g].indirect # D[f].indirect,
           NEW ents2, ents2 = [ents EXCEPT ![D[f].indirect] = [@ EXCEPT ![i] = v]]
    PROVE  ents2 \in Table /\ Changed(Map(ents, D), Map(ents2, D), f, NDirect + i, v)
<1> DEFINE b == D[f].indirect
<1>1. b \in Block /\ \A g \in Files : D[g].indirect \in {0} \cup Block
  BY DEF Dinode
<1> HIDE DEF b
<1>2. /\ ents2 \in Table /\ ents2[b][i] = v
      /\ \A c \in Block : c # b => ents2[c] = ents[c]
      /\ \A j \in Entry : j # i => ents2[b][j] = ents[b][j]
  <2>1. ents[b] \in [Entry -> {0} \cup Block] /\ [ents[b] EXCEPT ![i] = v] \in [Entry -> {0} \cup Block]
    BY <1>1 DEF Table
  <2>2. ents2 = [ents EXCEPT ![b] = [ents[b] EXCEPT ![i] = v]]
    BY <1>1 DEF Table, b
  <2>3. ents2 \in Table /\ ents2[b] = [ents[b] EXCEPT ![i] = v]
    <3> DEFINE row == [ents[b] EXCEPT ![i] = v]
    <3>1. row \in [Entry -> {0} \cup Block] /\ ents2 = [ents EXCEPT ![b] = row] /\ b \in Block
      BY <1>1, <2>1, <2>2
    <3>2. ents \in [Block -> [Entry -> {0} \cup Block]]
      BY DEF Table
    <3> HIDE DEF row
    <3>3. ents2 \in [Block -> [Entry -> {0} \cup Block]] /\ ents2[b] = row
      BY ONLY <3>1, <3>2
    <3>4. QED
      BY <3>3 DEF Table, row
  <2>4. QED
    BY <1>1, <2>1, <2>2, <2>3 DEF Table
<1>3. NDirect + i \in Slot /\ At(ents2, D[f], NDirect + i) = v
  BY <1>2, Numbers DEF At, b
<1>4. ASSUME NEW g \in Files, NEW l \in Slot, g # f \/ l # NDirect + i
      PROVE  At(ents2, D[g], l) = At(ents, D[g], l)
  <2>1. CASE g # f
    BY <1>1, <1>2, <2>1 DEF At, b
  <2>2. CASE g = f
    <3>1. ~(l = -1) /\ ~(l < NDirect) => l - NDirect \in Entry /\ l - NDirect # i
      BY <1>4, <2>2, Numbers DEF Entry, Slot
    <3>2. QED
      BY <1>2, <2>2, <3>1 DEF At, b
  <2>3. QED
    BY <2>1, <2>2
<1>5. Changed(Map(ents, D), Map(ents2, D), f, NDirect + i, v)
  BY ONLY <1>2, <1>3, <1>4, MapChanged, ents \in Table, D \in [Files -> Dinode],
          f \in Files, v \in {0} \cup Block
<1>6. QED
  BY <1>2, <1>5
-----------------------------------------------------------------------------
(* The state an operation on file f works on.                              *)

All(f, s) == [din EXCEPT ![f] = s.din]

Good(f, s) ==
    /\ s \in WorkType
    /\ Parts(s.free, {}, Map(s.entries, All(f, s)))
    /\ s.unused = Cardinality(s.free)
    /\ Rows(Map(s.entries, All(f, s)), All(f, s))
    /\ ~s.dirty => ~dirty[f] /\ Synced(disk[f], s.din)

LEMMA AllAt ==
    ASSUME SfsTypeOK, NEW f \in Files, NEW s \in WorkType
    PROVE  /\ All(f, s) \in [Files -> Dinode]
           /\ All(f, s)[f] = s.din
           /\ \A g \in Files : g # f => All(f, s)[g] = din[g]
<1>1. din \in [Files -> Dinode] /\ s.din \in Dinode
  BY DEF SfsTypeOK, WorkType
<1>2. QED
  BY <1>1 DEF All

LEMMA Fields ==
    ASSUME NEW s \in WorkType
    PROVE  /\ s.free \in SUBSET Block /\ s.unused \in Int /\ s.entries \in Table /\ s.din \in Dinode
           /\ s.dirty \in BOOLEAN /\ s.ret \in Results /\ s.blk \in {0} \cup Block
           /\ s.din.size \in Nat /\ s.din.blocks \in Nat
           /\ s.din.direct \in [0..(NDirect - 1) -> {0} \cup Block]
           /\ s.din.indirect \in {0} \cup Block
  BY DEF WorkType, Dinode

LEMMA BlocksFinite == \A S \in SUBSET Block : IsFiniteSet(S) /\ Cardinality(S) \in Nat
<1>1. IsFiniteSet(Block)
  <2>1. IsFiniteSet(1..NBlocks)
    BY Numbers, FS_Interval
  <2>2. QED
    BY <2>1 DEF Block
<1>2. QED
  BY <1>1, FS_Subset, FS_CardinalityType

\* Block b of s is allocated in t.
Allocated(s, t, b) ==
    /\ t \in WorkType
    /\ t.free = s.free \ {b} /\ t.unused = Cardinality(t.free)
    /\ t.entries = [s.entries EXCEPT ![b] = Zero]
    /\ t.din = s.din /\ t.dirty = s.dirty /\ t.ret = s.ret /\ t.blk = b

LEMMA AllocFacts ==
    ASSUME NEW s \in WorkType, s.unused = Cardinality(s.free)
    PROVE  /\ s.free = {} => sfs_block_alloc(s) = [s EXCEPT !.ret = "E_NO_MEM"]
           /\ s.free # {} => \E b \in s.free : Allocated(s, sfs_block_alloc(s), b)
<1>1. s.free = {} => sfs_block_alloc(s) = [s EXCEPT !.ret = "E_NO_MEM"]
  BY DEF sfs_block_alloc
<1>2. ASSUME s.free # {} PROVE Allocated(s, sfs_block_alloc(s), Min(s.free)) /\ Min(s.free) \in s.free
  <2> DEFINE b == Min(s.free)
             t == sfs_block_alloc(s)
  <2>1. s.free \in SUBSET Nat /\ s.free \in SUBSET Block
    BY Fields, Numbers DEF Block
  <2>2. b \in s.free /\ b \in Block
    BY <1>2, <2>1, LeastElement
  <2>3. t = [s EXCEPT !.free = @ \ {b}, !.unused = @ - 1, !.entries[b] = Zero, !.blk = b]
    BY <1>2 DEF sfs_block_alloc
  <2> HIDE DEF b, t
  <2>4. [s.entries EXCEPT ![b] = Zero] \in Table
    BY <2>2, Fields DEF Table, Zero
  <2>5. IsFiniteSet(s.free)
    BY <2>1, BlocksFinite
  <2>6. Cardinality(s.free \ {b}) = Cardinality(s.free) - 1
    BY <2>2, <2>5, FS_RemoveElement
  <2>7. /\ t \in WorkType /\ t.free = s.free \ {b} /\ t.unused = s.unused - 1
        /\ t.entries = [s.entries EXCEPT ![b] = Zero]
        /\ t.din = s.din /\ t.dirty = s.dirty /\ t.ret = s.ret /\ t.blk = b
    <3> DEFINE E == [s.entries EXCEPT ![b] = Zero]
               F == s.free \ {b}
               u == s.unused - 1
    <3>1. t = [s EXCEPT !.free = F, !.unused = u, !.entries = E, !.blk = b]
      BY <2>3 DEF WorkType
    <3>2. E \in Table /\ F \in SUBSET Block /\ u \in Int /\ b \in Block
      BY <2>1, <2>2, <2>4, Fields
    <3> HIDE DEF E, F, u
    <3>3. t \in WorkType /\ t.free = F /\ t.unused = u /\ t.entries = E
          /\ t.din = s.din /\ t.dirty = s.dirty /\ t.ret = s.ret /\ t.blk = b
      BY <3>1, <3>2 DEF WorkType
    <3>4. QED
      BY <3>3 DEF E, F, u
  <2>8. QED
    BY <2>2, <2>6, <2>7 DEF Allocated, b, t
<1>3. QED
  BY <1>1, <1>2

\* Indirect blocks are neither free nor shared.
LEMMA IndirectOwned ==
    ASSUME NEW ents \in Table, NEW D \in [Files -> Dinode], NEW free, NEW hand,
           Parts(free, hand, Map(ents, D))
    PROVE  /\ \A g \in Files : D[g].indirect \notin free /\ D[g].indirect \notin hand
           /\ \A f, g \in Files : D[f].indirect # 0 /\ g # f => D[g].indirect # D[f].indirect
<1> DEFINE M == Map(ents, D)
<1>1. ASSUME NEW g \in Files PROVE M[<<g, -1>>] = D[g].indirect
  <2>1. M[<<g, -1>>] = At(ents, D[g], -1)
    BY SlotAt, Numbers
  <2>2. QED
    BY <2>1 DEF At
<1>2. \A g \in Files : <<g, -1>> \in Files \X Slot
  BY Numbers
<1> HIDE DEF M
<1>3. Parts(free, hand, M)
  BY DEF M
<1>4. \A b \in Block : b \in free \/ b \in hand => \A x \in Files \X Slot : M[x] # b
  BY <1>3 DEF Parts
<1>5. free \in SUBSET Block /\ hand \in SUBSET Block
  BY <1>3 DEF Parts
<1>6. \A x, y \in Files \X Slot : M[x] = M[y] /\ M[x] # 0 => x = y
  BY <1>3 DEF Parts
<1>7. QED
  BY <1>1, <1>2, <1>4, <1>5, <1>6

LEMMA AllocParts ==
    ASSUME NEW s \in WorkType, NEW t, NEW b \in s.free, Allocated(s, t, b), NEW hand,
           NEW D \in [Files -> Dinode], Parts(s.free, hand, Map(s.entries, D))
    PROVE  /\ Map(t.entries, D) = Map(s.entries, D)
           /\ Parts(t.free, hand \cup {b}, Map(t.entries, D))
           /\ t.entries[b] = Zero /\ b \in Block
           /\ \A c \in Block : c # b => t.entries[c] = s.entries[c]
<1>1. s.entries \in Table /\ b \in Block
  BY Fields
<1>2. t.entries \in Table /\ t.entries = [s.entries EXCEPT ![b] = Zero] /\ t.free = s.free \ {b}
  BY Fields DEF Allocated
<1>3. \A g \in Files : D[g].indirect # b
  BY <1>1, IndirectOwned
<1>4. Map(t.entries, D) = Map(s.entries, D)
  <2> DEFINE e2 == [s.entries EXCEPT ![b] = Zero]
  <2>1. e2 \in Table
    BY <1>2
  <2>2. Map(e2, D) = Map(s.entries, D)
    BY ONLY <1>1, <1>3, <2>1, D \in [Files -> Dinode], MapWritten
  <2>3. QED
    BY <1>2, <2>2
<1>5. Parts(s.free \ {b}, hand \cup {b}, Map(s.entries, D))
  BY TakeFree
<1>6. t.entries[b] = Zero /\ \A c \in Block : c # b => t.entries[c] = s.entries[c]
  BY <1>1, <1>2 DEF Table
<1>7. QED
  BY <1>1, <1>2, <1>4, <1>5, <1>6

\* A file grows by the slot behind its last block.
Longer(D, D2, f) ==
    /\ D \in [Files -> Dinode] /\ D2 \in [Files -> Dinode] /\ D[f].blocks \in Slot
    /\ \A g \in Files : g # f => D2[g].blocks = D[g].blocks
    /\ D2[f].blocks = D[f].blocks + 1

LEMMA RowsGrow ==
    ASSUME NEW D, NEW D2, NEW f \in Files, Longer(D, D2, f),
           NEW M \in [Files \X Slot -> {0} \cup Block], NEW N, Rows(M, D),
           NEW v \in Block, Changed(M, N, f, D[f].blocks, v)
    PROVE  Rows(N, D2)
<1> USE DEF Longer
<1> DEFINE n == D[f].blocks
<1>1. n \in Nat /\ v # 0 /\ \A g \in Files : D[g].blocks \in Nat
  BY Numbers DEF Dinode
<1>2. \A g \in Files, k \in Slot : N[<<g, k>>] = IF g = f /\ k = n THEN v ELSE M[<<g, k>>]
  BY DEF Changed
<1>3. \A g \in Files : Row(M, g, D[g].blocks)
  BY DEF Rows
<1>4. ASSUME NEW g \in Files PROVE Row(N, g, D2[g].blocks)
  <2>1. CASE g # f
    <3>1. Row(M, g, D[g].blocks) /\ D2[g].blocks = D[g].blocks
      BY <1>3, <2>1
    <3>2. \A k \in Slot : N[<<g, k>>] = M[<<g, k>>]
      BY <1>2, <2>1
    <3>3. QED
      BY <3>1, <3>2, Numbers DEF Row
  <2>2. CASE g = f
    <3>1. Row(M, f, n) /\ D2[g].blocks = n + 1
      BY <1>3, <2>2
    <3>2. \A k \in 0..n : k = n \/ k \in 0..(n - 1)
      <4> HIDE DEF n
      <4>1. QED
        BY ONLY <1>1
    <3>3. \A k \in 0..n : k \in Slot /\ N[<<f, k>>] # 0
      BY <1>1, <1>2, <3>1, <3>2 DEF Row
    <3>4. \A k \in 0..(NDirect - 1) : k >= n + 1 => N[<<f, k>>] = 0
      BY <1>1, <1>2, <3>1, Numbers DEF Row
    <3>5. (n + 1) - 1 = n
      BY <1>1
    <3>6. QED
      BY <2>2, <3>1, <3>3, <3>4, <3>5 DEF Row
  <2>3. QED
    BY <2>1, <2>2
<1>5. QED
  BY <1>4 DEF Rows

LEMMA RowsIndirect ==
    ASSUME NEW D \in [Files -> Dinode], NEW D2 \in [Files -> Dinode], NEW f \in Files,
           NEW M \in [Files \X Slot -> {0} \cup Block], NEW N, Rows(M, D),
           NEW v, Changed(M, N, f, -1, v), \A g \in Files : D2[g].blocks = D[g].blocks
    PROVE  Rows(N, D2)
<1>1. \A g \in Files, k \in Slot : k # -1 => N[<<g, k>>] = M[<<g, k>>]
  BY DEF Changed
<1>2. ASSUME NEW g \in Files PROVE Row(N, g, D2[g].blocks)
  <2>1. Row(M, g, D[g].blocks) /\ D2[g].blocks = D[g].blocks /\ D[g].blocks \in Nat
    BY DEF Rows, Dinode
  <2>2. \A k \in 0..(D[g].blocks - 1) : k # -1
    BY <2>1
  <2>3. QED
    BY <1>1, <2>1, <2>2, Numbers DEF Row
<1>3. QED
  BY <1>2 DEF Rows

LEMMA RowsShrink ==
    ASSUME NEW D \in [Files -> Dinode], NEW D2 \in [Files -> Dinode], NEW f \in Files,
           NEW M \in [Files \X Slot -> {0} \cup Block], NEW N, Rows(M, D), NEW n \in Slot,
           D[f].blocks = n + 1, D2[f].blocks = n, Changed(M, N, f, n, 0),
           \A g \in Files : g # f => D2[g].blocks = D[g].blocks
    PROVE  Rows(N, D2)
<1>1. \A g \in Files : D[g].blocks \in Nat /\ D2[g].blocks \in Nat
  BY DEF Dinode
<1>2. \A g \in Files, k \in Slot : N[<<g, k>>] = IF g = f /\ k = n THEN 0 ELSE M[<<g, k>>]
  BY DEF Changed
<1>3. \A g \in Files : Row(M, g, D[g].blocks)
  BY DEF Rows
<1>4. ASSUME NEW g \in Files PROVE Row(N, g, D2[g].blocks)
  <2>1. CASE g # f
    <3>1. Row(M, g, D[g].blocks) /\ D2[g].blocks = D[g].blocks
      BY <1>3, <2>1
    <3>2. \A k \in Slot : N[<<g, k>>] = M[<<g, k>>]
      BY <1>2, <2>1
    <3>3. QED
      BY <3>1, <3>2, Numbers DEF Row
  <2>2. CASE g = f
    <3>1. Row(M, f, n + 1) /\ D2[g].blocks = n /\ n \in Nat
      BY <1>1, <1>3, <2>2
    <3>2. \A k \in 0..(n - 1) : k \in 0..((n + 1) - 1) /\ k # n
      BY <3>1
    <3>3. \A k \in 0..(n - 1) : k \in Slot /\ N[<<f, k>>] # 0
      BY <1>2, <3>1, <3>2 DEF Row
    <3>4. \A k \in 0..(NDirect - 1) : k >= n => k = n \/ k >= n + 1
      BY <3>1, Numbers
    <3>5. \A k \in 0..(NDirect - 1) : k >= n => N[<<f, k>>] = 0
      BY <1>2, <3>1, <3>4, Numbers DEF Row
    <3>6. QED
      BY <2>2, <3>1, <3>3, <3>5 DEF Row
  <2>3. QED
    BY <2>1, <2>2
<1>5. QED
  BY <1>4 DEF Rows
-----------------------------------------------------------------------------
(* sfs_bmap_load_nolock.                                                   *)

\* A result that differs in what it returns only.
LEMMA SameGood ==
    ASSUME SfsTypeOK, NEW f \in Files, NEW s, Good(f, s), NEW r \in Results
    PROVE  LET t == [s EXCEPT !.ret = r]
           IN  Good(f, t) /\ t.ret = r /\ t.din = s.din /\ t.dirty = s.dirty
<1> DEFINE t == [s EXCEPT !.ret = r]
<1>1. s \in WorkType
  BY DEF Good
<1>2. /\ t \in WorkType /\ t.ret = r /\ t.din = s.din /\ t.dirty = s.dirty
      /\ t.free = s.free /\ t.unused = s.unused /\ t.entries = s.entries
  BY <1>1 DEF WorkType
<1> HIDE DEF t
<1>3. All(f, t) = All(f, s)
  BY <1>2 DEF All
<1>4. Good(f, t)
  BY <1>2, <1>3 DEF Good
<1>5. QED
  BY <1>2, <1>4 DEF t

\* The slot behind the last block, if it is a direct one.
LEMMA NextDirect ==
    ASSUME SfsTypeOK, NEW f \in Files, NEW s, Good(f, s), s.din.blocks < NDirect
    PROVE  /\ s.din.blocks \in 0..(NDirect - 1)
           /\ Map(s.entries, All(f, s))[<<f, s.din.blocks>>] = 0
           /\ s.din.direct[s.din.blocks] = 0
<1> DEFINE D == All(f, s)
           n == s.din.blocks
<1>1. s \in WorkType /\ Rows(Map(s.entries, D), D)
  BY DEF Good
<1>2. D[f].blocks = n /\ n \in Nat /\ n \in 0..(NDirect - 1)
  BY <1>1, AllAt, Fields, Numbers
<1>3. Row(Map(s.entries, D), f, n)
  BY <1>1, <1>2 DEF Rows
<1>4. Map(s.entries, D)[<<f, n>>] = 0
  <2> HIDE DEF n
  <2>1. n >= n
    BY <1>2
  <2>2. QED
    BY <1>2, <1>3, <2>1 DEF Row
<1>5. Map(s.entries, D)[<<f, n>>] = At(s.entries, D[f], n) /\ D[f] = s.din
  BY <1>1, <1>2, SlotAt, AllAt, Numbers
<1>6. At(s.entries, s.din, n) = s.din.direct[n]
  BY <1>2, Numbers DEF At
<1>7. QED
  BY <1>2, <1>4, <1>5, <1>6

\* What a step that adds the next block to the file does.
Grown(s, t) ==
    /\ t.ret \in {"ok", "E_NO_MEM"} /\ t.din.size = s.din.size
    /\ t.din.blocks = IF t.ret = "ok" THEN s.din.blocks + 1 ELSE s.din.blocks

LEMMA FailedGood ==
    ASSUME SfsTypeOK, NEW f \in Files, NEW s, Good(f, s), NEW t, t = [s EXCEPT !.ret = "E_NO_MEM"]
    PROVE  Good(f, count_block(t)) /\ Grown(s, count_block(t))
<1>0. "E_NO_MEM" \in Results
  BY DEF Results
<1>a. LET x == [s EXCEPT !.ret = "E_NO_MEM"]
      IN  Good(f, x) /\ x.ret = "E_NO_MEM" /\ x.din = s.din /\ x.dirty = s.dirty
  BY ONLY <1>0, SfsTypeOK, f \in Files, Good(f, s), SameGood
<1>1. Good(f, t) /\ t.ret = "E_NO_MEM" /\ t.din = s.din
  BY <1>a
<1>2. count_block(t) = t
  BY <1>1 DEF count_block
<1>3. QED
  BY <1>1, <1>2 DEF Grown

LEMMA DirectGood ==
    ASSUME SfsTypeOK, NEW f \in Files, NEW s, Good(f, s), s.ret = "ok", s.din.blocks < NDirect
    PROVE  LET t == count_block(get_direct(s, s.din.blocks))
           IN  Good(f, t) /\ Grown(s, t)
<1> DEFINE n == s.din.blocks
           a == sfs_block_alloc(s)
           r == get_direct(s, n)
           t == count_block(r)
           D == All(f, s)
<1>0. s \in WorkType /\ s.unused = Cardinality(s.free) /\ Parts(s.free, {}, Map(s.entries, D))
      /\ Rows(Map(s.entries, D), D)
  BY DEF Good
<1>1. CASE s.free = {}
  <2>1. a = [s EXCEPT !.ret = "E_NO_MEM"]
    BY <1>0, <1>1, AllocFacts
  <2>2. a.ret = "E_NO_MEM"
    BY <1>0, <2>1 DEF WorkType
  <2>3. r = a
    BY <2>2 DEF get_direct
  <2> HIDE DEF r, a
  <2>4. QED
    BY <2>1, <2>3, FailedGood DEF r
<1>2. CASE s.free # {}
  <2>1. PICK b \in s.free : Allocated(s, a, b)
    BY <1>0, <1>2, AllocFacts
  <2> HIDE DEF a
  <2>2. a \in WorkType /\ a.ret = "ok" /\ a.blk = b /\ a.din = s.din /\ b \in Block
    BY <1>0, <2>1, Fields DEF Allocated
  <2>3. r = [a EXCEPT !.din.direct[n] = b, !.dirty = TRUE]
    BY <2>2 DEF get_direct, a
  <2>4. n \in 0..(NDirect - 1) /\ n \in Nat /\ Map(s.entries, D)[<<f, n>>] = 0
    BY NextDirect, <1>0, Fields
  <2> DEFINE dir == [s.din.direct EXCEPT ![n] = b]
  <2>5. dir \in [0..(NDirect - 1) -> {0} \cup Block] /\ n + 1 \in Nat
    BY <1>0, <2>2, <2>4, Fields
  <2> DEFINE m == n + 1
  <2>6. /\ r \in WorkType /\ r.ret = "ok" /\ r.din = [s.din EXCEPT !.direct = dir] /\ r.dirty = TRUE
        /\ r.free = a.free /\ r.unused = a.unused /\ r.entries = a.entries
    <3> HIDE DEF r
    <3>1. r = [a EXCEPT !.din = [s.din EXCEPT !.direct = dir], !.dirty = TRUE]
      BY <2>2, <2>3 DEF WorkType, Dinode
    <3> HIDE DEF dir, n
    <3>2. [s.din EXCEPT !.direct = dir] \in Dinode
      BY <1>0, <2>5, Fields DEF Dinode
    <3>3. QED
      BY <2>2, <3>1, <3>2 DEF WorkType
  <2>7. /\ t = [r EXCEPT !.din.blocks = @ + 1]
    BY <2>6 DEF count_block
  <2> HIDE DEF r
  <2>8. t = [r EXCEPT !.din = [s.din EXCEPT !.direct = dir, !.blocks = m]]
    BY <1>0, <2>6, <2>7, Fields DEF WorkType, Dinode
  <2> HIDE DEF t, dir, n, m
  <2>9. /\ [s.din EXCEPT !.direct = dir, !.blocks = m] \in Dinode
        /\ [s.din EXCEPT !.direct = dir, !.blocks = m].direct = dir
        /\ [s.din EXCEPT !.direct = dir, !.blocks = m].blocks = m
        /\ [s.din EXCEPT !.direct = dir, !.blocks = m].indirect = s.din.indirect
        /\ [s.din EXCEPT !.direct = dir, !.blocks = m].size = s.din.size
    BY <1>0, <2>5, Fields DEF Dinode, m
  <2>10. /\ t \in WorkType /\ t.ret = "ok" /\ t.dirty = TRUE
         /\ t.free = a.free /\ t.unused = a.unused /\ t.entries = a.entries
         /\ t.din.direct = dir /\ t.din.blocks = m /\ t.din.indirect = s.din.indirect
         /\ t.din.size = s.din.size
    BY <2>6, <2>8, <2>9 DEF WorkType
  <2> DEFINE D2 == All(f, t)
  <2>11. /\ D \in [Files -> Dinode] /\ D2 \in [Files -> Dinode]
         /\ D[f] = s.din /\ D2[f] = t.din /\ \A g \in Files : g # f => D2[g] = D[g]
    <3>1. D \in [Files -> Dinode] /\ D[f] = s.din /\ \A g \in Files : g # f => D[g] = din[g]
      BY <1>0, AllAt
    <3>2. D2 \in [Files -> Dinode] /\ D2[f] = t.din /\ \A g \in Files : g # f => D2[g] = din[g]
      BY <2>10, AllAt
    <3>3. QED
      BY <3>1, <3>2
  <2> HIDE DEF D, D2
  <2>12. /\ Map(a.entries, D) = Map(s.entries, D) /\ Parts(a.free, {b}, Map(a.entries, D))
         /\ a.entries \in Table
    <3>1. /\ Map(a.entries, D) = Map(s.entries, D)
          /\ Parts(a.free, {} \cup {b}, Map(a.entries, D))
      BY <1>0, <2>1, <2>11, AllocParts
    <3>2. {} \cup {b} = {b}
      OBVIOUS
    <3>3. QED
      BY <2>2, <3>1, <3>2, Fields
  <2> DEFINE M == Map(a.entries, D)
             N == Map(a.entries, D2)
  <2>13. Changed(M, N, f, n, b)
    <3>1. D2[f].direct = [D[f].direct EXCEPT ![n] = b] /\ D2[f].indirect = D[f].indirect
      BY <2>10, <2>11 DEF dir
    <3>2. b \in {0} \cup Block
      BY <2>2
    <3>3. QED
      BY ONLY <2>4, <2>11, <2>12, <3>1, <3>2, f \in Files, MapDirect
  <2>14. M \in [Files \X Slot -> {0} \cup Block] /\ n \in Slot /\ <<f, n>> \in Files \X Slot
         /\ M[<<f, n>>] = 0 /\ Parts(a.free, {b}, M) /\ Rows(M, D)
    BY <1>0, <2>4, <2>11, <2>12, MapAt, Numbers
  <2> HIDE DEF M, N
  <2>15. Parts(a.free, {}, N)
    <3>1. Parts(a.free, {b} \ {b}, [M EXCEPT ![<<f, n>>] = b])
      BY ONLY <2>14, b \in {b}, FillSlot
    <3>2. {b} \ {b} = {}
      OBVIOUS
    <3>3. QED
      BY <2>13, <3>1, <3>2 DEF Changed
  <2>16. Rows(N, D2)
    <3>1. /\ D[f].blocks = n /\ D2[f].blocks = D[f].blocks + 1
          /\ \A g \in Files : g # f => D2[g].blocks = D[g].blocks
      BY <2>10, <2>11 DEF n, m
    <3>2. Changed(M, N, f, D[f].blocks, b) /\ D[f].blocks \in Slot
      BY ONLY <2>13, <2>14, <3>1
    <3>3. Longer(D, D2, f)
      BY ONLY <2>11, <3>1, <3>2 DEF Longer
    <3>4. QED
      BY ONLY <2>2, <2>14, <3>2, <3>3, f \in Files, RowsGrow
  <2>17. Good(f, t)
    BY <2>1, <2>10, <2>15, <2>16 DEF Good, Allocated, N, D2
  <2>18. Grown(s, t)
    BY <2>10 DEF Grown, m, n
  <2>19. QED
    BY <2>17, <2>18 DEF t, r, n
<1>3. QED
  BY <1>1, <1>2

\* Entry i of indirect block c is free to become the next block of f in D2.
Vacant(f, ents, D, D2, c, i, n) ==
    /\ ents \in Table /\ D \in [Files -> Dinode] /\ D2 \in [Files -> Dinode]
    /\ c \in Block /\ i \in Entry /\ n = NDirect + i
    /\ D[f].indirect = c /\ D[f].blocks = n /\ ents[c][i] = 0
    /\ D2[f].direct = D[f].direct /\ D2[f].indirect = c /\ D2[f].blocks = n + 1
    /\ \A g \in Files : g # f => D2[g] = D[g]

Written(ents, ents2, c, i, b) == ents2 = [ents EXCEPT ![c] = [@ EXCEPT ![i] = b]]

\* The block in hand becomes the next block of f, by an entry of its indirect block.
LEMMA EntryFills ==
    ASSUME NEW f \in Files, NEW ents, NEW D, NEW D2, NEW free, NEW b \in Block, NEW c, NEW i, NEW n,
           Parts(free, {b}, Map(ents, D)), Rows(Map(ents, D), D), Vacant(f, ents, D, D2, c, i, n),
           NEW ents2, Written(ents, ents2, c, i, b)
    PROVE  /\ ents2 \in Table
           /\ Parts(free, {}, Map(ents2, D2))
           /\ Rows(Map(ents2, D2), D2)
<1>0. /\ ents \in Table /\ D \in [Files -> Dinode] /\ D2 \in [Files -> Dinode]
      /\ c \in Block /\ i \in Entry /\ n = NDirect + i
      /\ D[f].indirect = c /\ D[f].blocks = n /\ ents[c][i] = 0
      /\ D2[f].direct = D[f].direct /\ D2[f].indirect = c /\ D2[f].blocks = n + 1
      /\ \A g \in Files : g # f => D2[g] = D[g]
  BY DEF Vacant
<1> DEFINE M == Map(ents, D)
           N == Map(ents2, D)
<1>1. c # 0 /\ b \in {0} \cup Block
  BY <1>0, Numbers
<1>2. \A g \in Files : g # f => D[g].indirect # D[f].indirect
  BY <1>0, <1>1, IndirectOwned
<1>3. ents2 = [ents EXCEPT ![D[f].indirect] = [@ EXCEPT ![i] = b]] /\ D[f].indirect # 0
  BY <1>0, <1>1 DEF Written
<1>4. ents2 \in Table /\ Changed(M, N, f, n, b)
  <2>1. ents2 \in Table
    BY ONLY <1>0, <1>1, <1>2, <1>3, f \in Files, MapEntry
  <2>2. Changed(M, N, f, NDirect + i, b)
    BY ONLY <1>0, <1>1, <1>2, <1>3, f \in Files, MapEntry
  <2>3. QED
    BY <1>0, <2>1, <2>2
<1>5. Map(ents2, D2) = N
  <2>1. \A g \in Files : D2[g].direct = D[g].direct /\ D2[g].indirect = D[g].indirect
    BY <1>0
  <2>2. QED
    BY ONLY <1>0, <1>4, <2>1, MapSame
<1>6. M[<<f, n>>] = 0
  <2>1. n \in Slot /\ n # -1 /\ ~(n < NDirect) /\ n - NDirect = i
    BY <1>0, Numbers
  <2>2. M[<<f, n>>] = At(ents, D[f], n)
    BY <1>0, <2>1, SlotAt
  <2>3. QED
    BY <1>0, <1>1, <2>1, <2>2 DEF At
<1>7. M \in [Files \X Slot -> {0} \cup Block] /\ n \in Slot /\ <<f, n>> \in Files \X Slot
      /\ Parts(free, {b}, M) /\ Rows(M, D)
  <2>1. M \in [Files \X Slot -> {0} \cup Block]
    BY <1>0, MapAt
  <2>2. n \in Slot
    BY <1>0, Numbers
  <2>3. QED
    BY <1>0, <2>1, <2>2
<1> HIDE DEF M, N
<1>8. Parts(free, {}, N)
  <2>1. Parts(free, {b} \ {b}, [M EXCEPT ![<<f, n>>] = b])
    BY ONLY <1>0, <1>6, <1>7, b \in {b}, FillSlot
  <2>2. {b} \ {b} = {}
    OBVIOUS
  <2>3. QED
    BY ONLY <1>0, <1>4, <2>1, <2>2 DEF Changed
<1>9. Rows(N, D2)
  <2>1. /\ D2[f].blocks = D[f].blocks + 1 /\ Changed(M, N, f, D[f].blocks, b) /\ D[f].blocks \in Slot
        /\ \A g \in Files : g # f => D2[g].blocks = D[g].blocks
    BY <1>0, <1>4, <1>7
  <2>2. Longer(D, D2, f)
    BY ONLY <1>0, <2>1 DEF Longer
  <2>3. QED
    BY ONLY <1>0, <1>7, <2>1, <2>2, f \in Files, b \in Block, RowsGrow
<1>10. QED
  BY <1>0, <1>4, <1>5, <1>8, <1>9

\* A new indirect block.
LEMMA IndirectFills ==
    ASSUME NEW f \in Files, NEW ents \in Table, NEW D \in [Files -> Dinode], NEW D2 \in [Files -> Dinode],
           NEW free, NEW b \in Block, NEW c \in Block, b # c, ents[c] = Zero,
           Parts(free, {c, b}, Map(ents, D)), Rows(Map(ents, D), D),
           D[f].indirect = 0, D2[f].indirect = c, D2[f].direct = D[f].direct,
           D2[f].blocks = D[f].blocks, \A g \in Files : g # f => D2[g] = D[g]
    PROVE  Parts(free, {b}, Map(ents, D2)) /\ Rows(Map(ents, D2), D2)
<1> DEFINE M == Map(ents, D)
           N == Map(ents, D2)
<1>1. Changed(M, N, f, -1, c)
  BY MapIndirect
<1>2. M[<<f, -1>>] = 0
  <2>1. -1 \in Slot
    BY Numbers
  <2>2. M[<<f, -1>>] = At(ents, D[f], -1)
    BY <2>1, SlotAt
  <2>3. QED
    BY <2>2 DEF At
<1>3. M \in [Files \X Slot -> {0} \cup Block] /\ <<f, -1>> \in Files \X Slot
      /\ Parts(free, {c, b}, M) /\ Rows(M, D)
  BY MapAt, Numbers
<1>4. \A g \in Files : D2[g].blocks = D[g].blocks
  OBVIOUS
<1> HIDE DEF M, N
<1>5. Parts(free, {b}, N)
  <2>1. Parts(free, {c, b} \ {c}, [M EXCEPT ![<<f, -1>>] = c])
    BY ONLY <1>2, <1>3, c \in {c, b}, FillSlot
  <2>2. {c, b} \ {c} = {b}
    OBVIOUS
  <2>3. QED
    BY ONLY <1>1, <2>1, <2>2 DEF Changed
<1>6. Rows(N, D2)
  BY ONLY <1>1, <1>3, <1>4, D \in [Files -> Dinode], D2 \in [Files -> Dinode], f \in Files, RowsIndirect
<1>7. QED
  BY <1>5, <1>6 DEF N

\* The state after an entry of indirect block c got block b, and the file grew.
Entered(s, a, t, c, i, b) ==
    /\ t \in WorkType /\ t.ret = "ok"
    /\ t.free = a.free /\ t.unused = a.unused
    /\ t.entries = [a.entries EXCEPT ![c] = [@ EXCEPT ![i] = b]]
    /\ t.din.direct = s.din.direct /\ t.din.indirect = c /\ t.din.size = s.din.size
    /\ t.din.blocks = s.din.blocks + 1
    /\ t.dirty = (s.dirty \/ s.din.indirect = 0)

LEMMA EnteredFields ==
    ASSUME NEW s \in WorkType, NEW a \in WorkType, a.din = s.din, a.dirty = s.dirty, a.ret = "ok",
           NEW c \in Block, NEW i \in Entry, NEW b \in Block,
           NEW r, r = [a EXCEPT !.entries[c][i] = b, !.din.indirect = c,
                                !.dirty = @ \/ s.din.indirect = 0]
    PROVE  Entered(s, a, count_block(r), c, i, b)
<1> DEFINE E == [a.entries EXCEPT ![c] = [@ EXCEPT ![i] = b]]
           d == (s.dirty \/ s.din.indirect = 0)
           t == count_block(r)
           m == s.din.blocks + 1
           ino == [s.din EXCEPT !.indirect = c]
           ino2 == [s.din EXCEPT !.indirect = c, !.blocks = m]
<1>1. E \in Table
  <2>1. a.entries \in [Block -> [Entry -> {0} \cup Block]]
    BY Fields DEF Table
  <2>2. a.entries[c] \in [Entry -> {0} \cup Block]
    BY <2>1
  <2>3. [a.entries[c] EXCEPT ![i] = b] \in [Entry -> {0} \cup Block]
    BY <2>2
  <2>4. E = [a.entries EXCEPT ![c] = [a.entries[c] EXCEPT ![i] = b]]
    BY <2>1
  <2> HIDE DEF E
  <2>5. QED
    BY <2>1, <2>3, <2>4 DEF Table
<1>2. d \in BOOLEAN /\ m \in Nat /\ s.din \in Dinode
  BY Fields
<1>3. r = [a EXCEPT !.entries = E, !.din = ino, !.dirty = d]
  BY DEF WorkType, Dinode
<1> HIDE DEF E, d, m
<1>4. /\ ino \in Dinode /\ ino.blocks = s.din.blocks
      /\ ino2 = [ino EXCEPT !.blocks = m] /\ ino2 \in Dinode /\ ino2.direct = s.din.direct
      /\ ino2.indirect = c /\ ino2.blocks = m /\ ino2.size = s.din.size
  BY <1>2 DEF Dinode
<1> HIDE DEF ino, ino2
<1>5. /\ r \in WorkType /\ r.ret = "ok" /\ r.din = ino /\ r.entries = E /\ r.dirty = d
      /\ r.free = a.free /\ r.unused = a.unused
  BY <1>1, <1>2, <1>3, <1>4 DEF WorkType
<1>6. t = [r EXCEPT !.din = ino2]
  <2>1. t = [r EXCEPT !.din.blocks = @ + 1]
    BY <1>5 DEF count_block
  <2>2. t = [r EXCEPT !.din = [ino EXCEPT !.blocks = ino.blocks + 1]]
    BY <1>4, <1>5, <2>1 DEF WorkType, Dinode
  <2>3. QED
    BY <1>4, <2>2 DEF m
<1> HIDE DEF t
<1>7. /\ t \in WorkType /\ t.ret = "ok" /\ t.din = ino2 /\ t.entries = E /\ t.dirty = d
      /\ t.free = a.free /\ t.unused = a.unused
  BY <1>4, <1>5, <1>6 DEF WorkType
<1>8. QED
  BY <1>4, <1>7 DEF Entered, E, d, m, t

\* Growth behind the direct blocks need not be marked.
LEMMA SyncedGrow ==
    ASSUME NEW s \in WorkType, NEW old \in Dinode, Synced(old, s.din), NDirect <= s.din.blocks,
           NEW ino \in Dinode, ino.direct = s.din.direct, ino.indirect = s.din.indirect,
           ino.size = s.din.size, ino.blocks = s.din.blocks + 1
    PROVE  Synced(old, ino)
<1>1. old.blocks \in Nat /\ s.din.blocks \in Nat /\ NDirect \in Nat
  BY Fields, Numbers DEF Dinode
<1>2. QED
  BY <1>1 DEF Synced

\* Block c is the indirect block of f in D, and block b is in hand for entry i of it.
Ready(f, s, a, c, i, b, D) ==
    /\ i \in Entry /\ s.din.blocks = NDirect + i /\ c \in Block /\ b \in Block
    /\ s.din.indirect # 0 => s.din.indirect = c
    /\ a.unused = Cardinality(a.free) /\ a.entries \in Table /\ a.entries[c][i] = 0
    /\ D \in [Files -> Dinode] /\ Parts(a.free, {b}, Map(a.entries, D)) /\ Rows(Map(a.entries, D), D)
    /\ D[f].indirect = c /\ D[f].direct = s.din.direct /\ D[f].blocks = s.din.blocks
    /\ \A g \in Files : g # f => D[g] = din[g]

\* The new entry of indirect block c is the next block of f.
LEMMA EnteredGood ==
    ASSUME SfsTypeOK, NEW f \in Files, NEW s, Good(f, s), NEW i, NEW a, NEW t, NEW c, NEW b, NEW D,
           Entered(s, a, t, c, i, b), Ready(f, s, a, c, i, b, D)
    PROVE  Good(f, t) /\ Grown(s, t)
<1> USE DEF Ready
<1> DEFINE D2 == All(f, t)
           n == s.din.blocks
<1>1. /\ t \in WorkType /\ t.ret = "ok"
      /\ t.free = a.free /\ t.unused = a.unused
      /\ t.entries = [a.entries EXCEPT ![c] = [@ EXCEPT ![i] = b]]
      /\ t.din.direct = s.din.direct /\ t.din.indirect = c /\ t.din.size = s.din.size
      /\ t.din.blocks = n + 1
      /\ t.dirty = (s.dirty \/ s.din.indirect = 0)
  BY DEF Entered
<1>2. s \in WorkType /\ n \in Nat /\ NDirect <= n /\ (~s.dirty => ~dirty[f] /\ Synced(disk[f], s.din))
  BY Fields, Numbers DEF Good, Entry
<1>3. /\ D2 \in [Files -> Dinode] /\ D2[f] = t.din
      /\ \A g \in Files : g # f => D2[g] = D[g]
  BY <1>1, AllAt
<1>4. /\ D[f].indirect = c /\ D[f].blocks = n /\ n = NDirect + i
      /\ D2[f].direct = D[f].direct /\ D2[f].indirect = c /\ D2[f].blocks = n + 1
  BY <1>1, <1>3
<1> HIDE DEF D2, n
<1>5. Parts(t.free, {}, Map(t.entries, D2)) /\ Rows(Map(t.entries, D2), D2)
  <2> DEFINE ents2 == t.entries
             ents == a.entries
  <2>a. Written(ents, ents2, c, i, b)
    BY <1>1 DEF Written
  <2>b. Parts(a.free, {b}, Map(ents, D)) /\ Rows(Map(ents, D), D)
    OBVIOUS
  <2>0. Vacant(f, ents, D, D2, c, i, n)
    BY <1>3, <1>4 DEF Vacant
  <2> HIDE DEF ents, ents2
  <2>1. Parts(a.free, {}, Map(ents2, D2))
    BY ONLY <2>a, <2>0, <2>b, EntryFills, f \in Files, b \in Block
  <2>2. Rows(Map(ents2, D2), D2)
    BY ONLY <2>a, <2>0, <2>b, EntryFills, f \in Files, b \in Block
  <2>3. QED
    BY <1>1, <2>1, <2>2 DEF ents2
<1>6. ~t.dirty => ~dirty[f] /\ Synced(disk[f], t.din)
  <2> SUFFICES ASSUME ~t.dirty PROVE ~dirty[f] /\ Synced(disk[f], t.din)
    OBVIOUS
  <2>1. ~s.dirty /\ s.din.indirect = c
    BY <1>1
  <2>2. disk[f] \in Dinode /\ t.din \in Dinode
    BY <1>1, Fields DEF SfsTypeOK
  <2>3. Synced(disk[f], t.din)
    BY <1>1, <1>2, <2>1, <2>2, SyncedGrow DEF n
  <2>4. QED
    BY <1>2, <2>1, <2>3
<1>7. Good(f, t)
  BY <1>1, <1>5, <1>6 DEF Good, D2
<1>8. QED
  BY <1>1, <1>7 DEF Grown, n

\* The next block is there already, from before the inode was re-read.
LEMMA CountedGood ==
    ASSUME SfsTypeOK, NEW f \in Files, NEW s, Good(f, s), NEW i \in Entry, s.ret = "ok",
           s.din.blocks = NDirect + i, s.din.indirect # 0, s.entries[s.din.indirect][i] # 0,
           NEW r, r = [s EXCEPT !.blk = s.din.indirect]
    PROVE  Good(f, count_block(r)) /\ Grown(s, count_block(r))
<1> DEFINE t == count_block(r)
           n == s.din.blocks
           m == n + 1
           ino == [s.din EXCEPT !.blocks = m]
           c == s.din.indirect
           D == All(f, s)
           D2 == All(f, t)
<1>1. s \in WorkType /\ n \in Nat /\ m \in Nat /\ NDirect <= n /\ c \in Block
  BY Fields, Numbers DEF Good, Entry
<1>2. /\ r \in WorkType /\ r.ret = "ok" /\ r.din = s.din /\ r.entries = s.entries /\ r.dirty = s.dirty
      /\ r.free = s.free /\ r.unused = s.unused
  <2> HIDE DEF c
  <2>1. r = [s EXCEPT !.blk = c]
    BY DEF c
  <2>2. QED
    BY <1>1, <2>1 DEF WorkType
<1>3. t = [r EXCEPT !.din.blocks = @ + 1]
  BY <1>2 DEF count_block
<1>4. t = [r EXCEPT !.din = ino]
  BY <1>2, <1>3 DEF WorkType, Dinode
<1> HIDE DEF m, t
<1>5. /\ ino \in Dinode /\ ino.blocks = m /\ ino.direct = s.din.direct
      /\ ino.indirect = s.din.indirect /\ ino.size = s.din.size
  BY <1>1, Fields DEF Dinode
<1> HIDE DEF ino
<1>6. /\ t \in WorkType /\ t.ret = "ok" /\ t.din = ino /\ t.entries = s.entries /\ t.dirty = s.dirty
      /\ t.free = s.free /\ t.unused = s.unused
  BY <1>2, <1>4, <1>5 DEF WorkType
<1>7. /\ D \in [Files -> Dinode] /\ D[f] = s.din /\ \A g \in Files : g # f => D[g] = din[g]
  BY <1>1, AllAt
<1>8. /\ D2 \in [Files -> Dinode] /\ D2[f] = t.din /\ \A g \in Files : g # f => D2[g] = din[g]
  BY <1>6, AllAt
<1>9. Parts(s.free, {}, Map(s.entries, D)) /\ s.unused = Cardinality(s.free) /\ Rows(Map(s.entries, D), D)
      /\ (~s.dirty => ~dirty[f] /\ Synced(disk[f], s.din))
  BY DEF Good
<1> HIDE DEF D, D2
<1>10. Map(s.entries, D2) = Map(s.entries, D)
  <2>1. \A g \in Files : D2[g].direct = D[g].direct /\ D2[g].indirect = D[g].indirect
    BY <1>5, <1>6, <1>7, <1>8
  <2>2. s.entries \in Table
    BY <1>1, Fields
  <2>3. QED
    BY ONLY <1>7, <1>8, <2>1, <2>2, MapSame
<1> DEFINE M == Map(s.entries, D)
           v == s.entries[c][i]
<1>11. M \in [Files \X Slot -> {0} \cup Block] /\ M[<<f, n>>] = v /\ n \in Slot /\ v \in Block
       /\ <<f, n>> \in Files \X Slot
  <2>1. s.entries \in Table
    BY <1>1, Fields
  <2>2. n \in Slot /\ n # -1 /\ ~(n < NDirect) /\ n - NDirect = i
    BY Numbers
  <2>3. M \in [Files \X Slot -> {0} \cup Block]
    BY <1>7, <2>1, MapAt
  <2>4. M[<<f, n>>] = At(s.entries, D[f], n)
    BY <2>2, SlotAt
  <2>5. v \in Block
    BY <1>1, <2>1 DEF Table
  <2>6. QED
    BY <1>7, <2>2, <2>3, <2>4, <2>5 DEF At
<1> HIDE DEF M, v
<1>12. Rows(M, D2)
  <2>1. M = [M EXCEPT ![<<f, n>>] = v]
    BY ONLY <1>11
  <2>2. Changed(M, M, f, D[f].blocks, v) /\ D[f].blocks \in Slot
    BY <1>7, <1>11, <2>1 DEF Changed
  <2>3. D2[f].blocks = D[f].blocks + 1 /\ \A g \in Files : g # f => D2[g].blocks = D[g].blocks
    BY <1>5, <1>6, <1>7, <1>8 DEF m
  <2>4. Rows(M, D)
    BY <1>9 DEF M
  <2>5. Longer(D, D2, f)
    BY ONLY <1>7, <1>8, <2>2, <2>3 DEF Longer
  <2>6. QED
    BY ONLY <1>11, <2>2, <2>4, <2>5, f \in Files, RowsGrow
<1>13. ~s.dirty => Synced(disk[f], t.din)
  <2>1. disk[f] \in Dinode
    BY DEF SfsTypeOK
  <2>2. ino.blocks = s.din.blocks + 1
    BY <1>5 DEF m
  <2>3. QED
    BY <1>1, <1>5, <1>6, <1>9, <2>1, <2>2, SyncedGrow
<1>14. Good(f, t)
  BY <1>6, <1>9, <1>10, <1>12, <1>13 DEF Good, D2, M
<1>15. Grown(s, t)
  BY <1>5, <1>6 DEF Grown, m
<1>16. QED
  BY <1>14, <1>15 DEF t

\* The file has an indirect block: one block is allocated.
LEMMA SubHas ==
    ASSUME SfsTypeOK, NEW f \in Files, NEW s, Good(f, s), NEW i \in Entry, s.ret = "ok",
           s.din.blocks = NDirect + i, s.din.indirect # 0
    PROVE  LET t == count_block(sfs_bmap_get_sub(s, i))
           IN  Good(f, t) /\ Grown(s, t)
<1> DEFINE c == s.din.indirect
           e == [s EXCEPT !.blk = c]
           a == sfs_block_alloc(e)
           r == sfs_bmap_get_sub(s, i)
           t == count_block(r)
           D == All(f, s)
<1>1. s \in WorkType /\ c \in Block /\ s.unused = Cardinality(s.free)
      /\ Parts(s.free, {}, Map(s.entries, D)) /\ Rows(Map(s.entries, D), D)
  BY Fields DEF Good
<1>2. e \in WorkType /\ e.ret = "ok" /\ e.din = s.din /\ e.entries = s.entries /\ e.dirty = s.dirty
      /\ e.free = s.free /\ e.unused = s.unused /\ e.blk = c
  <2> HIDE DEF c
  <2>1. QED
    BY <1>1 DEF WorkType
<1>3. r = IF s.entries[c][i] # 0 THEN e
          ELSE IF a.ret # "ok" THEN failed_cleanup(s, e)
          ELSE [a EXCEPT !.entries[c][i] = a.blk, !.din.indirect = c, !.dirty = @ \/ s.din.indirect = 0]
  BY <1>2 DEF sfs_bmap_get_sub
<1> HIDE DEF r
<1>4. CASE s.entries[c][i] # 0
  <2>1. r = [s EXCEPT !.blk = s.din.indirect]
    BY <1>3, <1>4
  <2>2. Good(f, count_block(r)) /\ Grown(s, count_block(r))
    BY ONLY <1>4, <2>1, CountedGood, SfsTypeOK, f \in Files, Good(f, s), i \in Entry, s.ret = "ok",
            s.din.blocks = NDirect + i, s.din.indirect # 0
  <2>3. QED
    BY <2>2 DEF r
<1>5. CASE s.entries[c][i] = 0 /\ s.free = {}
  <2>1. a = [e EXCEPT !.ret = "E_NO_MEM"]
    BY <1>1, <1>2, <1>5, AllocFacts
  <2> HIDE DEF e
  <2>2. a.ret = "E_NO_MEM"
    BY <1>2, <2>1 DEF WorkType
  <2> HIDE DEF a, c
  <2>3. r = [s EXCEPT !.ret = "E_NO_MEM"]
    BY <1>3, <1>5, <2>2 DEF failed_cleanup
  <2>4. QED
    BY <2>3, FailedGood DEF r
<1>6. CASE s.entries[c][i] = 0 /\ s.free # {}
  <2> HIDE DEF e
  <2>1. PICK b \in e.free : Allocated(e, a, b)
    BY <1>1, <1>2, <1>6, AllocFacts
  <2> HIDE DEF a
  <2>2. /\ a \in WorkType /\ a.ret = "ok" /\ a.blk = b /\ a.din = s.din /\ a.dirty = s.dirty
        /\ a.unused = Cardinality(a.free) /\ b \in Block /\ a.entries \in Table
    BY <1>2, <2>1, Fields DEF Allocated
  <2>3. r = [a EXCEPT !.entries[c][i] = b, !.din.indirect = c, !.dirty = @ \/ s.din.indirect = 0]
    BY <1>3, <1>6, <2>2
  <2> HIDE DEF c
  <2>4. Entered(s, a, t, c, i, b)
    BY ONLY <1>1, <2>2, <2>3, i \in Entry, EnteredFields
  <2>5. D \in [Files -> Dinode] /\ D[f] = s.din /\ \A g \in Files : g # f => D[g] = din[g]
    BY <1>1, AllAt
  <2> HIDE DEF D, t
  <2>6. c # b
    <3>1. \A g \in Files : D[g].indirect \notin s.free
      BY <1>1, <2>5, Fields, IndirectOwned
    <3>2. QED
      BY <1>2, <2>5, <3>1 DEF c
  <2>7. Parts(e.free, {}, Map(e.entries, D))
    BY <1>1, <1>2
  <2>8. /\ Map(a.entries, D) = Map(e.entries, D)
        /\ Parts(a.free, {} \cup {b}, Map(a.entries, D))
        /\ \A x \in Block : x # b => a.entries[x] = e.entries[x]
    BY ONLY <1>2, <2>1, <2>5, <2>7, AllocParts
  <2>9. Parts(a.free, {b}, Map(a.entries, D)) /\ Rows(Map(a.entries, D), D) /\ a.entries[c][i] = 0
    <3>1. {} \cup {b} = {b}
      OBVIOUS
    <3>2. QED
      BY <1>1, <1>2, <1>6, <2>6, <2>8, <3>1
  <2>10. /\ D[f].indirect = c /\ D[f].direct = s.din.direct /\ D[f].blocks = s.din.blocks
         /\ s.din.indirect # 0 => s.din.indirect = c
    BY <2>5 DEF c
  <2>11. Ready(f, s, a, c, i, b, D)
    BY <1>1, <2>2, <2>5, <2>9, <2>10 DEF Ready
  <2>12. Good(f, t) /\ Grown(s, t)
    BY ONLY SfsTypeOK, f \in Files, Good(f, s), <2>4, <2>11, EnteredGood
  <2>13. QED
    BY <2>12 DEF t, r
<1>7. QED
  BY <1>4, <1>5, <1>6

\* It has none: one is allocated for that too, and given back if there is no other block.
LEMMA SubNew ==
    ASSUME SfsTypeOK, NEW f \in Files, NEW s, Good(f, s), NEW i \in Entry, s.ret = "ok",
           s.din.blocks = NDirect + i, s.din.indirect = 0
    PROVE  LET t == count_block(sfs_bmap_get_sub(s, i))
           IN  Good(f, t) /\ Grown(s, t)
<1> DEFINE e == sfs_block_alloc(s)
           a == sfs_block_alloc(e)
           r == sfs_bmap_get_sub(s, i)
           t == count_block(r)
           D == All(f, s)
<1>1. s \in WorkType /\ s.unused = Cardinality(s.free)
      /\ Parts(s.free, {}, Map(s.entries, D)) /\ Rows(Map(s.entries, D), D)
  BY Fields DEF Good
<1>2. r = CASE e.ret # "ok" -> e
            [] e.ret = "ok" /\ e.entries[e.blk][i] # 0 -> e
            [] e.ret = "ok" /\ e.entries[e.blk][i] = 0 ->
                 IF a.ret # "ok" THEN failed_cleanup(s, e)
                 ELSE [a EXCEPT !.entries[e.blk][i] = a.blk, !.din.indirect = e.blk,
                                !.dirty = @ \/ s.din.indirect = 0]
  BY DEF sfs_bmap_get_sub
<1> HIDE DEF r
<1>3. CASE s.free = {}
  <2>1. e = [s EXCEPT !.ret = "E_NO_MEM"]
    BY <1>1, <1>3, AllocFacts
  <2>2. e.ret = "E_NO_MEM"
    BY <1>1, <2>1 DEF WorkType
  <2> HIDE DEF e, a
  <2>3. r = e
    BY ONLY <1>2, <2>2
  <2>4. Good(f, count_block(r)) /\ Grown(s, count_block(r))
    BY ONLY <2>1, <2>3, FailedGood, SfsTypeOK, f \in Files, Good(f, s)
  <2>5. QED
    BY <2>4 DEF r
<1>4. CASE s.free # {}
  <2>1. PICK c \in s.free : Allocated(s, e, c)
    BY <1>1, <1>4, AllocFacts
  <2> HIDE DEF e
  <2>2. /\ e \in WorkType /\ e.ret = "ok" /\ e.blk = c /\ e.din = s.din /\ e.dirty = s.dirty
        /\ e.unused = Cardinality(e.free) /\ c \in Block /\ e.entries \in Table /\ e.free = s.free \ {c}
    BY <1>1, <2>1, Fields DEF Allocated
  <2>3. D \in [Files -> Dinode] /\ D[f] = s.din /\ \A g \in Files : g # f => D[g] = din[g]
    BY <1>1, AllAt
  <2> HIDE DEF D
  <2>4. /\ Map(e.entries, D) = Map(s.entries, D)
        /\ Parts(e.free, {} \cup {c}, Map(e.entries, D))
        /\ e.entries[c] = Zero
    <3>1. Map(e.entries, D) = Map(s.entries, D)
      BY ONLY <1>1, <2>1, <2>3, AllocParts
    <3>2. Parts(e.free, {} \cup {c}, Map(e.entries, D))
      BY ONLY <1>1, <2>1, <2>3, AllocParts
    <3>3. e.entries[c] = Zero
      BY <1>1, <2>1, <2>2, Fields DEF Allocated, Table
    <3>4. QED
      BY <3>1, <3>2, <3>3
  <2>5. e.entries[c][i] = 0
    BY <2>4 DEF Zero
  <2>6. CASE e.free = {}
    <3>1. a = [e EXCEPT !.ret = "E_NO_MEM"]
      BY <2>2, <2>6, AllocFacts
    <3>2. a.ret = "E_NO_MEM"
      BY <2>2, <3>1 DEF WorkType
    <3> HIDE DEF a
    <3>3. r = [s EXCEPT !.ret = "E_NO_MEM"]
      BY <1>2, <2>2, <2>5, <3>2 DEF failed_cleanup
    <3>4. Good(f, count_block(r)) /\ Grown(s, count_block(r))
      BY ONLY <3>3, FailedGood, SfsTypeOK, f \in Files, Good(f, s)
    <3>5. QED
      BY <3>4 DEF r
  <2>7. CASE e.free # {}
    <3>1. PICK b \in e.free : Allocated(e, a, b)
      BY <2>2, <2>7, AllocFacts
    <3> HIDE DEF a
    <3>2. /\ a \in WorkType /\ a.ret = "ok" /\ a.blk = b /\ a.din = s.din /\ a.dirty = s.dirty
          /\ a.unused = Cardinality(a.free) /\ b \in Block /\ a.entries \in Table /\ b # c
      BY <2>2, <3>1, Fields DEF Allocated
    <3>3. r = [a EXCEPT !.entries[c][i] = b, !.din.indirect = c, !.dirty = @ \/ s.din.indirect = 0]
      BY <1>2, <2>2, <2>5, <3>2
    <3>4. Entered(s, a, t, c, i, b)
      <4>1. s \in WorkType /\ c \in Block
        BY <1>1, <2>2
      <4>2. QED
        BY ONLY <3>2, <3>3, <4>1, i \in Entry, EnteredFields
    <3> HIDE DEF t
    <3>5. /\ Map(a.entries, D) = Map(e.entries, D)
          /\ Parts(a.free, ({} \cup {c}) \cup {b}, Map(a.entries, D))
          /\ \A x \in Block : x # b => a.entries[x] = e.entries[x]
      <4> DEFINE hand == {} \cup {c}
      <4>1. Parts(e.free, hand, Map(e.entries, D)) /\ e \in WorkType
        BY <2>2, <2>4
      <4> HIDE DEF hand
      <4>2. Map(a.entries, D) = Map(e.entries, D)
        BY ONLY <2>3, <3>1, <4>1, AllocParts
      <4>3. Parts(a.free, hand \cup {b}, Map(a.entries, D))
        BY ONLY <2>3, <3>1, <4>1, AllocParts
      <4>4. \A x \in Block : x # b => a.entries[x] = e.entries[x]
        BY <2>2, <3>1 DEF Allocated, Table
      <4>5. QED
        BY <4>2, <4>3, <4>4 DEF hand
    <3>6. Parts(a.free, {c, b}, Map(a.entries, D)) /\ Rows(Map(a.entries, D), D)
          /\ a.entries[c] = Zero /\ a.entries[c][i] = 0
      <4>1. ({} \cup {c}) \cup {b} = {c, b}
        OBVIOUS
      <4>2. a.entries[c] = e.entries[c]
        BY <2>2, <3>2, <3>5
      <4>3. QED
        BY <1>1, <2>4, <2>5, <3>5, <4>1, <4>2
    <3> DEFINE ino == [s.din EXCEPT !.indirect = c]
               D2 == [D EXCEPT ![f] = ino]
    <3>7. ino \in Dinode /\ ino.indirect = c /\ ino.direct = s.din.direct /\ ino.blocks = s.din.blocks
      BY <1>1, <2>2, Fields DEF Dinode
    <3> HIDE DEF ino
    <3>8. D2 \in [Files -> Dinode] /\ D2[f] = ino /\ \A g \in Files : g # f => D2[g] = D[g]
      BY <2>3, <3>7
    <3> HIDE DEF D2
    <3>9. /\ D2[f].indirect = c /\ D2[f].direct = D[f].direct /\ D2[f].blocks = D[f].blocks
          /\ D[f].indirect = 0
      BY <2>3, <3>7, <3>8
    <3>10. Parts(a.free, {b}, Map(a.entries, D2)) /\ Rows(Map(a.entries, D2), D2)
      BY ONLY f \in Files, <2>2, <2>3, <3>2, <3>6, <3>8, <3>9, IndirectFills
    <3>11. /\ D2[f].direct = s.din.direct /\ D2[f].blocks = s.din.blocks
           /\ \A g \in Files : g # f => D2[g] = din[g]
           /\ s.din.indirect # 0 => s.din.indirect = c
      BY <2>3, <3>7, <3>8
    <3>12. Ready(f, s, a, c, i, b, D2)
      BY <2>2, <3>2, <3>6, <3>8, <3>9, <3>10, <3>11 DEF Ready
    <3>13. Good(f, t) /\ Grown(s, t)
      BY ONLY SfsTypeOK, f \in Files, Good(f, s), <3>4, <3>12, EnteredGood
    <3>14. QED
      BY <3>13 DEF t, r
  <2>8. QED
    BY <2>6, <2>7
<1>5. QED
  BY <1>3, <1>4

\* Every block the file has is there.
LEMMA BlockThere ==
    ASSUME SfsTypeOK, NEW f \in Files, NEW s, Good(f, s), NEW k \in Nat, k < s.din.blocks
    PROVE  /\ k \in Slot /\ sfs_bmap_get(s, k) # 0
           /\ sfs_bmap_get(s, k) = Map(s.entries, All(f, s))[<<f, k>>]
<1> DEFINE D == All(f, s)
           M == Map(s.entries, D)
<1>1. s \in WorkType /\ Rows(M, D)
  BY DEF Good
<1>2. D[f] = s.din /\ s.din.blocks \in Nat
  BY <1>1, AllAt, Fields
<1>3. Row(M, f, s.din.blocks)
  BY <1>1, <1>2 DEF Rows
<1>4. k \in 0..(s.din.blocks - 1)
  BY <1>2
<1>5. k \in Slot /\ M[<<f, k>>] # 0
  BY <1>3, <1>4 DEF Row
<1>6. M[<<f, k>>] = At(s.entries, s.din, k)
  BY <1>2, <1>5, SlotAt
<1> HIDE DEF M
<1>7. k # -1
  OBVIOUS
<1>8. At(s.entries, s.din, k) = sfs_bmap_get(s, k)
  BY <1>5, <1>7, Numbers DEF At, sfs_bmap_get
<1>9. QED
  BY <1>5, <1>6, <1>8 DEF M

Loaded(s, index, t) ==
    /\ t.ret # "hole" /\ (t.ret = "index" => s.ret = "index" \/ index > s.din.blocks)
    /\ t.din.size = s.din.size /\ t.din.blocks >= s.din.blocks
    /\ t.ret = "ok" => s.ret = "ok" /\ t.din.blocks > index

LEMMA LoadGood ==
    ASSUME SfsTypeOK, NEW f \in Files, NEW s, Good(f, s), s.ret # "hole", NEW index \in Nat
    PROVE  Good(f, sfs_bmap_load(s, index)) /\ Loaded(s, index, sfs_bmap_load(s, index))
<1> DEFINE t == sfs_bmap_load(s, index)
           n == s.din.blocks
<1>0. s \in WorkType /\ n \in Nat /\ NDirect \in Nat /\ NEntry \in Nat
  BY Fields, Numbers DEF Good
<1>1. CASE s.ret # "ok"
  <2>1. t = s
    BY <1>1 DEF sfs_bmap_load
  <2>2. Loaded(s, index, s)
    BY <1>0, <1>1 DEF Loaded
  <2>3. QED
    BY <2>1, <2>2
<1>2. CASE s.ret = "ok" /\ index > n
  <2>1. t = [s EXCEPT !.ret = "index"]
    BY <1>2 DEF sfs_bmap_load
  <2> HIDE DEF t
  <2>2. "index" \in Results
    BY DEF Results
  <2>3. Good(f, t) /\ t.ret = "index" /\ t.din = s.din
    BY ONLY SfsTypeOK, f \in Files, Good(f, s), <2>1, <2>2, SameGood
  <2>4. Loaded(s, index, t)
    BY <1>0, <1>2, <2>3 DEF Loaded
  <2>5. QED
    BY <2>3, <2>4 DEF t
<1>3. CASE s.ret = "ok" /\ ~(index > n) /\ index >= NDirect + NEntry
  <2>1. t = [s EXCEPT !.ret = "range"]
    BY <1>3 DEF sfs_bmap_load
  <2> HIDE DEF t
  <2>2. "range" \in Results
    BY DEF Results
  <2>3. Good(f, t) /\ t.ret = "range" /\ t.din = s.din
    BY ONLY SfsTypeOK, f \in Files, Good(f, s), <2>1, <2>2, SameGood
  <2>4. Loaded(s, index, t)
    BY <1>0, <1>3, <2>3 DEF Loaded
  <2>5. QED
    BY <2>3, <2>4 DEF t
<1>4. CASE s.ret = "ok" /\ index < n /\ ~(index >= NDirect + NEntry)
  <2>1. sfs_bmap_get(s, index) # 0
    BY <1>4, BlockThere
  <2>2. t = s
    BY <1>0, <1>4, <2>1 DEF sfs_bmap_load
  <2>3. Loaded(s, index, s)
    BY <1>0, <1>4 DEF Loaded
  <2>4. QED
    BY <2>2, <2>3
<1>5. CASE s.ret = "ok" /\ index = n /\ index < NDirect + NEntry
  <2>1. t = count_block(sfs_bmap_create(s, n))
    BY <1>0, <1>5 DEF sfs_bmap_load
  <2>2. Good(f, t) /\ Grown(s, t)
    <3>1. CASE n < NDirect
      <4>1. t = count_block(get_direct(s, n))
        BY <2>1, <3>1 DEF sfs_bmap_create
      <4>2. QED
        BY <1>5, <3>1, <4>1, DirectGood
    <3>2. CASE ~(n < NDirect)
      <4> DEFINE i == n - NDirect
      <4>1. i \in Entry /\ n = NDirect + i
        BY <1>0, <1>5, <3>2 DEF Entry
      <4>2. t = count_block(sfs_bmap_get_sub(s, i))
        BY <2>1, <3>2 DEF sfs_bmap_create
      <4> HIDE DEF i, t
      <4>3. CASE s.din.indirect = 0
        BY <1>5, <4>1, <4>2, <4>3, SubNew
      <4>4. CASE s.din.indirect # 0
        BY <1>5, <4>1, <4>2, <4>4, SubHas
      <4>5. QED
        BY <4>3, <4>4
    <3>3. QED
      BY <3>1, <3>2
  <2> HIDE DEF t
  <2>3. Loaded(s, index, t)
    BY <1>0, <1>5, <2>2 DEF Loaded, Grown
  <2>4. QED
    BY <2>2, <2>3 DEF t
<1>6. QED
  BY <1>0, <1>1, <1>2, <1>3, <1>4, <1>5
-----------------------------------------------------------------------------
(* sfs_bmap_truncate_nolock.                                               *)

\* The last block, v in slot k, goes back to the free map.
Dropped(s, t, k, v) ==
    /\ t \in WorkType /\ t.free = s.free \cup {v} /\ t.unused = s.unused + 1
    /\ t.ret = s.ret /\ t.dirty = TRUE /\ t.din.size = s.din.size /\ t.din.blocks = k

LEMMA DroppedGood ==
    ASSUME SfsTypeOK, NEW f \in Files, NEW s, Good(f, s), NEW k \in Nat, s.din.blocks = k + 1,
           NEW t, NEW v, v = Map(s.entries, All(f, s))[<<f, k>>], Dropped(s, t, k, v),
           Changed(Map(s.entries, All(f, s)), Map(t.entries, All(f, t)), f, k, 0)
    PROVE  Good(f, t)
<1> DEFINE D == All(f, s)
           D2 == All(f, t)
           M == Map(s.entries, D)
           N == Map(t.entries, D2)
<1>1. /\ s \in WorkType /\ Parts(s.free, {}, M) /\ Rows(M, D) /\ s.unused = Cardinality(s.free)
  BY DEF Good
<1>2. /\ t \in WorkType /\ t.free = s.free \cup {v} /\ t.unused = s.unused + 1 /\ t.dirty = TRUE
      /\ t.din.blocks = k
  BY DEF Dropped
<1>3. D \in [Files -> Dinode] /\ D[f] = s.din /\ \A g \in Files : g # f => D[g] = din[g]
  BY <1>1, AllAt
<1>4. D2 \in [Files -> Dinode] /\ D2[f] = t.din /\ \A g \in Files : g # f => D2[g] = din[g]
  BY <1>2, AllAt
<1>5. k \in Slot /\ v # 0
  BY BlockThere
<1>6. M \in [Files \X Slot -> {0} \cup Block] /\ <<f, k>> \in Files \X Slot /\ M[<<f, k>>] = v
      /\ Changed(M, N, f, k, 0)
  BY <1>1, <1>3, <1>5, Fields, MapAt
<1> HIDE DEF M, N, D, D2
<1>7. v \notin s.free /\ v \in Block
  BY <1>1, <1>5, <1>6 DEF Parts
<1>8. Parts(t.free, {}, N)
  <2> DEFINE x == <<f, k>>
             h == {} \cup {M[x]}
  <2>0. x \in Files \X Slot /\ M[x] # 0 /\ M[x] = v
    BY <1>5, <1>6
  <2>00. N = [M EXCEPT ![x] = 0]
    BY <1>6 DEF Changed
  <2> HIDE DEF x
  <2>1. Parts(s.free, {} \cup {M[x]}, [M EXCEPT ![x] = 0])
    BY ONLY <1>1, <2>0, ClearSlot
  <2>2. Parts(s.free, h, N) /\ v \in h /\ h \ {v} = {}
    BY <2>0, <2>00, <2>1
  <2> HIDE DEF h
  <2>3. Parts(s.free \cup {v}, h \ {v}, N)
    BY ONLY <2>2, PutFree
  <2>4. QED
    BY <1>2, <2>2, <2>3
<1>9. Rows(N, D2)
  <2>1. D[f].blocks = k + 1 /\ D2[f].blocks = k /\ \A g \in Files : g # f => D2[g].blocks = D[g].blocks
    BY <1>2, <1>3, <1>4
  <2>2. QED
    BY ONLY <1>1, <1>3, <1>4, <1>5, <1>6, <2>1, f \in Files, RowsShrink
<1>10. t.unused = Cardinality(t.free)
  <2>1. IsFiniteSet(s.free)
    BY <1>1, Fields, BlocksFinite
  <2>2. Cardinality(s.free \cup {v}) = Cardinality(s.free) + 1
    BY <1>7, <2>1, FS_AddElement
  <2>3. QED
    BY <1>1, <1>2, <2>2
<1>11. QED
  BY <1>2, <1>8, <1>9, <1>10 DEF Good, N, D2

LEMMA TruncateGood ==
    ASSUME SfsTypeOK, NEW f \in Files, NEW s, Good(f, s), NEW k \in Nat, s.din.blocks = k + 1
    PROVE  LET t == sfs_bmap_truncate(s, k)
           IN  Good(f, t) /\ t.ret = s.ret /\ t.din.size = s.din.size /\ t.din.blocks = k
<1> DEFINE t == sfs_bmap_truncate(s, k)
           D == All(f, s)
           D2 == All(f, t)
           M == Map(s.entries, D)
           v == M[<<f, k>>]
           F == s.free \cup {v}
           u == s.unused + 1
<1>1. s \in WorkType /\ k < s.din.blocks /\ k = (s.din.blocks - 1)
  BY DEF Good
<1>2. k \in Slot /\ v # 0 /\ v = sfs_bmap_get(s, k)
  BY <1>1, BlockThere
<1>3. D \in [Files -> Dinode] /\ D[f] = s.din /\ \A g \in Files : g # f => D[g] = din[g]
  BY <1>1, AllAt
<1>4. M \in [Files \X Slot -> {0} \cup Block] /\ v \in Block /\ F \in SUBSET Block /\ u \in Int
  <2>1. M \in [Files \X Slot -> {0} \cup Block]
    BY <1>1, <1>3, Fields, MapAt
  <2>2. <<f, k>> \in Files \X Slot
    BY <1>2
  <2> HIDE DEF M
  <2>3. QED
    BY <1>1, <1>2, <2>1, <2>2, Fields
<1>5. s.din.blocks - 1 = k /\ s.din \in Dinode
  BY <1>1, Fields
<1>6. CASE k < NDirect
  <2> DEFINE dir == [s.din.direct EXCEPT ![k] = 0]
             ino == [s.din EXCEPT !.direct = dir, !.blocks = k]
  <2>1. k \in 0..(NDirect - 1) /\ dir \in [0..(NDirect - 1) -> {0} \cup Block]
    BY <1>1, <1>6, Fields, Numbers
  <2>2. t = [[sfs_block_free(s, v) EXCEPT !.din.direct[k] = 0] EXCEPT !.din.blocks = @ - 1, !.dirty = TRUE]
    <3> HIDE DEF v
    <3>1. ~(k >= NDirect)
      BY <1>6, Numbers
    <3>2. QED
      BY <1>2, <3>1 DEF sfs_bmap_truncate
  <2> HIDE DEF v, t, D2
  <2>3. sfs_block_free(s, v) = [s EXCEPT !.free = F, !.unused = u]
    BY <1>1 DEF sfs_block_free, WorkType
  <2> HIDE DEF F, u
  <2>4. t = [s EXCEPT !.free = F, !.unused = u, !.din = ino, !.dirty = TRUE]
    BY <1>1, <1>5, <2>2, <2>3 DEF WorkType, Dinode
  <2> HIDE DEF dir
  <2>5. ino \in Dinode /\ ino.direct = dir /\ ino.blocks = k /\ ino.indirect = s.din.indirect
        /\ ino.size = s.din.size
    BY <1>5, <2>1 DEF Dinode
  <2> HIDE DEF ino
  <2>6. /\ t \in WorkType /\ t.free = F /\ t.unused = u /\ t.ret = s.ret /\ t.dirty = TRUE
        /\ t.din = ino /\ t.entries = s.entries
    BY <1>1, <1>4, <2>4, <2>5 DEF WorkType
  <2>7. Dropped(s, t, k, v)
    BY <2>5, <2>6 DEF Dropped, F, u
  <2>8. D2 \in [Files -> Dinode] /\ D2[f] = t.din /\ \A g \in Files : g # f => D2[g] = D[g]
    BY <1>3, <2>6, AllAt DEF D2
  <2> HIDE DEF D
  <2>9. Changed(M, Map(t.entries, D2), f, k, 0)
    <3>1. D2[f].direct = [D[f].direct EXCEPT ![k] = 0] /\ D2[f].indirect = D[f].indirect
      BY <1>3, <2>5, <2>6, <2>8 DEF dir
    <3>2. 0 \in {0} \cup Block /\ s.entries \in Table
      BY <1>1, Fields
    <3>3. Changed(Map(s.entries, D), Map(s.entries, D2), f, k, 0)
      BY ONLY <1>3, <2>1, <2>8, <3>1, <3>2, f \in Files, MapDirect
    <3>4. QED
      BY <2>6, <3>3
  <2>10. Good(f, t)
    BY <2>7, <2>9, DroppedGood DEF D, D2, v
  <2>11. QED
    BY <2>5, <2>6, <2>10 DEF t
<1>7. CASE ~(k < NDirect)
  <2> DEFINE i == k - NDirect
             c == s.din.indirect
             E == [s.entries EXCEPT ![c] = [@ EXCEPT ![i] = 0]]
             ino == [s.din EXCEPT !.blocks = k]
  <2>1. i \in Entry /\ k = NDirect + i
    BY <1>2, <1>7, Numbers
  <2>2. c # 0 /\ s.entries[c][i] = v /\ c \in Block
    <3>1. v = IF i \notin Entry \/ c = 0 THEN 0 ELSE s.entries[c][i]
      BY <1>2, <1>7 DEF sfs_bmap_get
    <3> HIDE DEF v, i
    <3>2. QED
      BY <1>1, <1>2, <2>1, <3>1, Fields
  <2>3. sfs_bmap_free_sub(s, i) = [sfs_block_free(s, v) EXCEPT !.entries[c][i] = 0]
    BY <1>2, <2>2 DEF sfs_bmap_free_sub
  <2>4. t = [sfs_bmap_free_sub(s, i) EXCEPT !.din.blocks = @ - 1, !.dirty = TRUE]
    <3>1. k >= NDirect
      BY <1>7, Numbers
    <3>2. QED
      BY <2>2, <3>1 DEF sfs_bmap_truncate
  <2> HIDE DEF v, t, D2, i
  <2>5. sfs_block_free(s, v) = [s EXCEPT !.free = F, !.unused = u]
    BY <1>1 DEF sfs_block_free, WorkType
  <2> HIDE DEF F, u
  <2>6. t = [s EXCEPT !.free = F, !.unused = u, !.entries = E, !.din = ino, !.dirty = TRUE]
    BY <1>1, <1>5, <2>3, <2>4, <2>5 DEF WorkType, Dinode
  <2>7. ino \in Dinode /\ ino.direct = s.din.direct /\ ino.blocks = k /\ ino.indirect = s.din.indirect
        /\ ino.size = s.din.size
    BY <1>5 DEF Dinode
  <2>8. E \in Table /\ Changed(M, Map(E, D), f, NDirect + i, 0)
    <3>1. E = [s.entries EXCEPT ![D[f].indirect] = [@ EXCEPT ![i] = 0]] /\ D[f].indirect # 0
      BY <1>3, <2>2
    <3>2. s.entries \in Table /\ Parts(s.free, {}, M) /\ 0 \in {0} \cup Block
      BY <1>1, Fields DEF Good
    <3> HIDE DEF D, E
    <3>3. \A g \in Files : g # f => D[g].indirect # D[f].indirect
      BY <1>3, <3>1, <3>2, IndirectOwned
    <3>4. E \in Table
      BY ONLY <1>3, <2>1, <3>1, <3>2, <3>3, f \in Files, MapEntry
    <3>5. Changed(Map(s.entries, D), Map(E, D), f, NDirect + i, 0)
      BY ONLY <1>3, <2>1, <3>1, <3>2, <3>3, f \in Files, MapEntry
    <3>6. QED
      BY <3>4, <3>5
  <2> HIDE DEF ino, E, c
  <2>9. /\ t \in WorkType /\ t.free = F /\ t.unused = u /\ t.ret = s.ret /\ t.dirty = TRUE
        /\ t.din = ino /\ t.entries = E
    BY <1>1, <1>4, <2>6, <2>7, <2>8 DEF WorkType
  <2>10. Dropped(s, t, k, v)
    BY <2>7, <2>9 DEF Dropped, F, u
  <2>11. D2 \in [Files -> Dinode] /\ D2[f] = t.din /\ \A g \in Files : g # f => D2[g] = D[g]
    BY <1>3, <2>9, AllAt DEF D2
  <2> HIDE DEF D
  <2>12. Changed(M, Map(t.entries, D2), f, k, 0)
    <3>1. \A g \in Files : D2[g].direct = D[g].direct /\ D2[g].indirect = D[g].indirect
      BY <1>3, <2>7, <2>9, <2>11
    <3>2. Map(E, D2) = Map(E, D)
      BY ONLY <1>3, <2>8, <2>11, <3>1, MapSame
    <3>3. QED
      BY <2>1, <2>8, <2>9, <3>2
  <2>13. Good(f, t)
    BY <2>10, <2>12, DroppedGood DEF D, D2, v
  <2>14. QED
    BY <2>7, <2>9, <2>13 DEF t
<1>8. QED
  BY <1>6, <1>7
-----------------------------------------------------------------------------
(* The loops over the blocks of a file.                                    *)

\* Round n of a loop that starts at block p: load_all goes up, truncate_all down.
Round(way, p, x, n) == IF way = "up" THEN sfs_bmap_load(x, p + n - 1) ELSE sfs_bmap_truncate(x, p - n)

\* g[n] is the state after n rounds.
Rounds(g, way, s, p, N) == \A n \in 0..N : g[n] = IF n = 0 THEN s ELSE Round(way, p, g[n - 1], n)

History(g, N) == g = [n \in 0..N |-> g[n]]

LEMMA RoundsExist ==
    ASSUME NEW way, NEW s, NEW p, NEW N \in Nat
    PROVE  \E g : Rounds(g, way, s, p, N) /\ History(g, N)
<1> DEFINE S == {n \in 0..N : \E g : Rounds(g, way, s, p, n) /\ History(g, n)}
<1>1. 0 \in S
  <2> DEFINE g == [d \in 0..0 |-> s]
  <2>1. Rounds(g, way, s, p, 0) /\ History(g, 0)
    BY DEF Rounds, History
  <2> HIDE DEF g
  <2>2. QED
    BY <2>1
<1>2. ASSUME NEW n \in 0..(N - 1), n \in S PROVE n + 1 \in S
  <2>0. n \in Int /\ n + 1 \in 0..N /\ 0 <= n
    OBVIOUS
  <2>1. PICK g : Rounds(g, way, s, p, n)
    BY <1>2
  <2> DEFINE x == Round(way, p, g[n], n + 1)
             h == [d \in 0..(n + 1) |-> IF d = n + 1 THEN x ELSE g[d]]
  <2>2. ASSUME NEW d \in 0..(n + 1) PROVE h[d] = IF d = 0 THEN s ELSE Round(way, p, h[d - 1], d)
    <3>1. CASE d = n + 1
      <4>1. d - 1 = n /\ n \in 0..(n + 1) /\ n # n + 1 /\ d # 0
        BY <2>0, <3>1
      <4>2. h[n] = g[n] /\ h[d] = x
        BY ONLY <3>1, <4>1, d \in 0..(n + 1)
      <4>3. QED
        BY ONLY <3>1, <4>1, <4>2
    <3>2. CASE d # n + 1
      <4>1. d \in 0..n
        BY <2>0, <3>2
      <4>2. h[d] = g[d]
        BY ONLY <3>2, d \in 0..(n + 1)
      <4>3. g[d] = IF d = 0 THEN s ELSE Round(way, p, g[d - 1], d)
        BY ONLY <2>1, <4>1 DEF Rounds
      <4>4. CASE d = 0
        BY ONLY <4>2, <4>3, <4>4
      <4>5. CASE d # 0
        <5>1. d - 1 \in 0..(n + 1) /\ d - 1 # n + 1
          BY <2>0, <4>1, <4>5
        <5>2. h[d - 1] = g[d - 1]
          BY ONLY <5>1
        <5>3. QED
          BY ONLY <4>2, <4>3, <4>5, <5>2
      <4>6. QED
        BY <4>4, <4>5
    <3>3. QED
      BY <3>1, <3>2
  <2>3. History(h, n + 1)
    BY DEF History
  <2> HIDE DEF h
  <2>4. Rounds(h, way, s, p, n + 1)
    BY ONLY <2>2 DEF Rounds
  <2>5. QED
    BY <2>0, <2>3, <2>4
<1> HIDE DEF S
<1>3. N \in S
  <2>1. \A n \in 0..N : n \in S
    BY ONLY <1>1, <1>2, IntervalInduction, N \in Nat
  <2>2. QED
    BY ONLY <2>1, N \in Nat
<1>4. QED
  BY <1>3 DEF S

LEMMA LoadRuns ==
    ASSUME NEW s, NEW first \in Nat, NEW last \in Nat, first <= last
    PROVE  \E g : Rounds(g, "up", s, first, last - first + 1) /\ load_all(s, first, last) = g[last - first + 1]
<1> DEFINE P(h) == h = [n \in 0..(last - first + 1) |-> IF n = 0 THEN s ELSE sfs_bmap_load(h[n - 1], first + n - 1)]
           at == CHOOSE h : P(h)
           N == last - first + 1
<1>1. load_all(s, first, last) = at[N]
  BY DEF load_all
<1>2. N \in Nat
  OBVIOUS
<1>3. PICK g : Rounds(g, "up", s, first, N) /\ History(g, N)
  <2> HIDE DEF N
  <2>1. QED
    BY ONLY <1>2, RoundsExist
<1>4. P(g)
  <2> DEFINE h == [n \in 0..N |-> IF n = 0 THEN s ELSE sfs_bmap_load(g[n - 1], first + n - 1)]
  <2>1. \A n \in 0..N : g[n] = h[n]
    BY <1>3 DEF Rounds, Round
  <2>2. h = [n \in 0..N |-> h[n]]
    OBVIOUS
  <2> HIDE DEF h, N
  <2>3. g = h
    BY ONLY <1>3, <2>1, <2>2 DEF History
  <2>4. QED
    BY ONLY <2>3 DEF h, N
<1>5. P(at)
  BY <1>4
<1> HIDE DEF at
<1>6. Rounds(at, "up", s, first, N)
  BY <1>5 DEF Rounds, Round
<1>7. QED
  BY <1>1, <1>6

LEMMA TruncateRuns ==
    ASSUME NEW s, s.din.blocks \in Nat, NEW tblks \in Nat, tblks <= s.din.blocks
    PROVE  \E g : /\ Rounds(g, "down", s, s.din.blocks, s.din.blocks - tblks)
                  /\ truncate_all(s, tblks) = g[s.din.blocks - tblks]
<1> DEFINE P(h) == h = [n \in 0..(s.din.blocks - tblks) |->
                          IF n = 0 THEN s ELSE sfs_bmap_truncate(h[n - 1], s.din.blocks - n)]
           at == CHOOSE h : P(h)
           N == s.din.blocks - tblks
<1>1. truncate_all(s, tblks) = at[N]
  BY DEF truncate_all
<1>2. N \in Nat
  OBVIOUS
<1>3. PICK g : Rounds(g, "down", s, s.din.blocks, N) /\ History(g, N)
  <2> HIDE DEF N
  <2>1. QED
    BY ONLY <1>2, RoundsExist
<1>4. P(g)
  <2> DEFINE h == [n \in 0..N |-> IF n = 0 THEN s ELSE sfs_bmap_truncate(g[n - 1], s.din.blocks - n)]
  <2>1. \A n \in 0..N : g[n] = h[n]
    BY <1>3 DEF Rounds, Round
  <2>2. h = [n \in 0..N |-> h[n]]
    OBVIOUS
  <2> HIDE DEF h, N
  <2>3. g = h
    BY ONLY <1>3, <2>1, <2>2 DEF History
  <2>4. QED
    BY ONLY <2>3 DEF h, N
<1>5. P(at)
  BY <1>4
<1> HIDE DEF at
<1>6. Rounds(at, "down", s, s.din.blocks, N)
  BY <1>5 DEF Rounds, Round
<1>7. QED
  BY <1>1, <1>6

\* After the loop every block up to the last is there, unless an error ended it.
AllLoaded(s, first, last, t) ==
    /\ t.ret # "hole" /\ (t.ret = "index" => first > s.din.blocks)
    /\ t.din.size = s.din.size /\ t.din.blocks >= s.din.blocks
    /\ t.ret = "ok" => t.din.blocks > last

LEMMA LoadAllGood ==
    ASSUME SfsTypeOK, NEW f \in Files, NEW s, Good(f, s), s.ret = "ok",
           NEW first \in Nat, NEW last \in Nat, first <= last
    PROVE  Good(f, load_all(s, first, last)) /\ AllLoaded(s, first, last, load_all(s, first, last))
<1> DEFINE N == last - first + 1
<1>0. N \in Nat /\ N > 0 /\ first + N = last + 1
  OBVIOUS
<1>1. PICK g : Rounds(g, "up", s, first, N) /\ load_all(s, first, last) = g[N]
  BY LoadRuns
<1> HIDE DEF N
<1> DEFINE OK(n) == /\ Good(f, g[n])
                    /\ g[n].ret # "hole" /\ (g[n].ret = "index" => first > s.din.blocks)
                    /\ g[n].din.size = s.din.size /\ g[n].din.blocks >= s.din.blocks
                    /\ n > 0 /\ g[n].ret = "ok" => g[n].din.blocks >= first + n
           S == {n \in 0..N : OK(n)}
<1>2. 0 \in S
  <2>1. g[0] = s
    BY <1>0, <1>1 DEF Rounds
  <2>2. s.din.blocks \in Nat
    BY Fields DEF Good
  <2>3. OK(0)
    BY <2>1, <2>2
  <2> HIDE DEF OK
  <2>4. QED
    BY <1>0, <2>3
<1>3. ASSUME NEW n \in 0..(N - 1), n \in S PROVE n + 1 \in S
  <2>0. n \in Nat /\ n + 1 \in 0..N /\ n + 1 # 0 /\ (n + 1) - 1 = n /\ first + (n + 1) - 1 = first + n
    BY <1>0
  <2>1. OK(n)
    BY <1>3
  <2> DEFINE x == g[n]
             y == g[n + 1]
             k == first + n
  <2>2. y = sfs_bmap_load(x, k)
    BY <1>1, <2>0 DEF Rounds, Round
  <2>3. Good(f, x) /\ x.ret # "hole" /\ k \in Nat
    BY <2>0, <2>1
  <2> HIDE DEF y
  <2>4. Good(f, y)
    <3> HIDE DEF x, k
    <3>1. QED
      BY ONLY SfsTypeOK, f \in Files, <2>2, <2>3, LoadGood
  <2>5. Loaded(x, k, y)
    <3> HIDE DEF x, k
    <3>1. QED
      BY ONLY SfsTypeOK, f \in Files, <2>2, <2>3, LoadGood
  <2>6. x.din.blocks \in Nat /\ y.din.blocks \in Nat /\ s.din.blocks \in Nat
    <3> HIDE DEF x
    <3>1. QED
      BY <2>3, <2>4, Fields DEF Good
  <2>7. n = 0 => x = s
    BY <1>0, <1>1 DEF Rounds
  <2>8. /\ x.ret = "index" => first > s.din.blocks
        /\ x.din.size = s.din.size /\ x.din.blocks >= s.din.blocks
        /\ n > 0 /\ x.ret = "ok" => x.din.blocks >= k
    BY <2>1
  <2>8a. y.ret = "index" => first > s.din.blocks
    <3> HIDE DEF OK, S, x
    <3>1. SUFFICES ASSUME y.ret = "index", x.ret # "index" PROVE first > s.din.blocks
      BY <2>8
    <3>2. k > x.din.blocks
      BY <2>5, <3>1 DEF Loaded
    <3>3. x.ret = "ok"
      <4>1. x.ret # "ok" => y = x
        BY <2>2 DEF sfs_bmap_load
      <4>2. QED
        BY <3>1, <4>1
    <3>4. n = 0
      BY <2>0, <2>6, <2>8, <3>2, <3>3
    <3>5. QED
      BY <2>7, <3>2, <3>4
  <2>9. OK(n + 1)
    <3>1. /\ y.ret # "hole"
          /\ y.din.size = s.din.size /\ y.din.blocks >= s.din.blocks
          /\ y.ret = "ok" => y.din.blocks >= first + (n + 1)
      <4> HIDE DEF x, OK, S
      <4>1. QED
        BY <2>0, <2>5, <2>6, <2>8 DEF Loaded
    <3>2. QED
      BY <2>4, <2>8a, <3>1 DEF y
  <2> HIDE DEF OK
  <2>10. QED
    BY <2>0, <2>9
<1> HIDE DEF S
<1>4. N \in S
  <2>1. \A n \in 0..N : n \in S
    BY ONLY <1>0, <1>2, <1>3, IntervalInduction
  <2>2. QED
    BY ONLY <1>0, <2>1
<1>5. OK(N)
  BY ONLY <1>4 DEF S
<1>6. Good(f, g[N]) /\ g[N].din.blocks \in Nat
  <2>1. Good(f, g[N])
    BY <1>5
  <2>2. QED
    BY <2>1, Fields DEF Good
<1>7. AllLoaded(s, first, last, g[N])
  <2> DEFINE y == g[N]
  <2>1. /\ y.ret # "hole" /\ (y.ret = "index" => first > s.din.blocks)
        /\ y.din.size = s.din.size /\ y.din.blocks >= s.din.blocks
        /\ y.ret = "ok" => y.din.blocks >= first + N
    BY <1>0, <1>5
  <2> HIDE DEF y, OK
  <2>2. y.ret = "ok" => y.din.blocks > last
    BY <1>0, <1>6, <2>1 DEF y
  <2>3. QED
    BY <2>1, <2>2 DEF AllLoaded, y
<1>8. QED
  BY <1>1, <1>6, <1>7

LEMMA TruncateAllGood ==
    ASSUME SfsTypeOK, NEW f \in Files, NEW s, Good(f, s), NEW tblks \in Nat, tblks <= s.din.blocks
    PROVE  LET t == truncate_all(s, tblks)
           IN  Good(f, t) /\ t.ret = s.ret /\ t.din.size = s.din.size /\ t.din.blocks = tblks
<1> DEFINE nb == s.din.blocks
           N == nb - tblks
<1>0. nb \in Nat /\ N \in Nat /\ nb - N = tblks
  BY Fields DEF Good
<1>1. PICK g : Rounds(g, "down", s, nb, N) /\ truncate_all(s, tblks) = g[N]
  BY <1>0, TruncateRuns
<1> DEFINE OK(n) == /\ Good(f, g[n]) /\ g[n].ret = s.ret /\ g[n].din.size = s.din.size
                    /\ g[n].din.blocks = nb - n
           S == {n \in 0..N : OK(n)}
<1>a. N <= nb
  BY <1>0
<1> HIDE DEF N
<1>2. 0 \in S
  <2>1. g[0] = s
    BY <1>0, <1>1 DEF Rounds
  <2>2. OK(0)
    BY <1>0, <2>1
  <2> HIDE DEF OK
  <2>3. QED
    BY <1>0, <2>2
<1>3. ASSUME NEW n \in 0..(N - 1), n \in S PROVE n + 1 \in S
  <2> DEFINE k == nb - (n + 1)
             x == g[n]
             y == g[n + 1]
  <2>0. n \in Nat /\ n + 1 \in 0..N /\ n + 1 # 0 /\ (n + 1) - 1 = n /\ k \in Nat /\ nb - n = k + 1
    BY <1>0, <1>a
  <2>1. OK(n)
    BY <1>3
  <2>2. y = sfs_bmap_truncate(x, k)
    BY <1>1, <2>0 DEF Rounds, Round
  <2>3. Good(f, x) /\ x.din.blocks = k + 1 /\ x.ret = s.ret /\ x.din.size = s.din.size
    BY <2>0, <2>1
  <2> HIDE DEF x, y, k, nb
  <2>4. Good(f, y) /\ y.ret = x.ret /\ y.din.size = x.din.size /\ y.din.blocks = k
    BY ONLY SfsTypeOK, f \in Files, <2>0, <2>2, <2>3, TruncateGood
  <2>5. OK(n + 1)
    BY <2>3, <2>4 DEF y, k
  <2> HIDE DEF OK
  <2>6. QED
    BY <2>0, <2>5
<1> HIDE DEF S
<1>4. N \in S
  <2>1. \A n \in 0..N : n \in S
    BY ONLY <1>0, <1>2, <1>3, IntervalInduction
  <2>2. QED
    BY ONLY <1>0, <2>1
<1>5. OK(N)
  BY ONLY <1>4 DEF S
<1>6. QED
  BY <1>0, <1>1, <1>5
-----------------------------------------------------------------------------
(* Sizes in bytes and in blocks.                                           *)

LEMMA TimesMonotone ==
    ASSUME NEW a \in Nat, NEW b \in Nat
    PROVE  a * BlkSize \in Nat /\ (a <= b => a * BlkSize <= b * BlkSize)
           /\ (a * BlkSize < (b + 1) * BlkSize => a <= b) /\ (b + 1) * BlkSize = b * BlkSize + BlkSize
<1>1. BlkSize \in Nat /\ BlkSize > 0
  BY Numbers
<1>2. a * BlkSize \in Nat /\ (a <= b => a * BlkSize <= b * BlkSize)
  BY <1>1
<1>3. (b + 1) * BlkSize = b * BlkSize + BlkSize
  BY <1>1
<1>4. a * BlkSize < (b + 1) * BlkSize => a <= b
  BY <1>1
<1>5. QED
  BY <1>2, <1>3, <1>4

LEMMA Quotient ==
    ASSUME NEW n \in Nat
    PROVE  /\ n \div BlkSize \in Nat
           /\ (n \div BlkSize) * BlkSize <= n /\ n < (n \div BlkSize + 1) * BlkSize
<1>1. BlkSize \in Nat /\ BlkSize > 0
  BY Numbers
<1>2. QED
  BY <1>1

\* A block of a byte that the file has room for.
LEMMA QuotientWithin ==
    ASSUME NEW n \in Nat, NEW b \in Nat
    PROVE  /\ n <= b * BlkSize => n \div BlkSize <= b
           /\ n \div BlkSize < b => n + 1 <= b * BlkSize
<1> DEFINE q == n \div BlkSize
<1>0. BlkSize \in Nat /\ BlkSize > 0
  BY Numbers
<1>1. q \in Nat /\ q * BlkSize <= n /\ n < (q + 1) * BlkSize
  BY Quotient
<1> HIDE DEF q
<1>2. n <= b * BlkSize => q <= b
  <2>1. q * BlkSize < (b + 1) * BlkSize => q <= b
    BY ONLY <1>1, b \in Nat, TimesMonotone
  <2>2. (b + 1) * BlkSize = b * BlkSize + BlkSize /\ b * BlkSize \in Nat /\ q * BlkSize \in Nat
    BY ONLY <1>1, b \in Nat, TimesMonotone
  <2> DEFINE x == q * BlkSize
             y == b * BlkSize
             z == (b + 1) * BlkSize
  <2>3. x <= n /\ x \in Nat /\ y \in Nat /\ z = y + BlkSize /\ (x < z => q <= b)
    BY <1>1, <2>1, <2>2
  <2> HIDE DEF x, y, z
  <2>4. n <= y => q <= b
    BY ONLY <1>0, <2>3, n \in Nat
  <2>5. QED
    BY <2>4 DEF y
<1>3. q < b => n + 1 <= b * BlkSize
  <2> DEFINE y == b * BlkSize
             z == (q + 1) * BlkSize
  <2>1. q + 1 \in Nat
    BY <1>1
  <2>2. z \in Nat /\ (q + 1 <= b => z <= y) /\ y \in Nat
    BY ONLY <2>1, b \in Nat, TimesMonotone
  <2>3. n < z
    BY <1>1
  <2> HIDE DEF y, z
  <2>4. q < b => n + 1 <= y
    BY ONLY <1>1, <2>2, <2>3, n \in Nat, b \in Nat
  <2>5. QED
    BY <2>4 DEF y
<1>4. QED
  BY <1>2, <1>3 DEF q

LEMMA QuotientMonotone ==
    ASSUME NEW m \in Nat, NEW n \in Nat, m <= n
    PROVE  m \div BlkSize <= n \div BlkSize
<1> DEFINE q == n \div BlkSize
           z == (q + 1) * BlkSize
<1>1. q \in Nat /\ n < z /\ q + 1 \in Nat
  BY Quotient
<1>2. z \in Nat
  BY ONLY <1>1, TimesMonotone
<1> DEFINE p == m \div BlkSize
           x == p * BlkSize
<1>3. p \in Nat /\ x <= m
  BY Quotient
<1>4. x \in Nat /\ (x < z => p <= q)
  BY ONLY <1>1, <1>3, TimesMonotone
<1> HIDE DEF p, q, x, z
<1>5. p <= q
  BY ONLY <1>1, <1>2, <1>3, <1>4, m \in Nat, n \in Nat, m <= n
<1>6. QED
  BY <1>5 DEF p, q

\* Cdiv(n) blocks have room for n bytes.
LEMMA CdivRoom == ASSUME NEW n \in Nat PROVE Cdiv(n) \in Nat /\ n <= Cdiv(n) * BlkSize
<1> DEFINE k == n + BlkSize - 1
           c == k \div BlkSize
           y == c * BlkSize
           z == (c + 1) * BlkSize
<1>0. BlkSize \in Nat /\ BlkSize > 0 /\ k \in Nat /\ k = n + BlkSize - 1
  BY Numbers
<1> HIDE DEF k
<1>1. c \in Nat /\ k < z
  BY <1>0, Quotient
<1>2. y \in Nat /\ z = y + BlkSize
  BY ONLY <1>1, TimesMonotone
<1>3. Cdiv(n) = c
  BY DEF Cdiv, k
<1> HIDE DEF c, y, z
<1>4. n <= y
  BY ONLY <1>0, <1>1, <1>2, n \in Nat
<1>5. QED
  BY <1>1, <1>3, <1>4 DEF y

LEMMA MaxZero == ASSUME NEW x \in Int PROVE Max({0, x}) = IF x > 0 THEN x ELSE 0
<1> DEFINE m == IF x > 0 THEN x ELSE 0
<1>1. m \in {0, x} /\ \A y \in {0, x} : m >= y
  OBVIOUS
<1>2. \A z \in {0, x} : (\A y \in {0, x} : z >= y) => z = m
  OBVIOUS
<1> HIDE DEF m
<1>3. Max({0, x}) = m
  BY <1>1, <1>2 DEF Max
<1>4. QED
  BY <1>3 DEF m
-----------------------------------------------------------------------------
(* sfs_truncfile and sfs_io_nolock.                                        *)

LEMMA SizeGood ==
    ASSUME SfsTypeOK, NEW f \in Files, NEW s, Good(f, s), NEW len \in Nat
    PROVE  LET t == [s EXCEPT !.din.size = len, !.dirty = TRUE]
           IN  Good(f, t) /\ t.ret = s.ret /\ t.din.size = len /\ t.din.blocks = s.din.blocks
<1> DEFINE t == [s EXCEPT !.din.size = len, !.dirty = TRUE]
           ino == [s.din EXCEPT !.size = len]
           D == All(f, s)
           D2 == All(f, t)
<1>1. s \in WorkType /\ s.din \in Dinode /\ s.unused = Cardinality(s.free)
      /\ Parts(s.free, {}, Map(s.entries, D)) /\ Rows(Map(s.entries, D), D) /\ s.entries \in Table
  BY Fields DEF Good
<1>2. t = [s EXCEPT !.din = ino, !.dirty = TRUE]
  BY <1>1 DEF WorkType
<1> HIDE DEF t
<1>3. /\ ino \in Dinode /\ ino.size = len /\ ino.blocks = s.din.blocks
      /\ ino.direct = s.din.direct /\ ino.indirect = s.din.indirect
  BY <1>1 DEF Dinode
<1> HIDE DEF ino
<1>4. /\ t \in WorkType /\ t.free = s.free /\ t.unused = s.unused /\ t.entries = s.entries
      /\ t.din = ino /\ t.ret = s.ret /\ t.dirty = TRUE
  BY <1>1, <1>2, <1>3 DEF WorkType
<1>5. D \in [Files -> Dinode] /\ D[f] = s.din /\ \A g \in Files : g # f => D[g] = din[g]
  BY <1>1, AllAt
<1>6. D2 \in [Files -> Dinode] /\ D2[f] = t.din /\ \A g \in Files : g # f => D2[g] = din[g]
  BY <1>4, AllAt
<1> HIDE DEF D, D2
<1>7. \A g \in Files : /\ D2[g].direct = D[g].direct /\ D2[g].indirect = D[g].indirect
                       /\ D2[g].blocks = D[g].blocks
  BY <1>3, <1>4, <1>5, <1>6
<1>8. Map(s.entries, D2) = Map(s.entries, D)
  BY ONLY <1>1, <1>5, <1>6, <1>7, MapSame
<1>9. Rows(Map(s.entries, D2), D2)
  BY <1>1, <1>7, <1>8 DEF Rows
<1>10. Good(f, t)
  BY <1>1, <1>4, <1>8, <1>9 DEF Good, D2
<1>11. QED
  BY <1>3, <1>4, <1>10 DEF t

\* What a truncation, or an extension, to len leaves behind.
Truncated(s, len, t) ==
    /\ t.ret \notin {"hole", "index"}
    /\ t.ret = "ok" => t.din.size = len /\ len <= t.din.blocks * BlkSize
    /\ t.ret # "ok" => t.din.size = s.din.size /\ t.din.blocks >= s.din.blocks

LEMMA TruncfileGood ==
    ASSUME SfsTypeOK, NEW f \in Files, NEW s, Good(f, s), s.ret = "ok", NEW len \in Nat
    PROVE  Good(f, sfs_truncfile(s, len)) /\ Truncated(s, len, sfs_truncfile(s, len))
<1> DEFINE nblks == s.din.blocks
           tblks == Cdiv(len)
           t == IF nblks < tblks THEN load_all(s, nblks, tblks - 1) ELSE truncate_all(s, tblks)
           r == sfs_truncfile(s, len)
<1>0. nblks \in Nat /\ s.din.size \in Nat /\ tblks \in Nat /\ len <= tblks * BlkSize
  BY Fields, CdivRoom DEF Good
<1>1. r = CASE s.din.size = len /\ tblks # nblks -> [s EXCEPT !.ret = "tblks"]
            [] s.din.size = len /\ tblks = nblks -> s
            [] s.din.size # len /\ t.ret # "ok" -> t
            [] s.din.size # len /\ t.ret = "ok" -> [t EXCEPT !.din.size = len, !.dirty = TRUE]
  BY DEF sfs_truncfile
<1> HIDE DEF r, tblks, t
<1>2. CASE s.din.size = len /\ tblks # nblks
  <2>1. r = [s EXCEPT !.ret = "tblks"]
    BY <1>1, <1>2
  <2>2. "tblks" \in Results
    BY DEF Results
  <2>3. Good(f, r) /\ r.ret = "tblks" /\ r.din = s.din
    BY ONLY SfsTypeOK, f \in Files, Good(f, s), <2>1, <2>2, SameGood
  <2>4. Truncated(s, len, r)
    BY <1>0, <2>3 DEF Truncated
  <2>5. QED
    BY <2>3, <2>4 DEF r
<1>3. CASE s.din.size = len /\ tblks = nblks
  <2>1. r = s
    BY <1>1, <1>3
  <2>2. Truncated(s, len, s)
    BY <1>0, <1>3 DEF Truncated
  <2>3. QED
    BY <2>1, <2>2 DEF r
<1>4. CASE s.din.size # len
  <2>1. /\ Good(f, t) /\ t.ret \notin {"hole", "index"} /\ t.din.size = s.din.size
        /\ t.ret # "ok" => t.din.blocks >= nblks
        /\ t.ret = "ok" => t.din.blocks >= tblks
    <3>1. CASE nblks < tblks
      <4> DEFINE last == tblks - 1
      <4>1. t = load_all(s, nblks, last) /\ last \in Nat /\ nblks <= last
        BY <1>0, <3>1 DEF t
      <4> HIDE DEF last, nblks
      <4>2. Good(f, t)
        BY ONLY SfsTypeOK, f \in Files, Good(f, s), s.ret = "ok", <1>0, <4>1, LoadAllGood
      <4>3. AllLoaded(s, nblks, last, t)
        BY ONLY SfsTypeOK, f \in Files, Good(f, s), s.ret = "ok", <1>0, <4>1, LoadAllGood
      <4>4. t.din.blocks \in Nat
        BY <4>2, Fields DEF Good
      <4>5. t.ret # "index"
        BY <1>0, <4>3 DEF AllLoaded, nblks
      <4>6. QED
        BY <1>0, <4>2, <4>3, <4>4, <4>5 DEF AllLoaded, nblks, last
    <3>2. CASE ~(nblks < tblks)
      <4>1. t = truncate_all(s, tblks) /\ tblks <= nblks
        BY <1>0, <3>2 DEF t
      <4>2. Good(f, t) /\ t.ret = s.ret /\ t.din.size = s.din.size /\ t.din.blocks = tblks
        BY ONLY SfsTypeOK, f \in Files, Good(f, s), <1>0, <4>1, TruncateAllGood
      <4>3. QED
        BY <1>0, <4>2
    <3>3. QED
      BY <3>1, <3>2
  <2>2. CASE t.ret # "ok"
    <3>1. r = t
      BY <1>1, <1>4, <2>2
    <3>2. QED
      BY <2>1, <2>2, <3>1 DEF Truncated, r
  <2>3. CASE t.ret = "ok"
    <3>1. r = [t EXCEPT !.din.size = len, !.dirty = TRUE]
      BY <1>1, <1>4, <2>3
    <3>a. LET x == [t EXCEPT !.din.size = len, !.dirty = TRUE]
          IN  Good(f, x) /\ x.ret = t.ret /\ x.din.size = len /\ x.din.blocks = t.din.blocks
      BY ONLY SfsTypeOK, f \in Files, len \in Nat, <2>1, SizeGood
    <3>2. Good(f, r) /\ r.ret = t.ret /\ r.din.size = len /\ r.din.blocks = t.din.blocks
      BY ONLY <3>a, <3>1
    <3>3. r.din.blocks \in Nat
      BY <3>2, Fields DEF Good
    <3> DEFINE x == tblks * BlkSize
               y == r.din.blocks * BlkSize
    <3>4. x <= y /\ x \in Nat /\ y \in Nat
      BY <1>0, <2>1, <2>3, <3>2, <3>3, TimesMonotone
    <3>5. len <= x
      BY <1>0
    <3> HIDE DEF x, y
    <3>6. len <= y
      BY ONLY <3>4, <3>5, len \in Nat
    <3>7. QED
      BY <2>3, <3>2, <3>6 DEF Truncated, y, r
  <2>4. QED
    BY <2>2, <2>3
<1>5. QED
  BY <1>2, <1>3, <1>4

\* What a transfer leaves behind: the position it gets to is in the file, and the
\* file has blocks for its size if it had before.
Transferred(s, offset, endpos, t) ==
    /\ t.ret # "hole" /\ (t.ret = "index" => offset \div BlkSize > s.din.blocks)
    /\ t.ret \in {"ok", "E_NO_MEM"} =>
          /\ Moved(t, offset, endpos) \in Nat
          /\ offset + Moved(t, offset, endpos) <= t.din.size
          /\ s.din.size <= t.din.size
          /\ offset <= s.din.size /\ s.din.size <= s.din.blocks * BlkSize
                => t.din.size <= t.din.blocks * BlkSize

LEMMA IoGood ==
    ASSUME SfsTypeOK, NEW f \in Files, NEW s, Good(f, s), s.ret = "ok",
           NEW offset \in Nat, NEW endpos \in Nat, offset < endpos
    PROVE  Good(f, sfs_io(s, offset, endpos)) /\ Transferred(s, offset, endpos, sfs_io(s, offset, endpos))
<1> DEFINE first == offset \div BlkSize
           last == (endpos - 1) \div BlkSize
           a == load_all(s, first, last)
           m == Moved(a, offset, endpos)
           t == set_size(a, offset + m)
<1>1. first \in Nat /\ last \in Nat /\ first <= last
  <2>1. endpos - 1 \in Nat /\ offset <= endpos - 1
    OBVIOUS
  <2>2. QED
    BY <2>1, Quotient, QuotientMonotone
<1>2. sfs_io(s, offset, endpos) = t
  BY DEF sfs_io
<1>3. last < a.din.blocks /\ a.din.blocks \in Nat => endpos <= a.din.blocks * BlkSize
  <2> SUFFICES ASSUME last < a.din.blocks, a.din.blocks \in Nat PROVE endpos <= a.din.blocks * BlkSize
    OBVIOUS
  <2> DEFINE e == endpos - 1
             b == a.din.blocks
  <2>1. e \in Nat /\ e + 1 = endpos /\ e \div BlkSize < b /\ b \in Nat
    OBVIOUS
  <2> HIDE DEF e, b, a
  <2>2. e + 1 <= b * BlkSize
    BY ONLY <2>1, QuotientWithin
  <2>3. QED
    BY <2>1, <2>2 DEF b
<1> HIDE DEF first, last
<1>4. Good(f, a)
  BY ONLY SfsTypeOK, f \in Files, Good(f, s), s.ret = "ok", <1>1, LoadAllGood
<1>5. AllLoaded(s, first, last, a)
  BY ONLY SfsTypeOK, f \in Files, Good(f, s), s.ret = "ok", <1>1, LoadAllGood
<1> HIDE DEF a, m, t
<1> DEFINE b == a.din.blocks
           y == b * BlkSize
<1>6. b \in Nat /\ a.din.size \in Nat /\ s.din.size \in Nat /\ s.din.blocks \in Nat /\ y \in Nat /\ s.din.blocks <= b
      /\ a.din.size = s.din.size
  <2>1. b \in Nat /\ a.din.size \in Nat /\ s.din.size \in Nat /\ s.din.blocks \in Nat
    BY <1>4, Fields DEF Good
  <2>2. y \in Nat
    BY <2>1, TimesMonotone
  <2>3. QED
    BY <1>5, <2>1, <2>2 DEF AllLoaded
<1>7. /\ m \in Nat
      /\ a.ret = "ok" => offset + m <= y
      /\ a.ret # "ok" => (m = 0 \/ offset + m <= y)
  <2>1. CASE a.ret = "ok"
    <3>1. m = endpos - offset /\ last < b
      BY <1>5, <2>1 DEF m, Moved, AllLoaded
    <3>2. endpos <= y
      BY <1>3, <1>6, <3>1
    <3> HIDE DEF y, b
    <3>3. QED
      BY <2>1, <3>1, <3>2
  <2>2. CASE a.ret # "ok"
    <3>1. m = Max({0, y - offset})
      BY <2>2 DEF m, Moved
    <3>2. y - offset \in Int
      BY <1>6
    <3> HIDE DEF y
    <3>3. m = IF y - offset > 0 THEN y - offset ELSE 0
      BY <3>1, <3>2, MaxZero
    <3>4. QED
      BY <1>6, <2>2, <3>3
  <2>3. QED
    BY <2>1, <2>2
<1> DEFINE p == offset + m
<1>8. /\ Good(f, t) /\ t.ret = a.ret /\ t.din.blocks = b
      /\ t.din.size = IF p > s.din.size THEN p ELSE s.din.size
  <2>0. p \in Nat
    BY <1>7
  <2> HIDE DEF p
  <2>1. CASE p > s.din.size
    <3>1. t = [a EXCEPT !.din.size = p, !.dirty = TRUE]
      BY <1>6, <2>1 DEF t, set_size, p
    <3>a. LET x == [a EXCEPT !.din.size = p, !.dirty = TRUE]
          IN  Good(f, x) /\ x.ret = a.ret /\ x.din.size = p /\ x.din.blocks = a.din.blocks
      BY ONLY SfsTypeOK, f \in Files, <1>4, <2>0, SizeGood
    <3>2. Good(f, t) /\ t.ret = a.ret /\ t.din.size = p /\ t.din.blocks = a.din.blocks
      BY ONLY <3>a, <3>1
    <3>3. QED
      BY <2>1, <3>2
  <2>2. CASE ~(p > s.din.size)
    <3>1. t = a
      BY <1>6, <2>2 DEF t, set_size, p
    <3>2. QED
      BY <1>4, <1>6, <2>2, <3>1
  <2>3. QED
    BY <2>1, <2>2
<1>9. Moved(t, offset, endpos) = m
  BY <1>8 DEF Moved, m
<1>10. s.din.blocks * BlkSize <= y /\ s.din.blocks * BlkSize \in Nat
  BY <1>6, TimesMonotone
<1>11. t.ret # "hole" /\ (t.ret = "index" => first > s.din.blocks)
  BY <1>5, <1>8 DEF AllLoaded
<1>12. offset <= s.din.size /\ s.din.size <= s.din.blocks * BlkSize => t.din.size <= t.din.blocks * BlkSize
  <2> DEFINE w == s.din.blocks * BlkSize
             z == t.din.size
             k == s.din.size
  <2>1. t.din.blocks * BlkSize = y
    BY <1>8
  <2>2. w <= y /\ w \in Nat /\ y \in Nat /\ k \in Nat /\ z = IF p > k THEN p ELSE k
    BY <1>6, <1>8, <1>10
  <2> HIDE DEF w, z, y, k
  <2>3. offset <= k /\ k <= w => z <= y
    BY ONLY <1>7, <2>2, offset \in Nat
  <2>4. QED
    BY <2>1, <2>3 DEF w, z, k
<1>13. m \in Nat /\ p <= t.din.size /\ s.din.size <= t.din.size
  BY <1>6, <1>7, <1>8
<1>14. Transferred(s, offset, endpos, t)
  BY <1>9, <1>11, <1>12, <1>13 DEF Transferred, first
<1>15. QED
  BY <1>2, <1>8, <1>14
-----------------------------------------------------------------------------
(* The steps.                                                              *)

\* An operation starts from what the invariant says.
LEMMA WorkGood ==
    ASSUME SfsInv, NEW f \in Files
    PROVE  /\ Good(f, Work(f)) /\ Work(f).ret = "ok" /\ Work(f).din = din[f] /\ Work(f).dirty = dirty[f]
           /\ din[f] \in Dinode /\ din[f].size \in Nat /\ din[f].blocks \in Nat
<1> DEFINE s == Work(f)
<1>0. SfsTypeOK
  BY DEF SfsInv
<1>1. /\ freemap \in SUBSET Block /\ unused_blocks \in Int /\ entries \in Table
      /\ din[f] \in Dinode /\ dirty[f] \in BOOLEAN /\ din \in [Files -> Dinode]
  BY <1>0 DEF SfsTypeOK
<1>2. "ok" \in Results /\ 0 \in {0} \cup Block
  BY DEF Results
<1>3. /\ s \in WorkType /\ s.ret = "ok" /\ s.din = din[f] /\ s.dirty = dirty[f]
      /\ s.free = freemap /\ s.unused = unused_blocks /\ s.entries = entries
  BY <1>1, <1>2 DEF Work, WorkType
<1> HIDE DEF s
<1>4. All(f, s) = din
  BY <1>1, <1>3 DEF All
<1>5. Good(f, s)
  BY <1>1, <1>3, <1>4 DEF Good, SfsInv, DiskCurrent
<1>6. din[f].size \in Nat /\ din[f].blocks \in Nat
  BY <1>1 DEF Dinode
<1>7. QED
  BY <1>1, <1>3, <1>5, <1>6 DEF s

\* What the end of an operation on f with result s and descriptors fds has to show.
Ends(f, s, fds) ==
    /\ Good(f, s) /\ s.ret # "hole" /\ (s.ret = "index" => f \in cut)
    /\ s.ret \in {"ok", "E_NO_MEM"} =>
          /\ fds \in [Fds -> Descr \cup {NONE}]
          /\ \A d \in Fds : fds[d] # NONE => fds[d].node = f \/ fds[d] = fd[d]
          /\ f \notin cut' =>
                /\ s.din.size <= s.din.blocks * BlkSize
                /\ \A d \in Fds : fds[d] # NONE /\ fds[d].node = f => fds[d].pos <= s.din.size

LEMMA DoneStep ==
    ASSUME SfsInv, NEW f \in Files, NEW s, NEW fds, Ends(f, s, fds), Done(f, s, fds),
           fate = "ok", \A g \in cut : g \in cut'
    PROVE  SfsInv'
<1>0. SfsTypeOK /\ Good(f, s) /\ s \in WorkType
  BY DEF SfsInv, Ends, Good
<1>1. CASE s.ret \in {"ok", "E_NO_MEM"}
  <2>1. /\ freemap' = s.free /\ unused_blocks' = s.unused /\ entries' = s.entries
        /\ din' = [din EXCEPT ![f] = s.din] /\ dirty' = [dirty EXCEPT ![f] = s.dirty]
        /\ fd' = fds /\ held' = held /\ disk' = disk /\ fate' = fate
    BY <1>1 DEF Done
  <2>2. /\ din' = All(f, s) /\ din' \in [Files -> Dinode] /\ din'[f] = s.din
        /\ \A g \in Files : g # f => din'[g] = din[g]
    BY <1>0, <2>1, AllAt DEF All
  <2>3. dirty' \in [Files -> BOOLEAN] /\ dirty'[f] = s.dirty /\ \A g \in Files : g # f => dirty'[g] = dirty[g]
    BY <1>0, <2>1, Fields DEF SfsTypeOK
  <2>4. /\ fds \in [Fds -> Descr \cup {NONE}]
        /\ \A d \in Fds : fds[d] # NONE => fds[d].node = f \/ fds[d] = fd[d]
        /\ f \notin cut' =>
              /\ s.din.size <= s.din.blocks * BlkSize
              /\ \A d \in Fds : fds[d] # NONE /\ fds[d].node = f => fds[d].pos <= s.din.size
    BY <1>1 DEF Ends
  <2>5. SfsTypeOK'
    BY <1>0, <2>1, <2>2, <2>3, <2>4, Fields DEF SfsTypeOK
  <2>6. /\ Parts(freemap', {}, Map(entries', din')) /\ unused_blocks' = Cardinality(freemap')
        /\ Rows(Map(entries', din'), din')
    <3>1. /\ Parts(s.free, {}, Map(s.entries, All(f, s))) /\ s.unused = Cardinality(s.free)
          /\ Rows(Map(s.entries, All(f, s)), All(f, s))
      BY <1>0 DEF Good
    <3>2. QED
      BY ONLY <2>1, <2>2, <3>1
  <2>7. /\ Parts(freemap, {}, Map(entries, din))' /\ unused_blocks' = Cardinality(freemap')
        /\ Rows(Map(entries, din), din)'
    <3>1. held' = held
      BY <2>1
    <3>2. Parts(freemap, {}, Map(entries, din))'
      BY ONLY <2>6, <3>1 DEF Parts
    <3>3. QED
      BY <2>6, <3>2
  <2>8. DiskCurrent'
    <3> SUFFICES ASSUME NEW g \in Files, ~dirty'[g]
                 PROVE  /\ Synced(disk[g], din'[g])
                        /\ g \notin cut' => disk[g].size <= disk[g].blocks * BlkSize
      BY <2>1 DEF DiskCurrent, Synced
    <3>1. ~dirty[g] /\ Synced(disk[g], din'[g])
      <4>1. CASE g = f
        BY <1>0, <2>2, <2>3, <4>1 DEF Good
      <4>2. CASE g # f
        BY <2>2, <2>3, <4>2 DEF SfsInv, DiskCurrent
      <4>3. QED
        BY <4>1, <4>2
    <3>2. g \notin cut => disk[g].size <= disk[g].blocks * BlkSize
      BY <3>1 DEF SfsInv, DiskCurrent
    <3>3. QED
      BY <3>1, <3>2
  <2>9. FdWithinFile'
    <3> SUFFICES ASSUME NEW g \in Files, g \notin cut'
                 PROVE  /\ din'[g].size <= din'[g].blocks * BlkSize
                        /\ \A d \in Fds : fds[d] # NONE /\ fds[d].node = g => fds[d].pos <= din'[g].size
      BY <2>1 DEF FdWithinFile, Users, Open
    <3>1. CASE g = f
      BY <2>2, <2>4, <3>1
    <3>2. CASE g # f
      <4>1. /\ din[g].size <= din[g].blocks * BlkSize
            /\ \A d \in Fds : fd[d] # NONE /\ fd[d].node = g => fd[d].pos <= din[g].size
        BY DEF SfsInv, FdWithinFile, Users, Open
      <4>2. din'[g] = din[g]
        BY <2>2, <3>2
      <4>3. QED
        BY <2>4, <3>2, <4>1, <4>2
    <3>3. QED
      BY <3>1, <3>2
  <2>10. PanicsExplained'
    BY <2>1 DEF PanicsExplained
  <2>11. QED
    BY <2>5, <2>7, <2>8, <2>9, <2>10 DEF SfsInv
<1>2. CASE ~(s.ret \in {"ok", "E_NO_MEM"})
  <2>1. /\ fate' = s.ret
        /\ UNCHANGED <<held, freemap, unused_blocks, entries, disk, din, dirty, fd>>
    BY <1>2 DEF Done
  <2>2. SfsTypeOK'
    BY <1>0, <2>1 DEF SfsTypeOK
  <2>3. /\ Parts(freemap, {}, Map(entries, din))' /\ unused_blocks' = Cardinality(freemap')
        /\ Rows(Map(entries, din), din)'
    <3>1. /\ Parts(freemap, {}, Map(entries, din)) /\ unused_blocks = Cardinality(freemap)
          /\ Rows(Map(entries, din), din)
      BY DEF SfsInv
    <3>2. /\ Parts(freemap', {}, Map(entries', din')) /\ unused_blocks' = Cardinality(freemap')
          /\ Rows(Map(entries', din'), din') /\ held' = held
      BY ONLY <2>1, <3>1
    <3>3. Parts(freemap, {}, Map(entries, din))'
      BY ONLY <3>2 DEF Parts
    <3>4. QED
      BY <3>2, <3>3
  <2>4. DiskCurrent' /\ FdWithinFile'
    BY <2>1 DEF SfsInv, DiskCurrent, FdWithinFile, Users, Open, Synced
  <2>5. PanicsExplained'
    BY <2>1 DEF Ends, PanicsExplained
  <2>6. QED
    BY <2>2, <2>3, <2>4, <2>5 DEF SfsInv
<1>3. QED
  BY <1>1, <1>2

\* A descriptor that is open names a file, and is within it unless the file was cut.
LEMMA OpenFile ==
    ASSUME SfsInv, NEW d \in Fds, Open(d)
    PROVE  /\ fd[d] \in Descr /\ fd[d].node \in Files /\ fd[d].pos \in Nat
           /\ fd[d].node \notin cut => fd[d].pos <= din[fd[d].node].size
<1>1. fd[d] \in Descr /\ fd[d].node \in Files /\ fd[d].pos \in Nat
  BY DEF SfsInv, SfsTypeOK, Open, Descr
<1>2. QED
  BY <1>1 DEF SfsInv, FdWithinFile, Users

\* A file that was not cut has blocks for its size, and all its descriptors are within it.
LEMMA Within ==
    ASSUME SfsInv, NEW f \in Files, f \notin cut
    PROVE  /\ din[f].size <= din[f].blocks * BlkSize
           /\ \A e \in Fds : fd[e] # NONE /\ fd[e].node = f => fd[e].pos <= din[f].size
  BY DEF SfsInv, FdWithinFile, Users, Open

\* A descriptor of f moves to p; no descriptor of another file changes.
Moves(d, p, fds) ==
    /\ fds \in [Fds -> Descr \cup {NONE}]
    /\ fds[d].node = fd[d].node /\ fds[d].pos = p
    /\ \A e \in Fds : e # d => fds[e] = fd[e]

LEMMA Repositioned ==
    ASSUME SfsInv, NEW d \in Fds, Open(d), NEW p \in Nat
    PROVE  Moves(d, p, [fd EXCEPT ![d].pos = p])
<1>1. fd[d] \in Descr /\ fd \in [Fds -> Descr \cup {NONE}]
  BY OpenFile DEF SfsInv, SfsTypeOK
<1>2. [fd[d] EXCEPT !.pos = p] \in Descr /\ [fd[d] EXCEPT !.pos = p].node = fd[d].node
      /\ [fd[d] EXCEPT !.pos = p].pos = p
  BY <1>1 DEF Descr
<1>3. [fd EXCEPT ![d].pos = p] = [fd EXCEPT ![d] = [fd[d] EXCEPT !.pos = p]]
  BY <1>1
<1>4. QED
  BY <1>1, <1>2, <1>3 DEF Moves

\* Reading and writing.
LEMMA IoStep ==
    ASSUME SfsInv, NEW d \in Fds, Open(d), NEW endpos \in Nat, fd[d].pos < endpos, fate = "ok",
           NEW t, t = sfs_io(Work(fd[d].node), fd[d].pos, endpos),
           Done(fd[d].node, t, [fd EXCEPT ![d].pos = fd[d].pos + Moved(t, fd[d].pos, endpos)]),
           UNCHANGED cut
    PROVE  SfsInv'
<1> DEFINE f == fd[d].node
           pos == fd[d].pos
           s == Work(f)
           p == pos + Moved(t, pos, endpos)
           fds == [fd EXCEPT ![d].pos = p]
<1>0. SfsTypeOK /\ f \in Files /\ pos \in Nat /\ (f \notin cut => pos <= din[f].size)
  BY OpenFile DEF SfsInv
<1> HIDE DEF f, pos, s, p, fds
<1>1. /\ Good(f, s) /\ s.ret = "ok" /\ s.din = din[f]
      /\ din[f].size \in Nat /\ din[f].blocks \in Nat
  BY <1>0, WorkGood DEF s
<1>2. t = sfs_io(s, pos, endpos) /\ Done(f, t, fds) /\ pos < endpos
  BY DEF f, pos, s, p, fds
<1>3. Good(f, t) /\ Transferred(s, pos, endpos, t)
  BY ONLY <1>0, <1>1, <1>2, endpos \in Nat, IoGood
<1>4. f \notin cut => /\ din[f].size <= din[f].blocks * BlkSize
                      /\ \A e \in Fds : fd[e] # NONE /\ fd[e].node = f => fd[e].pos <= din[f].size
  BY <1>0, Within
<1>5. t.ret = "index" => f \in cut
  <2> SUFFICES ASSUME f \notin cut PROVE ~(pos \div BlkSize > din[f].blocks)
    BY <1>1, <1>3 DEF Transferred
  <2> DEFINE b == din[f].blocks
             y == b * BlkSize
             q == pos \div BlkSize
             z == din[f].size
  <2>1. pos <= z /\ z <= y /\ b \in Nat /\ y \in Nat /\ q \in Nat /\ z \in Nat
    BY <1>0, <1>1, <1>4, TimesMonotone, Quotient
  <2>2. pos <= y => q <= b
    BY <1>0, <2>1, QuotientWithin
  <2> HIDE DEF b, y, q, z
  <2>3. ~(q > b)
    BY ONLY <1>0, <2>1, <2>2
  <2>4. QED
    BY <2>3 DEF q, b
<1>6. ASSUME t.ret \in {"ok", "E_NO_MEM"}
      PROVE  /\ fds \in [Fds -> Descr \cup {NONE}]
             /\ \A e \in Fds : fds[e] # NONE => fds[e].node = f \/ fds[e] = fd[e]
             /\ f \notin cut' =>
                   /\ t.din.size <= t.din.blocks * BlkSize
                   /\ \A e \in Fds : fds[e] # NONE /\ fds[e].node = f => fds[e].pos <= t.din.size
  <2>1. /\ Moved(t, pos, endpos) \in Nat /\ p <= t.din.size /\ din[f].size <= t.din.size
        /\ pos <= din[f].size /\ din[f].size <= din[f].blocks * BlkSize
              => t.din.size <= t.din.blocks * BlkSize
    BY <1>1, <1>3, <1>6 DEF Transferred, p
  <2>2. p \in Nat /\ fds = [fd EXCEPT ![d].pos = p]
    BY <1>0, <2>1 DEF p, fds
  <2>3. /\ fds \in [Fds -> Descr \cup {NONE}]
        /\ fds[d].node = fd[d].node /\ fds[d].pos = p
        /\ \A e \in Fds : e # d => fds[e] = fd[e]
    <3>1. Moves(d, p, fds)
      BY <2>2, Repositioned
    <3>2. QED
      BY <3>1 DEF Moves
  <2>4. t.din.size \in Nat
    BY <1>3, Fields DEF Good
  <2>5. \A e \in Fds : fds[e] # NONE => fds[e].node = f \/ fds[e] = fd[e]
    BY <2>3 DEF f
  <2>6. ASSUME f \notin cut, NEW e \in Fds, fds[e] # NONE, fds[e].node = f PROVE fds[e].pos <= t.din.size
    <3>1. CASE e = d
      BY <2>1, <2>3, <3>1
    <3>2. CASE e # d
      <4>1. fds[e] = fd[e] /\ fd[e].pos <= din[f].size
        BY <1>4, <2>3, <2>6, <3>2
      <4>2. fd[e].pos \in Nat
        BY <2>6, <4>1, OpenFile DEF Open
      <4>3. QED
        BY <1>1, <2>1, <2>4, <4>1, <4>2
    <3>3. QED
      BY <3>1, <3>2
  <2>7. f \notin cut => t.din.size <= t.din.blocks * BlkSize
    BY <1>0, <1>4, <2>1
  <2>8. QED
    BY <2>3, <2>5, <2>6, <2>7
<1>7. Ends(f, t, fds)
  <2>1. t.ret # "hole"
    BY <1>3 DEF Transferred
  <2>2. QED
    BY <1>3, <1>5, <1>6, <2>1 DEF Ends
<1>8. \A g \in cut : g \in cut'
  OBVIOUS
<1>9. QED
  BY ONLY SfsInv, fate = "ok", <1>0, <1>2, <1>7, <1>8, DoneStep

LEMMA Minimum == ASSUME NEW a \in Nat, NEW b \in Nat PROVE Min({a, b}) \in {a, b}
<1>1. {a, b} \in SUBSET Nat /\ {a, b} # {}
  OBVIOUS
<1>2. QED
  BY <1>1, LeastElement

LEMMA WriteStep ==
    ASSUME SfsInv, NEW d \in Fds, NEW len \in 1..BlkSize, file_write(d, len)
    PROVE  SfsInv'
<1> DEFINE f == fd[d].node
           pos == fd[d].pos
           endpos == Min({pos + len, MaxFileSize})
           t == sfs_io(Work(f), pos, endpos)
<1>1. /\ fate = "ok" /\ Open(d) /\ pos < MaxFileSize
      /\ Done(f, t, [fd EXCEPT ![d].pos = pos + Moved(t, pos, endpos)]) /\ UNCHANGED cut
  BY DEF file_write
<1>2. pos \in Nat
  BY <1>1, OpenFile
<1>3. endpos \in Nat /\ pos < endpos
  <2>1. MaxFileSize \in Nat /\ pos + len \in Nat /\ pos < pos + len
    BY <1>2, Numbers, SfsAssumption
  <2>2. endpos \in {pos + len, MaxFileSize}
    BY <2>1, Minimum
  <2> HIDE DEF endpos
  <2>3. QED
    BY <1>1, <2>1, <2>2
<1> HIDE DEF endpos
<1>4. QED
  BY <1>1, <1>3, IoStep

LEMMA ReadStep ==
    ASSUME SfsInv, NEW d \in Fds, NEW len \in 1..BlkSize, file_read(d, len)
    PROVE  SfsInv'
<1> DEFINE f == fd[d].node
           pos == fd[d].pos
           endpos == Min({pos + len, din[f].size})
           t == sfs_io(Work(f), pos, endpos)
<1>1. /\ fate = "ok" /\ Open(d) /\ pos < din[f].size
      /\ Done(f, t, [fd EXCEPT ![d].pos = pos + Moved(t, pos, endpos)]) /\ UNCHANGED cut
  BY DEF file_read
<1>2. pos \in Nat /\ din[f].size \in Nat
  BY <1>1, OpenFile, WorkGood
<1>3. endpos \in Nat /\ pos < endpos
  <2>1. pos + len \in Nat /\ pos < pos + len
    BY <1>2, Numbers
  <2>2. endpos \in {pos + len, din[f].size}
    BY <1>2, <2>1, Minimum
  <2> HIDE DEF endpos
  <2>3. QED
    BY <1>1, <1>2, <2>1, <2>2
<1> HIDE DEF endpos
<1>4. QED
  BY <1>1, <1>3, IoStep

LEMMA SeekStep ==
    ASSUME SfsInv, NEW d \in Fds, NEW pos \in 0..MaxFileSize, file_seek(d, pos)
    PROVE  SfsInv'
<1> DEFINE f == fd[d].node
           s == Work(f)
           t == sfs_tryseek(s, pos)
           fds == IF t.ret = "ok" THEN [fd EXCEPT ![d].pos = pos] ELSE fd
<1>1. fate = "ok" /\ Open(d) /\ Done(f, t, fds) /\ UNCHANGED cut /\ pos \in Nat
  BY SfsAssumption DEF file_seek
<1>0. SfsTypeOK /\ f \in Files
  BY <1>1, OpenFile DEF SfsInv
<1> HIDE DEF f
<1>2. /\ Good(f, s) /\ s.ret = "ok" /\ s.din = din[f]
      /\ din[f].size \in Nat /\ din[f].blocks \in Nat
  BY <1>0, WorkGood
<1> HIDE DEF s
<1>3. f \notin cut => /\ din[f].size <= din[f].blocks * BlkSize
                      /\ \A e \in Fds : fd[e] # NONE /\ fd[e].node = f => fd[e].pos <= din[f].size
  BY <1>0, Within
<1>4. /\ Good(f, t) /\ t.ret \notin {"hole", "index"} /\ din[f].size <= t.din.size
      /\ t.ret = "ok" => pos <= t.din.size
      /\ din[f].size <= din[f].blocks * BlkSize => t.din.size <= t.din.blocks * BlkSize
  <2>1. CASE pos > s.din.size
    <3>1. t = sfs_truncfile(s, pos)
      BY <2>1 DEF sfs_tryseek
    <3> HIDE DEF t
    <3>2. Good(f, t) /\ Truncated(s, pos, t)
      BY ONLY <1>0, <1>1, <1>2, <3>1, TruncfileGood
    <3>3. t.din.blocks \in Nat /\ t.din.size \in Nat
      BY <3>2, Fields DEF Good
    <3>4. CASE t.ret = "ok"
      <4>1. t.din.size = pos /\ pos <= t.din.blocks * BlkSize
        BY <3>2, <3>4 DEF Truncated
      <4>2. QED
        BY <1>1, <1>2, <2>1, <3>2, <3>4, <4>1
    <3>5. CASE t.ret # "ok"
      <4>1. t.din.size = din[f].size /\ t.din.blocks >= din[f].blocks /\ t.ret \notin {"hole", "index"}
        BY <1>2, <3>2, <3>5 DEF Truncated
      <4> DEFINE w == din[f].blocks * BlkSize
                 y == t.din.blocks * BlkSize
      <4>2. w <= y /\ w \in Nat /\ y \in Nat
        BY <1>2, <3>3, <4>1, TimesMonotone
      <4> HIDE DEF w, y
      <4>3. din[f].size <= w => t.din.size <= y
        BY <1>2, <4>1, <4>2
      <4>4. QED
        BY <1>2, <3>2, <3>5, <4>1, <4>3 DEF w, y
    <3>6. QED
      BY <3>4, <3>5 DEF t
  <2>2. CASE ~(pos > s.din.size)
    <3>1. t = s
      BY <2>2 DEF sfs_tryseek
    <3>2. pos <= din[f].size
      BY <1>1, <1>2, <2>2
    <3>3. QED
      BY <1>2, <3>1, <3>2
  <2>3. QED
    BY <2>1, <2>2
<1> HIDE DEF t
<1>5. /\ fds \in [Fds -> Descr \cup {NONE}]
      /\ fds[d].node = fd[d].node /\ (fds[d].pos = fd[d].pos \/ (fds[d].pos = pos /\ t.ret = "ok"))
      /\ \A e \in Fds : e # d => fds[e] = fd[e]
  <2>1. CASE t.ret = "ok"
    <3>1. Moves(d, pos, fds)
      BY <1>1, <2>1, Repositioned
    <3>2. QED
      BY <2>1, <3>1 DEF Moves
  <2>2. CASE t.ret # "ok"
    BY <1>0, <2>2 DEF SfsTypeOK
  <2>3. QED
    BY <2>1, <2>2
<1> HIDE DEF fds
<1>6. ASSUME f \notin cut, NEW e \in Fds, fds[e] # NONE, fds[e].node = f PROVE fds[e].pos <= t.din.size
  <2>0. t.din.size \in Nat
    BY <1>4, Fields DEF Good
  <2>1. CASE fds[e].pos = pos /\ t.ret = "ok"
    BY <1>4, <2>1
  <2>2. CASE fds[e].pos = fd[e].pos
    <3>1. fd[e] # NONE /\ fd[e].node = f
      BY <1>1, <1>5, <1>6 DEF f, Open
    <3>2. fd[e].pos <= din[f].size /\ fd[e].pos \in Nat
      BY <1>3, <1>6, <3>1, OpenFile DEF Open
    <3>3. QED
      BY <1>2, <1>4, <2>0, <2>2, <3>2
  <2>3. QED
    BY <1>5, <2>1, <2>2
<1>7. \A e \in Fds : fds[e] # NONE => fds[e].node = f \/ fds[e] = fd[e]
  BY <1>5 DEF f
<1>8. Ends(f, t, fds)
  BY <1>1, <1>3, <1>4, <1>5, <1>6, <1>7 DEF Ends
<1>9. \A g \in cut : g \in cut'
  BY <1>1
<1>10. QED
  BY ONLY SfsInv, <1>0, <1>1, <1>8, <1>9, DoneStep

LEMMA OpenStep ==
    ASSUME SfsInv, NEW d \in Fds, NEW f \in Files, NEW flags \in OpenFlags, file_open(d, f, flags)
    PROVE  SfsInv'
<1> DEFINE s == Work(f)
           t == IF flags \cap {"TRUNC", "CREAT"} # {} THEN sfs_truncfile(s, 0) ELSE s
           p == IF "APPEND" \in flags THEN t.din.size ELSE 0
           fds == [fd EXCEPT ![d] = [node |-> f, pos |-> p]]
<1>1. /\ fate = "ok" /\ Done(f, t, fds)
      /\ cut' = IF t.din.size < din[f].size /\ \E e \in Users(f) : fd[e].pos > t.din.size
                THEN cut \cup {f} ELSE cut
  BY DEF file_open
<1>0. SfsTypeOK
  BY DEF SfsInv
<1>2. /\ Good(f, s) /\ s.ret = "ok" /\ s.din = din[f]
      /\ din[f].size \in Nat /\ din[f].blocks \in Nat
  BY WorkGood
<1> HIDE DEF s
<1>3. f \notin cut => /\ din[f].size <= din[f].blocks * BlkSize
                      /\ \A e \in Fds : fd[e] # NONE /\ fd[e].node = f => fd[e].pos <= din[f].size
  BY Within
<1>4. /\ Good(f, t) /\ t.ret \notin {"hole", "index"}
      /\ din[f].size <= din[f].blocks * BlkSize => t.din.size <= t.din.blocks * BlkSize
  <2>1. CASE t = sfs_truncfile(s, 0)
    <3> HIDE DEF t
    <3>0. 0 \in Nat
      OBVIOUS
    <3>1. Good(f, t) /\ Truncated(s, 0, t)
      BY ONLY f \in Files, <1>0, <1>2, <2>1, <3>0, TruncfileGood
    <3>2. t.din.blocks \in Nat
      BY <3>1, Fields DEF Good
    <3>3. CASE t.ret = "ok"
      BY <3>1, <3>3 DEF Truncated
    <3>4. CASE t.ret # "ok"
      <4>1. t.din.size = din[f].size /\ t.din.blocks >= din[f].blocks /\ t.ret \notin {"hole", "index"}
        BY <1>2, <3>1, <3>4 DEF Truncated
      <4> DEFINE w == din[f].blocks * BlkSize
                 y == t.din.blocks * BlkSize
      <4>2. w <= y /\ w \in Nat /\ y \in Nat
        BY <1>2, <3>2, <4>1, TimesMonotone
      <4> HIDE DEF w, y
      <4>3. din[f].size <= w => t.din.size <= y
        BY <1>2, <4>1, <4>2
      <4>4. QED
        BY <3>1, <4>1, <4>3 DEF w, y
    <3>5. QED
      BY <3>3, <3>4
  <2>2. CASE t = s
    <3> HIDE DEF t
    <3>1. QED
      BY <1>2, <2>2
  <2>3. QED
    BY <2>1, <2>2
<1> HIDE DEF t
<1>5. t.din.size \in Nat
  BY <1>4, Fields DEF Good
<1>6. p \in Nat /\ p <= t.din.size
  BY <1>5
<1> HIDE DEF p
<1>7. /\ fds \in [Fds -> Descr \cup {NONE}] /\ fds[d].node = f /\ fds[d].pos = p
      /\ \A e \in Fds : e # d => fds[e] = fd[e]
  BY <1>0, <1>6 DEF SfsTypeOK, Descr
<1> HIDE DEF fds
<1>8. (f \notin cut' => f \notin cut) /\ \A g \in cut : g \in cut'
  BY <1>1
<1>9. ASSUME f \notin cut', NEW e \in Fds, fds[e] # NONE, fds[e].node = f PROVE fds[e].pos <= t.din.size
  <2>1. CASE e = d
    BY <1>6, <1>7, <2>1
  <2>2. CASE e # d
    <3>1. fds[e] = fd[e] /\ fd[e] # NONE /\ fd[e].node = f
      BY <1>7, <1>9, <2>2
    <3>2. fd[e].pos \in Nat /\ fd[e].pos <= din[f].size /\ e \in Users(f)
      BY <1>3, <1>8, <1>9, <3>1, OpenFile DEF Open, Users
    <3>3. ~(t.din.size < din[f].size /\ fd[e].pos > t.din.size)
      BY <1>1, <1>9, <3>2
    <3>4. QED
      BY <1>2, <1>5, <3>1, <3>2, <3>3
  <2>3. QED
    BY <2>1, <2>2
<1>10. \A e \in Fds : fds[e] # NONE => fds[e].node = f \/ fds[e] = fd[e]
  BY <1>7
<1>11. Ends(f, t, fds)
  BY <1>3, <1>4, <1>7, <1>8, <1>9, <1>10 DEF Ends
<1>12. QED
  BY ONLY SfsInv, f \in Files, <1>1, <1>8, <1>11, DoneStep

\* Steps that leave blocks and inodes in memory alone.
LEMMA BlocksKept ==
    ASSUME SfsInv, UNCHANGED <<held, freemap, unused_blocks, entries, din>>
    PROVE  /\ Parts(freemap, {}, Map(entries, din))' /\ unused_blocks' = Cardinality(freemap')
           /\ Rows(Map(entries, din), din)'
<1>1. /\ Parts(freemap, {}, Map(entries, din)) /\ unused_blocks = Cardinality(freemap)
      /\ Rows(Map(entries, din), din)
  BY DEF SfsInv
<1>2. /\ Parts(freemap', {}, Map(entries', din')) /\ held' = held
      /\ unused_blocks' = Cardinality(freemap') /\ Rows(Map(entries', din'), din')
  BY ONLY <1>1, UNCHANGED <<held, freemap, unused_blocks, entries, din>>
<1>3. Parts(freemap, {}, Map(entries, din))'
  BY ONLY <1>2 DEF Parts
<1>4. QED
  BY <1>2, <1>3

\* The blocks of f after its inode in memory was replaced by one that may stand for it.
LEMMA Replaced ==
    ASSUME SfsInv, NEW f \in Files, NEW ino \in Dinode, Synced(ino, din[f]),
           NEW D, D = [din EXCEPT ![f] = ino]
    PROVE  /\ D \in [Files -> Dinode] /\ D[f] = ino /\ (\A g \in Files : g # f => D[g] = din[g])
           /\ Map(entries, D) = Map(entries, din)
           /\ Rows(Map(entries, D), D)
<1>0. din \in [Files -> Dinode] /\ entries \in Table
  BY DEF SfsInv, SfsTypeOK
<1>1. D \in [Files -> Dinode] /\ D[f] = ino /\ \A g \in Files : g # f => D[g] = din[g]
  BY <1>0
<1>2. \A g \in Files : D[g].direct = din[g].direct /\ D[g].indirect = din[g].indirect
  BY <1>1 DEF Synced
<1>3. Map(entries, D) = Map(entries, din)
  BY ONLY <1>0, <1>1, <1>2, MapSame
<1> DEFINE M == Map(entries, din)
<1>4. \A g \in Files : Row(M, g, din[g].blocks)
  BY DEF SfsInv, Rows
<1> HIDE DEF M
<1>5. ASSUME NEW g \in Files PROVE Row(M, g, D[g].blocks)
  <2>1. CASE g # f
    BY <1>1, <1>4, <2>1
  <2>2. CASE g = f
    <3> DEFINE m == ino.blocks
               n == din[f].blocks
    <3>1. m \in Nat /\ n \in Nat /\ m <= n /\ (m = n \/ NDirect <= m) /\ NDirect \in Nat
      BY <1>0, Numbers DEF Dinode, Synced
    <3>2. Row(M, f, n) /\ D[f].blocks = m
      BY <1>1, <1>4
    <3> HIDE DEF m, n
    <3>3. Row(M, f, m)
      BY <3>1, <3>2 DEF Row
    <3>4. QED
      BY <2>2, <3>2, <3>3
  <2>3. QED
    BY <2>1, <2>2
<1>6. Rows(M, D)
  BY <1>5 DEF Rows
<1>7. QED
  BY <1>1, <1>3, <1>6 DEF M

LEMMA CloseStep ==
    ASSUME SfsInv, NEW d \in Fds, file_close(d)
    PROVE  SfsInv'
<1> DEFINE f == fd[d].node
<1>0. /\ fate = "ok" /\ Open(d) /\ fd' = [fd EXCEPT ![d] = NONE]
      /\ UNCHANGED <<held, freemap, unused_blocks, entries, fate, cut>>
  BY DEF file_close
<1>1. SfsTypeOK /\ f \in Files
  BY <1>0, OpenFile DEF SfsInv
<1> HIDE DEF f
<1>2. /\ fd' \in [Fds -> Descr \cup {NONE}] /\ fd'[d] = NONE
      /\ \A e \in Fds : e # d => fd'[e] = fd[e]
  BY <1>0, <1>1 DEF SfsTypeOK
<1>3. CASE Users(f) = {d}
  <2> DEFINE ino == IF dirty[f] THEN din[f] ELSE disk[f]
  <2>1. disk' = written_back(f) /\ din' = [din EXCEPT ![f] = disk'[f]] /\ dirty' = [dirty EXCEPT ![f] = FALSE]
    BY <1>3 DEF file_close, f
  <2>2. /\ disk \in [Files -> Dinode] /\ din \in [Files -> Dinode] /\ dirty \in [Files -> BOOLEAN]
        /\ disk[f] \in Dinode /\ din[f] \in Dinode
    BY <1>1 DEF SfsTypeOK
  <2>3. /\ disk' \in [Files -> Dinode] /\ disk'[f] = ino /\ \A g \in Files : g # f => disk'[g] = disk[g]
    BY <1>1, <2>1, <2>2 DEF written_back
  <2>4. Synced(ino, din[f]) /\ Synced(ino, ino) /\ ino \in Dinode
    <3>1. \A x \in Dinode : Synced(x, x)
      BY DEF Synced, Dinode
    <3>2. ~dirty[f] => Synced(disk[f], din[f])
      BY <1>1 DEF SfsInv, DiskCurrent
    <3>3. QED
      BY <2>2, <3>1, <3>2
  <2>5. f \notin cut => ino.size <= ino.blocks * BlkSize
    BY <1>1, Within DEF SfsInv, DiskCurrent
  <2> HIDE DEF ino
  <2>6. din' = [din EXCEPT ![f] = ino]
    BY <2>1, <2>3
  <2>7. /\ din' \in [Files -> Dinode] /\ din'[f] = ino /\ (\A g \in Files : g # f => din'[g] = din[g])
        /\ Map(entries, din') = Map(entries, din)
        /\ Rows(Map(entries, din'), din')
    <3> DEFINE D == [din EXCEPT ![f] = ino]
    <3>1. D = [din EXCEPT ![f] = ino]
      OBVIOUS
    <3> HIDE DEF D
    <3>2. /\ D \in [Files -> Dinode] /\ D[f] = ino /\ (\A g \in Files : g # f => D[g] = din[g])
      BY ONLY <1>1, <2>2, <2>4, <3>1
    <3>3. Map(entries, D) = Map(entries, din)
      BY ONLY SfsInv, <1>1, <2>4, <3>1, Replaced
    <3>4. Rows(Map(entries, D), D)
      BY ONLY SfsInv, <1>1, <2>4, <3>1, Replaced
    <3>5. QED
      BY ONLY <2>6, <3>1, <3>2, <3>3, <3>4
  <2>8. dirty' \in [Files -> BOOLEAN] /\ dirty'[f] = FALSE /\ \A g \in Files : g # f => dirty'[g] = dirty[g]
    BY <1>1, <2>1, <2>2
  <2>9. SfsTypeOK'
    BY <1>0, <1>1, <1>2, <2>3, <2>7, <2>8 DEF SfsTypeOK
  <2>10. /\ Parts(freemap, {}, Map(entries, din))' /\ unused_blocks' = Cardinality(freemap')
         /\ Rows(Map(entries, din), din)'
    <3>1. Parts(freemap, {}, Map(entries, din)) /\ unused_blocks = Cardinality(freemap)
      BY DEF SfsInv
    <3>2. /\ Parts(freemap', {}, Map(entries', din')) /\ held' = held
          /\ unused_blocks' = Cardinality(freemap') /\ Rows(Map(entries', din'), din')
      BY ONLY <1>0, <2>7, <3>1
    <3>3. Parts(freemap, {}, Map(entries, din))'
      BY ONLY <3>2 DEF Parts
    <3>4. QED
      BY <3>2, <3>3
  <2>11. DiskCurrent'
    <3> SUFFICES ASSUME NEW g \in Files, ~dirty'[g]
                 PROVE  /\ Synced(disk'[g], din'[g])
                        /\ g \notin cut => disk'[g].size <= disk'[g].blocks * BlkSize
      BY <1>0 DEF DiskCurrent, Synced
    <3>1. CASE g = f
      BY <2>3, <2>4, <2>5, <2>7, <3>1
    <3>2. CASE g # f
      BY <2>3, <2>7, <2>8, <3>2 DEF SfsInv, DiskCurrent
    <3>3. QED
      BY <3>1, <3>2
  <2>12. FdWithinFile'
    <3> SUFFICES ASSUME NEW g \in Files, g \notin cut
                 PROVE  /\ din'[g].size <= din'[g].blocks * BlkSize
                        /\ \A e \in Fds : fd'[e] # NONE /\ fd'[e].node = g => fd'[e].pos <= din'[g].size
      BY <1>0 DEF FdWithinFile, Users, Open
    <3>1. CASE g = f
      <4>1. \A e \in Fds : ~(fd'[e] # NONE /\ fd'[e].node = f)
        BY <1>2, <1>3 DEF Users, Open
      <4>2. QED
        BY <2>5, <2>7, <3>1, <4>1
    <3>2. CASE g # f
      <4>1. /\ din[g].size <= din[g].blocks * BlkSize
            /\ \A e \in Fds : fd[e] # NONE /\ fd[e].node = g => fd[e].pos <= din[g].size
        BY Within
      <4>2. din'[g] = din[g]
        BY <2>7, <3>2
      <4>3. QED
        BY <1>2, <4>1, <4>2
    <3>3. QED
      BY <3>1, <3>2
  <2>13. PanicsExplained'
    BY <1>0 DEF SfsInv, PanicsExplained
  <2>14. QED
    BY <2>9, <2>10, <2>11, <2>12, <2>13 DEF SfsInv
<1>4. CASE Users(f) # {d}
  <2>1. disk' = disk /\ din' = din /\ dirty' = dirty
    BY <1>4 DEF file_close, f
  <2>2. SfsTypeOK'
    BY <1>0, <1>1, <1>2, <2>1 DEF SfsTypeOK
  <2>3. /\ Parts(freemap, {}, Map(entries, din))' /\ unused_blocks' = Cardinality(freemap')
        /\ Rows(Map(entries, din), din)'
    BY <1>0, <2>1, BlocksKept
  <2>4. DiskCurrent'
    BY <1>0, <2>1 DEF SfsInv, DiskCurrent, Synced
  <2>5. FdWithinFile'
    <3> SUFFICES ASSUME NEW g \in Files, g \notin cut
                 PROVE  /\ din[g].size <= din[g].blocks * BlkSize
                        /\ \A e \in Fds : fd'[e] # NONE /\ fd'[e].node = g => fd'[e].pos <= din[g].size
      BY <1>0, <2>1 DEF FdWithinFile, Users, Open
    <3>1. QED
      BY <1>2, Within
  <2>6. PanicsExplained'
    BY <1>0 DEF SfsInv, PanicsExplained
  <2>7. QED
    BY <2>2, <2>3, <2>4, <2>5, <2>6 DEF SfsInv
<1>5. QED
  BY <1>3, <1>4

LEMMA FsyncStep ==
    ASSUME SfsInv, NEW d \in Fds, file_fsync(d)
    PROVE  SfsInv'
<1> DEFINE f == fd[d].node
<1>0. /\ fate = "ok" /\ Open(d) /\ dirty[f] /\ disk' = written_back(f) /\ dirty' = [dirty EXCEPT ![f] = FALSE]
      /\ UNCHANGED <<held, freemap, unused_blocks, entries, din, fd, fate, cut>>
  BY DEF file_fsync
<1>1. SfsTypeOK /\ f \in Files
  BY <1>0, OpenFile DEF SfsInv
<1> HIDE DEF f
<1>2. /\ disk \in [Files -> Dinode] /\ din \in [Files -> Dinode] /\ dirty \in [Files -> BOOLEAN]
      /\ din[f] \in Dinode
  BY <1>1 DEF SfsTypeOK
<1>3. /\ disk' \in [Files -> Dinode] /\ disk'[f] = din[f] /\ \A g \in Files : g # f => disk'[g] = disk[g]
  BY <1>0, <1>1, <1>2 DEF written_back
<1>4. dirty' \in [Files -> BOOLEAN] /\ dirty'[f] = FALSE /\ \A g \in Files : g # f => dirty'[g] = dirty[g]
  BY <1>0, <1>1, <1>2
<1>5. SfsTypeOK'
  BY <1>0, <1>1, <1>3, <1>4 DEF SfsTypeOK
<1>6. DiskCurrent'
  <2> SUFFICES ASSUME NEW g \in Files, ~dirty'[g]
               PROVE  /\ Synced(disk'[g], din[g])
                      /\ g \notin cut => disk'[g].size <= disk'[g].blocks * BlkSize
    BY <1>0 DEF DiskCurrent, Synced
  <2>1. CASE g = f
    <3>1. Synced(din[f], din[f])
      BY <1>2 DEF Synced, Dinode
    <3>2. QED
      BY <1>1, <1>3, <2>1, <3>1, Within
  <2>2. CASE g # f
    BY <1>3, <1>4, <2>2 DEF SfsInv, DiskCurrent
  <2>3. QED
    BY <2>1, <2>2
<1>7. FdWithinFile' /\ PanicsExplained'
  BY <1>0 DEF SfsInv, FdWithinFile, Users, Open, PanicsExplained
<1>8. /\ Parts(freemap, {}, Map(entries, din))' /\ unused_blocks' = Cardinality(freemap')
      /\ Rows(Map(entries, din), din)'
  BY <1>0, BlocksKept
<1>9. QED
  BY <1>5, <1>6, <1>7, <1>8 DEF SfsInv

LEMMA DupStep ==
    ASSUME SfsInv, NEW d \in Fds, NEW e \in Fds, file_dup(d, e)
    PROVE  SfsInv'
<1>0. /\ Open(d) /\ fd' = [fd EXCEPT ![e] = fd[d]]
      /\ UNCHANGED <<held, freemap, unused_blocks, entries, disk, din, dirty, fate, cut>>
  BY DEF file_dup
<1>1. SfsTypeOK
  BY DEF SfsInv
<1>2. /\ fd' \in [Fds -> Descr \cup {NONE}] /\ fd'[e] = fd[d]
      /\ \A x \in Fds : x # e => fd'[x] = fd[x]
  BY <1>0, <1>1 DEF SfsTypeOK
<1>3. SfsTypeOK'
  BY <1>0, <1>1, <1>2 DEF SfsTypeOK
<1>4. FdWithinFile'
  <2> SUFFICES ASSUME NEW g \in Files, g \notin cut
               PROVE  /\ din[g].size <= din[g].blocks * BlkSize
                      /\ \A x \in Fds : fd'[x] # NONE /\ fd'[x].node = g => fd'[x].pos <= din[g].size
    BY <1>0 DEF FdWithinFile, Users, Open
  <2>1. QED
    BY <1>2, Within
<1>5. DiskCurrent' /\ PanicsExplained'
  BY <1>0 DEF SfsInv, DiskCurrent, Synced, PanicsExplained
<1>6. /\ Parts(freemap, {}, Map(entries, din))' /\ unused_blocks' = Cardinality(freemap')
      /\ Rows(Map(entries, din), din)'
  BY <1>0, BlocksKept
<1>7. QED
  BY <1>3, <1>4, <1>5, <1>6 DEF SfsInv

LEMMA SfsInit == Init => SfsInv
<1> SUFFICES ASSUME Init PROVE SfsInv
  OBVIOUS
<1>1. PICK n \in Others : held = 1..n
  BY DEF Init
<1>2. n \in 0..NBlocks
  BY SfsAssumption
<1>3. /\ freemap = Block \ held /\ unused_blocks = Cardinality(freemap)
      /\ entries = [b \in Block |-> Zero] /\ disk = [f \in Files |-> Empty] /\ din = disk
      /\ dirty = [f \in Files |-> FALSE] /\ fd = [d \in Fds |-> NONE] /\ fate = "ok" /\ cut = {}
  BY DEF Init
<1>4. held \in SUBSET Block /\ freemap \in SUBSET Block
  BY <1>1, <1>2, <1>3, Numbers DEF Block
<1>5. /\ Empty \in Dinode /\ Empty.size = 0 /\ Empty.blocks = 0 /\ Empty.indirect = 0
      /\ \A k \in 0..(NDirect - 1) : Empty.direct[k] = 0
  BY DEF Empty, Dinode
<1>6. entries \in Table /\ \A b \in Block, i \in Entry : entries[b][i] = 0
  BY <1>3 DEF Table, Zero
<1>7. unused_blocks \in Int
  BY <1>3, <1>4, BlocksFinite
<1>8. SfsTypeOK
  BY <1>3, <1>4, <1>5, <1>6, <1>7 DEF SfsTypeOK
<1>9. \A f \in Files : din[f] = Empty /\ disk[f] = Empty
  BY <1>3
<1> DEFINE M == Map(entries, din)
<1>10. M \in [Files \X Slot -> {0} \cup Block]
  BY <1>6, <1>8, MapAt DEF SfsTypeOK
<1>11. ASSUME NEW g \in Files, NEW k \in Slot PROVE M[<<g, k>>] = 0
  <2>a. M[<<g, k>>] = At(entries, din[g], k)
    BY ONLY SlotAt, g \in Files, k \in Slot
  <2>1. M[<<g, k>>] = At(entries, Empty, k)
    BY ONLY <1>9, <2>a, g \in Files
  <2>2. QED
    BY <1>5, <2>1, Numbers DEF At
<1>12. \A x \in Files \X Slot : M[x] = 0
  <2> TAKE x \in Files \X Slot
  <2>1. x = <<x[1], x[2]>> /\ x[1] \in Files /\ x[2] \in Slot
    OBVIOUS
  <2> HIDE DEF M
  <2>2. M[<<x[1], x[2]>>] = 0
    BY <1>11, <2>1
  <2>3. QED
    BY <2>1, <2>2
<1> HIDE DEF M
<1>13. Parts(freemap, {}, M)
  <2>1. \A b \in Block : b # 0
    BY Numbers
  <2>2. QED
    BY <1>3, <1>4, <1>10, <1>12, <2>1 DEF Parts
<1>14. Rows(M, din)
  <2>1. \A g \in Files : din[g].blocks = 0
    BY <1>5, <1>9
  <2>2. ASSUME NEW g \in Files PROVE Row(M, g, 0)
    <3>1. \A k \in 0..(NDirect - 1) : k \in Slot
      BY Numbers
    <3>2. \A k \in 0..(0 - 1) : FALSE
      OBVIOUS
    <3>3. QED
      BY <1>11, <3>1, <3>2 DEF Row
  <2>3. QED
    BY <2>1, <2>2 DEF Rows
<1>15. DiskCurrent
  <2>1. ASSUME NEW f \in Files PROVE Synced(disk[f], din[f]) /\ disk[f].size <= disk[f].blocks * BlkSize
    <3>1. 0 <= 0 * BlkSize
      BY Numbers
    <3>2. Synced(Empty, Empty)
      BY <1>5 DEF Synced
    <3>3. QED
      BY <1>5, <1>9, <3>1, <3>2
  <2>2. QED
    BY <2>1 DEF DiskCurrent
<1>16. FdWithinFile
  <2>1. \A f \in Files : Users(f) = {}
    BY <1>3 DEF Users, Open
  <2>2. 0 <= 0 * BlkSize
    BY Numbers
  <2>3. QED
    BY <1>5, <1>9, <2>1, <2>2 DEF FdWithinFile
<1>17. PanicsExplained
  BY <1>3 DEF PanicsExplained
<1>18. QED
  BY <1>3, <1>8, <1>13, <1>14, <1>15, <1>16, <1>17 DEF SfsInv, M

LEMMA SfsStep == SfsInv /\ [Next]_vars => SfsInv'
<1> SUFFICES ASSUME SfsInv, [Next]_vars PROVE SfsInv'
  OBVIOUS
<1>1. CASE UNCHANGED vars
  <2>0. UNCHANGED <<held, freemap, unused_blocks, entries, disk, din, dirty, fd, fate, cut>>
    BY <1>1 DEF vars
  <2>1. /\ Parts(freemap, {}, Map(entries, din))' /\ unused_blocks' = Cardinality(freemap')
        /\ Rows(Map(entries, din), din)'
    BY <2>0, BlocksKept
  <2>2. SfsTypeOK' /\ DiskCurrent' /\ FdWithinFile' /\ PanicsExplained'
    BY <2>0 DEF SfsInv, SfsTypeOK, DiskCurrent, Synced, FdWithinFile, Users, Open, PanicsExplained
  <2>3. QED
    BY <2>1, <2>2 DEF SfsInv
<1>2. CASE Next
  <2>1. PICK d \in Fds :
            \/ \E f \in Files, flags \in OpenFlags : file_open(d, f, flags)
            \/ file_close(d) \/ file_fsync(d)
            \/ \E e \in Fds : file_dup(d, e)
            \/ \E len \in 1..BlkSize : file_write(d, len) \/ file_read(d, len)
            \/ \E pos \in 0..MaxFileSize : file_seek(d, pos)
    BY <1>2 DEF Next
  <2>2. ASSUME NEW f \in Files, NEW flags \in OpenFlags, file_open(d, f, flags) PROVE SfsInv'
    BY <2>2, OpenStep
  <2>3. CASE file_close(d)
    BY <2>3, CloseStep
  <2>4. CASE file_fsync(d)
    BY <2>4, FsyncStep
  <2>5. ASSUME NEW e \in Fds, file_dup(d, e) PROVE SfsInv'
    BY <2>5, DupStep
  <2>6. ASSUME NEW len \in 1..BlkSize, file_write(d, len) PROVE SfsInv'
    BY <2>6, WriteStep
  <2>7. ASSUME NEW len \in 1..BlkSize, file_read(d, len) PROVE SfsInv'
    BY <2>7, ReadStep
  <2>8. ASSUME NEW pos \in 0..MaxFileSize, file_seek(d, pos) PROVE SfsInv'
    BY <2>8, SeekStep
  <2>9. QED
    BY <2>1, <2>2, <2>3, <2>4, <2>5, <2>6, <2>7, <2>8
<1>3. QED
  BY <1>1, <1>2

\* SfsInv holds in every reachable state of the file system: after any sequence
\* of opens, reads, writes, seeks, truncations, closes and reclaims.
LEMMA SfsInvariant == Spec => []SfsInv
<1>1. Init => SfsInv
  BY SfsInit
<1>2. SfsInv /\ [Next]_vars => SfsInv'
  BY SfsStep
<1>3. QED
  BY <1>1, <1>2, PTL DEF Spec
-----------------------------------------------------------------------------
(* The theorems.                                                           *)

\* What a slot of an inode in memory holds.
LEMMA PointerAt ==
    ASSUME SfsInv, NEW f \in Files, NEW k \in Slot
    PROVE  Pointer(f, k) = Map(entries, din)[<<f, k>>]
<1>1. Map(entries, din)[<<f, k>>] = At(entries, din[f], k)
  BY SlotAt
<1>2. Work(f).din = din[f] /\ Work(f).entries = entries
  BY DEF Work
<1>3. CASE k = -1
  BY <1>1, <1>3 DEF Pointer, At
<1>4. CASE k # -1
  <2>1. Pointer(f, k) = sfs_bmap_get(Work(f), k)
    BY <1>4 DEF Pointer
  <2>2. sfs_bmap_get(Work(f), k) = At(entries, din[f], k)
    BY <1>2, <1>4, Numbers DEF sfs_bmap_get, At
  <2>3. QED
    BY <1>1, <2>1, <2>2
<1>5. QED
  BY <1>3, <1>4

\* Whatever is opened, written, read, sought, truncated, synchronised and closed on
\* a disk of any size (sfs_block_alloc, sfs_block_free, sfs_bmap_*_nolock), every
\* block is free, another file's or in one slot of one inode, and the count of free
\* blocks in the superblock is exact.
THEOREM SfsBlocksOwnedOnce == Spec => []BlocksOwnedOnce
<1>1. SfsInv => BlocksOwnedOnce
  <2> SUFFICES ASSUME SfsInv PROVE BlocksOwnedOnce
    OBVIOUS
  <2> DEFINE M == Map(entries, din)
  <2>1. Parts(freemap, {}, M) /\ unused_blocks = Cardinality(freemap)
    BY DEF SfsInv
  <2>2. \A f \in Files, k \in Slot : Pointer(f, k) = M[<<f, k>>] /\ <<f, k>> \in Files \X Slot
    BY PointerAt
  <2>3. \A x \in Files \X Slot : x[1] \in Files /\ x[2] \in Slot /\ x = <<x[1], x[2]>>
    OBVIOUS
  <2> HIDE DEF M
  <2>4. freemap \cap held = {}
    BY <2>1 DEF Parts
  <2>5. ASSUME NEW b \in Block
        PROVE  b \in freemap \cup held <=> \A f \in Files, k \in Slot : Pointer(f, k) # b
    <3>1. b \in freemap \/ b \in held <=> \A x \in Files \X Slot : M[x] # b
      BY <2>1 DEF Parts
    <3>2. (\A x \in Files \X Slot : M[x] # b) <=> \A f \in Files, k \in Slot : Pointer(f, k) # b
      <4>1. ASSUME \A x \in Files \X Slot : M[x] # b, NEW f \in Files, NEW k \in Slot PROVE Pointer(f, k) # b
        BY <2>2, <4>1
      <4>2. ASSUME \A f \in Files, k \in Slot : Pointer(f, k) # b, NEW x \in Files \X Slot PROVE M[x] # b
        <5>1. x[1] \in Files /\ x[2] \in Slot /\ x = <<x[1], x[2]>>
          OBVIOUS
        <5>2. Pointer(x[1], x[2]) = M[<<x[1], x[2]>>] /\ Pointer(x[1], x[2]) # b
          BY <2>2, <4>2, <5>1
        <5>3. QED
          BY ONLY <5>1, <5>2
      <4>3. QED
        BY <4>1, <4>2
    <3>3. QED
      BY <3>1, <3>2
  <2>6. ASSUME NEW f \in Files, NEW g \in Files, NEW k \in Slot, NEW l \in Slot,
               Pointer(f, k) = Pointer(g, l), Pointer(f, k) # 0
        PROVE  f = g /\ k = l
    <3>a. \A x, y \in Files \X Slot : M[x] = M[y] /\ M[x] # 0 => x = y
      BY <2>1 DEF Parts
    <3>b. /\ <<f, k>> \in Files \X Slot /\ <<g, l>> \in Files \X Slot
          /\ M[<<f, k>>] = M[<<g, l>>] /\ M[<<f, k>>] # 0
      BY <2>2, <2>6
    <3>1. <<f, k>> = <<g, l>>
      BY ONLY <3>a, <3>b
    <3>2. QED
      BY <3>1
  <2>7. QED
    BY <2>1, <2>4, <2>5, <2>6 DEF BlocksOwnedOnce
<1>2. QED
  BY <1>1, SfsInvariant, PTL

\* Every index below din->blocks has a block: the assertion on sfs_block_inuse in
\* sfs_bmap_load_nolock never sees block 0, in particular not after an inode whose
\* growth was not marked dirty was read again from the disk (sfs_close, sfs_reclaim).
THEOREM SfsNoHoles == Spec => []NoHoles
<1>1. SfsInv => NoHoles
  <2> SUFFICES ASSUME SfsInv, NEW f \in Files, NEW i \in 0..(din[f].blocks - 1)
               PROVE  sfs_bmap_get(Work(f), i) # 0
    BY DEF NoHoles
  <2>1. Good(f, Work(f)) /\ Work(f).din = din[f] /\ din[f].blocks \in Nat /\ SfsTypeOK
    BY WorkGood DEF SfsInv
  <2>2. i \in Nat /\ i < Work(f).din.blocks
    BY <2>1
  <2>3. QED
    BY <2>1, <2>2, BlockThere
<1>2. QED
  BY <1>1, SfsInvariant, PTL

\* A file has blocks for its size and no descriptor is behind its end (file_seek
\* extends it, sfs_io_nolock sets its size), unless an open with O_TRUNC or O_CREAT
\* truncated it under a descriptor further on.
THEOREM SfsFdWithinFile == Spec => []FdWithinFile
<1>1. SfsInv => FdWithinFile
  BY DEF SfsInv
<1>2. QED
  BY <1>1, SfsInvariant, PTL

\* assert(index <= din->blocks) of sfs_bmap_load_nolock fails for no file that was
\* not truncated that way, and no block below din->blocks is missing.
THEOREM SfsPanicsExplained == Spec => []PanicsExplained
<1>1. SfsInv => PanicsExplained
  BY DEF SfsInv
<1>2. QED
  BY <1>1, SfsInvariant, PTL
-----------------------------------------------------------------------------
(* The semaphores.                                                         *)

\* A queued process does not have the permit it waits for.
QueuedLackPermit == \A p \in Procs, s \in Sems : InQueue(p, s) => s \notin holds[p]

LockInv ==
    /\ TypeOK
    /\ QueueMatchesSleepers
    /\ QueuedLackPermit
    /\ NoSleeperWithPermit
    /\ DownReturnsZero
    /\ PermitsConserved
-----------------------------------------------------------------------------
LEMMA HoldersFinite == ASSUME NEW s \in Sems PROVE IsFiniteSet(Holders(s))
  BY SemAssumption, FS_Subset DEF Holders

LEMMA LockInit == LocksInit => LockInv
<1> SUFFICES ASSUME LocksInit PROVE LockInv
  OBVIOUS
<1> USE SemAssumption DEF LocksInit, SemInit
<1>1. TypeOK
  BY DEF TypeOK, SemTypeOK
<1>2. QueueMatchesSleepers /\ QueuedLackPermit /\ NoSleeperWithPermit
  BY DEF QueueMatchesSleepers, QueuedLackPermit, NoSleeperWithPermit, InQueue
<1>3. DownReturnsZero
  BY DEF DownReturnsZero
<1>4. PermitsConserved
  <2> SUFFICES ASSUME NEW s \in Sems PROVE value[s] + Cardinality(Holders(s)) = InitialValue[s]
    BY DEF PermitsConserved
  <2>1. Holders(s) = {}
    BY DEF Holders
  <2>2. QED
    BY <2>1, FS_EmptySet
<1>5. QED
  BY <1>1, <1>2, <1>3, <1>4 DEF LockInv

\* What a process holds does not change: neither does the count of holders.
LEMMA HoldersKept ==
    ASSUME holds' = holds
    PROVE  \A s \in Sems : Holders(s)' = Holders(s)
  BY DEF Holders

\* A process takes a permit that is free.
LEMMA DownStep ==
    ASSUME LockInv, NEW p \in Procs, NEW s \in Sems, down(p, s)
    PROVE  LockInv'
<1> USE SemAssumption DEF LockInv, down, down_take, Running, Runnable
<1>1. TypeOK'
  BY DEF TypeOK, SemTypeOK
<1>2. ~InQueue(p, s)
  BY DEF QueueMatchesSleepers
<1>3. QueueMatchesSleepers'
  BY DEF QueueMatchesSleepers, InQueue
<1>4. QueuedLackPermit'
  BY <1>2 DEF QueuedLackPermit, InQueue, TypeOK
<1>5. NoSleeperWithPermit'
  BY DEF NoSleeperWithPermit, TypeOK, SemTypeOK
<1>6. DownReturnsZero'
  BY DEF DownReturnsZero, TypeOK, Runnable
<1>7. PermitsConserved'
  <2> SUFFICES ASSUME NEW r \in Sems
               PROVE value'[r] + Cardinality(Holders(r)') = InitialValue[r]
    BY DEF PermitsConserved
  <2>1. CASE r # s
    <3>1. Holders(r)' = Holders(r) /\ value'[r] = value[r]
      BY <2>1 DEF Holders, TypeOK, SemTypeOK
    <3>2. QED
      BY <3>1 DEF PermitsConserved
  <2>2. CASE r = s
    <3>1. Holders(r)' = Holders(r) \cup {p} /\ p \notin Holders(r)
      BY <2>2 DEF Holders, TypeOK
    <3>2. Cardinality(Holders(r) \cup {p}) = Cardinality(Holders(r)) + 1
      BY <3>1, HoldersFinite, FS_AddElement
    <3>3. Cardinality(Holders(r)) \in Nat
      BY HoldersFinite, FS_CardinalityType
    <3>4. value'[r] = value[r] - 1 /\ value[r] \in Nat
      BY <2>2 DEF TypeOK, SemTypeOK
    <3>5. value[r] + Cardinality(Holders(r)) = InitialValue[r]
      BY DEF PermitsConserved
    <3>6. QED
      BY <3>1, <3>2, <3>3, <3>4, <3>5
  <2>3. QED
    BY <2>1, <2>2
<1>8. QED
  BY <1>1, <1>3, <1>4, <1>5, <1>6, <1>7

\* Nothing that PermitsConserved speaks of changes.
LEMMA PermitsKept ==
    ASSUME PermitsConserved, holds' = holds, value' = value
    PROVE  PermitsConserved'
  BY HoldersKept DEF PermitsConserved

\* A process finds no permit and joins the queue.
LEMMA DownWaitStep ==
    ASSUME LockInv, NEW p \in Procs, NEW s \in Sems, down_wait(p, s)
    PROVE  LockInv'
<1> USE SemAssumption DEF LockInv, down_wait, down_block, wait_current_set, Running, Runnable
<1>1. TypeOK'
  BY DEF TypeOK, SemTypeOK
<1>2. /\ wait_queue[s] \in Seq(Procs)
      /\ wait_queue'[s] = Append(wait_queue[s], p)
      /\ \A r \in Sems \ {s} : wait_queue'[r] = wait_queue[r]
  BY DEF TypeOK, SemTypeOK
<1>3. /\ Len(wait_queue'[s]) = Len(wait_queue[s]) + 1
      /\ wait_queue'[s][Len(wait_queue[s]) + 1] = p
      /\ \A i \in 1..Len(wait_queue[s]) : wait_queue'[s][i] = wait_queue[s][i]
  BY <1>2
<1>4. \A q \in Procs, r \in Sems : InQueue(q, r)' <=> InQueue(q, r) \/ (q = p /\ r = s)
  <2> SUFFICES ASSUME NEW q \in Procs, NEW r \in Sems
               PROVE InQueue(q, r)' <=> InQueue(q, r) \/ (q = p /\ r = s)
    OBVIOUS
  <2>1. CASE r # s
    BY <1>2, <2>1 DEF InQueue
  <2>2. CASE r = s
    <3>1. Len(wait_queue[s]) \in Nat
      BY <1>2
    <3>2. QED
      BY <1>3, <2>2, <3>1 DEF InQueue
  <2>3. QED
    BY <2>1, <2>2
<1>5. \A r \in Sems : ~InQueue(p, r)
  BY DEF QueueMatchesSleepers
<1>6. QueueMatchesSleepers'
  <2>1. ASSUME NEW q \in Procs, NEW r \in Sems
        PROVE  InQueue(q, r)' <=> wait_state'[q] = "WT_KSEM" /\ waiting'[q] = r
    BY <1>4, <1>5 DEF QueueMatchesSleepers, TypeOK, SemTypeOK
  <2>2. ASSUME NEW r \in Sems, NEW i \in 1..Len(wait_queue'[r]), NEW j \in 1..Len(wait_queue'[r]),
               wait_queue'[r][i] = wait_queue'[r][j]
        PROVE  i = j
    <3>1. CASE r # s
      BY <1>2, <2>2, <3>1 DEF QueueMatchesSleepers
    <3>2. CASE r = s
      <4>1. Len(wait_queue[s]) \in Nat
        BY <1>2
      <4>2. \A k \in 1..Len(wait_queue[s]) : wait_queue[s][k] # p
        BY <1>5 DEF InQueue
      <4>3. \A k, l \in 1..Len(wait_queue[s]) : wait_queue[s][k] = wait_queue[s][l] => k = l
        BY DEF QueueMatchesSleepers
      <4>4. QED
        BY <1>3, <2>2, <3>2, <4>1, <4>2, <4>3
    <3>3. QED
      BY <3>1, <3>2
  <2>3. QED
    BY <2>1, <2>2 DEF QueueMatchesSleepers
<1>7. QueuedLackPermit'
  BY <1>4 DEF QueuedLackPermit
<1>8. NoSleeperWithPermit'
  BY <1>2 DEF NoSleeperWithPermit
<1>9. DownReturnsZero'
  BY DEF DownReturnsZero, TypeOK, SemTypeOK, Runnable
<1>10. PermitsConserved'
  BY PermitsKept
<1>11. QED
  BY <1>1, <1>6, <1>7, <1>8, <1>9, <1>10

\* A woken process leaves down().
LEMMA DownReturnStep ==
    ASSUME LockInv, NEW p \in Procs, down_return(p)
    PROVE  LockInv'
<1> USE SemAssumption DEF LockInv, down_return, down_resume, Runnable
<1>1. waiting[p] \in Sems /\ ~InQueue(p, waiting[p])
  BY DEF QueueMatchesSleepers, TypeOK
<1>2. wait_queue' = wait_queue
  BY <1>1
<1>3. TypeOK'
  BY <1>2 DEF TypeOK, SemTypeOK
<1>4. QueueMatchesSleepers' /\ QueuedLackPermit' /\ NoSleeperWithPermit'
  BY <1>1, <1>2 DEF QueueMatchesSleepers, QueuedLackPermit, NoSleeperWithPermit, InQueue,
                    TypeOK, SemTypeOK
<1>5. DownReturnsZero'
  BY DEF DownReturnsZero, TypeOK, SemTypeOK, Runnable
<1>6. PermitsConserved'
  BY PermitsKept
<1>7. QED
  BY <1>3, <1>4, <1>5, <1>6

\* A permit is returned with nobody waiting.
LEMMA UpAddStep ==
    ASSUME LockInv, NEW p \in Procs, NEW s \in Sems, s \in holds[p], up_add(s),
           holds' = [holds EXCEPT ![p] = @ \ {s}], waiting' = waiting, Running(p)
    PROVE  LockInv'
<1> USE SemAssumption DEF LockInv, up_add, Running, Runnable
<1>1. TypeOK'
  BY DEF TypeOK, SemTypeOK
<1>2. QueueMatchesSleepers' /\ QueuedLackPermit'
  BY DEF QueueMatchesSleepers, QueuedLackPermit, InQueue, TypeOK
<1>3. NoSleeperWithPermit'
  BY DEF NoSleeperWithPermit, TypeOK, SemTypeOK
<1>4. DownReturnsZero'
  BY DEF DownReturnsZero, TypeOK, Runnable
<1>5. PermitsConserved'
  <2> SUFFICES ASSUME NEW r \in Sems
               PROVE value'[r] + Cardinality(Holders(r)') = InitialValue[r]
    BY DEF PermitsConserved
  <2>1. CASE r # s
    <3>1. Holders(r)' = Holders(r) /\ value'[r] = value[r]
      BY <2>1 DEF Holders, TypeOK, SemTypeOK
    <3>2. QED
      BY <3>1 DEF PermitsConserved
  <2>2. CASE r = s
    <3>1. Holders(r)' = Holders(r) \ {p} /\ p \in Holders(r)
      BY <2>2 DEF Holders, TypeOK
    <3>2. Cardinality(Holders(r) \ {p}) = Cardinality(Holders(r)) - 1
      BY <3>1, HoldersFinite, FS_RemoveElement
    <3>3. Cardinality(Holders(r)) \in Nat
      BY HoldersFinite, FS_CardinalityType
    <3>4. value'[r] = value[r] + 1 /\ value[r] \in Nat
      BY <2>2 DEF TypeOK, SemTypeOK
    <3>5. value[r] + Cardinality(Holders(r)) = InitialValue[r]
      BY DEF PermitsConserved
    <3>6. QED
      BY <3>1, <3>2, <3>3, <3>4, <3>5
  <2>3. QED
    BY <2>1, <2>2
<1>6. QED
  BY <1>1, <1>2, <1>3, <1>4, <1>5

\* The head of the queue of s, and what Tail leaves.
LEMMA QueueHead ==
    ASSUME LockInv, NEW s \in Sems, up_wake(s)
    PROVE  /\ wait_queue_first(s) = Head(wait_queue[s])
           /\ Head(wait_queue[s]) \in Procs /\ InQueue(Head(wait_queue[s]), s)
           /\ wait_queue'[s] = Tail(wait_queue[s])
           /\ Len(wait_queue[s]) \in Nat /\ Len(wait_queue'[s]) = Len(wait_queue[s]) - 1
           /\ wait_queue[s][1] = Head(wait_queue[s])
           /\ \A i \in 1..Len(wait_queue'[s]) : wait_queue'[s][i] = wait_queue[s][i + 1]
           /\ \A r \in Sems \ {s} : wait_queue'[r] = wait_queue[r]
<1>1. wait_queue[s] \in Seq(Procs) /\ wait_queue[s] # <<>>
  BY DEF LockInv, TypeOK, SemTypeOK, up_wake
<1>2. wait_queue'[s] = Tail(wait_queue[s]) /\ \A r \in Sems \ {s} : wait_queue'[r] = wait_queue[r]
  BY DEF LockInv, TypeOK, SemTypeOK, up_wake
<1>3. Len(wait_queue[s]) \in Nat \ {0} /\ Head(wait_queue[s]) = wait_queue[s][1]
  BY <1>1
<1>4. Head(wait_queue[s]) \in Procs
  BY <1>1
<1>5. InQueue(Head(wait_queue[s]), s)
  BY <1>3 DEF InQueue
<1>6. /\ Len(wait_queue'[s]) = Len(wait_queue[s]) - 1
      /\ \A i \in 1..Len(wait_queue'[s]) : wait_queue'[s][i] = wait_queue[s][i + 1]
  BY <1>1, <1>2
<1>7. QED
  BY <1>1, <1>2, <1>3, <1>4, <1>5, <1>6 DEF wait_queue_first

\* A permit is returned and handed to the first waiter.
LEMMA UpWakeStep ==
    ASSUME LockInv, NEW p \in Procs, NEW s \in Sems, s \in holds[p], up_wake(s),
           holds' = [holds EXCEPT ![p] = @ \ {s}, ![wait_queue_first(s)] = @ \cup {s}],
           waiting' = waiting, Running(p)
    PROVE  LockInv'
<1> DEFINE h == Head(wait_queue[s])
<1>1. /\ h \in Procs /\ InQueue(h, s) /\ wait_queue[s][1] = h
      /\ wait_queue_first(s) = h
  BY QueueHead
<1>2. h # p /\ s \notin holds[h] /\ wait_state[h] = "WT_KSEM" /\ waiting[h] = s
  BY <1>1 DEF LockInv, QueueMatchesSleepers, QueuedLackPermit, Running, Runnable
<1>3. /\ Len(wait_queue[s]) \in Nat /\ Len(wait_queue'[s]) = Len(wait_queue[s]) - 1
      /\ \A i \in 1..Len(wait_queue'[s]) : wait_queue'[s][i] = wait_queue[s][i + 1]
      /\ \A r \in Sems \ {s} : wait_queue'[r] = wait_queue[r]
      /\ wait_queue'[s] = Tail(wait_queue[s])
  BY QueueHead
<1>4. /\ wait_state' = [wait_state EXCEPT ![h] = "0"]
      /\ wakeup_flags' = [wakeup_flags EXCEPT ![h] = "WT_KSEM"]
      /\ holds' = [holds EXCEPT ![p] = @ \ {s}, ![h] = @ \cup {s}]
      /\ value' = value /\ wait_queue[s] # <<>>
      /\ wait_queue' = [wait_queue EXCEPT ![s] = Tail(@)]
  BY <1>1 DEF up_wake
<1>5. \A i, j \in 1..Len(wait_queue[s]) : wait_queue[s][i] = wait_queue[s][j] => i = j
  BY DEF LockInv, QueueMatchesSleepers
<1> HIDE DEF h
<1>6. TypeOK'
  <2>1. wait_queue' \in [Sems -> Seq(Procs)]
    BY <1>4 DEF LockInv, TypeOK, SemTypeOK
  <2>2. holds' \in [Procs -> SUBSET Sems]
    BY <1>4, <1>1 DEF LockInv, TypeOK
  <2>3. QED
    BY <1>1, <1>4, <2>1, <2>2 DEF LockInv, TypeOK, SemTypeOK
<1>7. \A q \in Procs, r \in Sems : InQueue(q, r)' <=> InQueue(q, r) /\ ~(q = h /\ r = s)
  <2> SUFFICES ASSUME NEW q \in Procs, NEW r \in Sems
               PROVE InQueue(q, r)' <=> InQueue(q, r) /\ ~(q = h /\ r = s)
    OBVIOUS
  <2>1. CASE r # s
    BY <1>3, <2>1 DEF InQueue
  <2>2. CASE r = s
    <3>1. ASSUME InQueue(q, s)' PROVE InQueue(q, s) /\ q # h
      <4>1. PICK i \in 1..Len(wait_queue'[s]) : wait_queue'[s][i] = q
        BY <3>1 DEF InQueue
      <4>2. i + 1 \in 1..Len(wait_queue[s]) /\ wait_queue[s][i + 1] = q /\ i + 1 # 1
        BY <1>3, <4>1
      <4>3. 1 \in 1..Len(wait_queue[s])
        BY <4>2, <1>3
      <4>4. QED
        BY <4>2, <4>3, <1>1, <1>5 DEF InQueue
    <3>2. ASSUME InQueue(q, s), q # h PROVE InQueue(q, s)'
      <4>1. PICK i \in 1..Len(wait_queue[s]) : wait_queue[s][i] = q
        BY <3>2 DEF InQueue
      <4>2. i # 1
        BY <4>1, <3>2, <1>1
      <4>3. i - 1 \in 1..Len(wait_queue'[s]) /\ wait_queue'[s][i - 1] = q
        BY <1>3, <4>1, <4>2
      <4>4. QED
        BY <4>3 DEF InQueue
    <3>3. QED
      BY <2>2, <3>1, <3>2
  <2>3. QED
    BY <2>1, <2>2
<1>8. QueueMatchesSleepers'
  <2>1. ASSUME NEW q \in Procs, NEW r \in Sems
        PROVE  InQueue(q, r)' <=> wait_state'[q] = "WT_KSEM" /\ waiting'[q] = r
    BY <1>1, <1>2, <1>4, <1>7 DEF LockInv, QueueMatchesSleepers, TypeOK, SemTypeOK
  <2>2. ASSUME NEW r \in Sems, NEW i \in 1..Len(wait_queue'[r]), NEW j \in 1..Len(wait_queue'[r]),
               wait_queue'[r][i] = wait_queue'[r][j]
        PROVE  i = j
    <3>1. CASE r # s
      BY <1>3, <2>2, <3>1 DEF LockInv, QueueMatchesSleepers
    <3>2. CASE r = s
      <4>0. i \in 1..(Len(wait_queue[s]) - 1) /\ j \in 1..(Len(wait_queue[s]) - 1)
        BY <1>3, <2>2, <3>2
      <4>1. i + 1 \in 1..Len(wait_queue[s]) /\ j + 1 \in 1..Len(wait_queue[s])
        BY <1>3, <4>0
      <4>2. wait_queue[s][i + 1] = wait_queue[s][j + 1]
        BY <1>3, <2>2, <3>2
      <4>3. QED
        BY <4>1, <4>2, <1>5
    <3>3. QED
      BY <3>1, <3>2
  <2>3. QED
    BY <2>1, <2>2 DEF QueueMatchesSleepers
<1>9. QueuedLackPermit'
  BY <1>1, <1>2, <1>4, <1>7 DEF LockInv, QueuedLackPermit, TypeOK
<1>10. NoSleeperWithPermit'
  BY <1>3, <1>4 DEF LockInv, NoSleeperWithPermit
<1>11. DownReturnsZero'
  <2> SUFFICES ASSUME NEW q \in Procs, waiting[q] # NULL, wait_state'[q] = "0"
               PROVE  wakeup_flags'[q] = "WT_KSEM" /\ waiting[q] \in holds'[q]
    BY DEF DownReturnsZero, Runnable
  <2>1. CASE q = h
    BY <1>1, <1>2, <1>4, <2>1 DEF LockInv, TypeOK, SemTypeOK
  <2>2. CASE q # h
    <3>1. q # p /\ wait_state[q] = "0"
      BY <1>1, <1>4, <2>2 DEF LockInv, TypeOK, SemTypeOK, Running
    <3>2. wakeup_flags'[q] = wakeup_flags[q] /\ holds'[q] = holds[q]
      BY <1>1, <1>4, <2>2, <3>1 DEF LockInv, TypeOK, SemTypeOK
    <3>3. QED
      BY <3>1, <3>2 DEF LockInv, DownReturnsZero, Runnable
  <2>3. QED
    BY <2>1, <2>2
<1>12. PermitsConserved'
  <2> SUFFICES ASSUME NEW r \in Sems
               PROVE value'[r] + Cardinality(Holders(r)') = InitialValue[r]
    BY DEF PermitsConserved
  <2>1. CASE r # s
    <3>1. Holders(r)' = Holders(r)
      BY <1>1, <1>4, <2>1 DEF Holders, LockInv, TypeOK
    <3>2. QED
      BY <1>4, <3>1 DEF LockInv, PermitsConserved
  <2>2. CASE r = s
    <3>1. /\ Holders(s)' = (Holders(s) \ {p}) \cup {h}
          /\ p \in Holders(s) /\ h \notin Holders(s) \ {p}
      BY <1>1, <1>2, <1>4 DEF Holders, LockInv, TypeOK
    <3>2. IsFiniteSet(Holders(s)) /\ Cardinality(Holders(s)) \in Nat
      BY HoldersFinite, FS_CardinalityType
    <3>3. /\ IsFiniteSet(Holders(s) \ {p})
          /\ Cardinality(Holders(s) \ {p}) = Cardinality(Holders(s)) - 1
      BY <3>1, <3>2, FS_RemoveElement
    <3>4. Cardinality((Holders(s) \ {p}) \cup {h}) = Cardinality(Holders(s) \ {p}) + 1
      BY <3>1, <3>3, FS_AddElement
    <3>5. Cardinality(Holders(s)') = Cardinality(Holders(s))
      BY <3>1, <3>2, <3>3, <3>4
    <3>6. QED
      BY <1>4, <2>2, <3>5 DEF LockInv, PermitsConserved
  <2>3. QED
    BY <2>1, <2>2
<1>13. QED
  BY <1>6, <1>8, <1>9, <1>10, <1>11, <1>12 DEF LockInv

LEMMA LockStep == LockInv /\ [LocksNext]_lock_vars => LockInv'
<1> SUFFICES ASSUME LockInv, [LocksNext]_lock_vars PROVE LockInv'
  OBVIOUS
<1>1. ASSUME NEW p \in Procs, NEW s \in Sems, up(p, s) PROVE LockInv'
  BY <1>1, UpWakeStep, UpAddStep DEF up
<1>2. CASE UNCHANGED lock_vars
  <2>1. PermitsConserved'
    BY <1>2, PermitsKept DEF lock_vars, LockInv
  <2>2. QED
    BY <1>2, <2>1 DEF lock_vars, LockInv, TypeOK, SemTypeOK, QueueMatchesSleepers, QueuedLackPermit,
                      NoSleeperWithPermit, DownReturnsZero, InQueue, Runnable
<1>3. QED
  BY <1>1, <1>2, DownStep, DownWaitStep, DownReturnStep DEF LocksNext
-----------------------------------------------------------------------------
\* Free permits and holders always add up to the initial value: for a semaphore
\* initialised to 1 at most one process is between down() and up(), however many
\* processes there are and whatever mixture of hand-overs and free permits.
THEOREM PermitsTheorem == LocksSpec => []PermitsConserved
<1>1. LockInv => PermitsConserved
  BY DEF LockInv
<1>2. QED
  BY LockInit, LockStep, <1>1, PTL DEF LocksSpec

\* Nobody sleeps on a semaphore with a free permit, and the sleepers of down()
\* are exactly the processes linked in its wait queue, once each.
THEOREM NoLostWakeup == LocksSpec => [](NoSleeperWithPermit /\ QueueMatchesSleepers)
<1>1. LockInv => NoSleeperWithPermit /\ QueueMatchesSleepers
  BY DEF LockInv
<1>2. QED
  BY LockInit, LockStep, <1>1, PTL DEF LocksSpec

\* The assertion flags == 0 of down(): who comes back from schedule() was woken
\* by up() and has the permit.
THEOREM DownReturnsWithPermit == LocksSpec => [](TypeOK /\ DownReturnsZero)
<1>1. LockInv => TypeOK /\ DownReturnsZero
  BY DEF LockInv
<1>2. QED
  BY LockInit, LockStep, <1>1, PTL DEF LocksSpec

\* The wait queue is served in order: it changes only by a process joining at the
\* end or by the first one leaving with the permit.
THEOREM HandoverTheorem == LocksSpec => HandoverInOrder
<1> DEFINE Order(s) == wait_queue[s] # wait_queue'[s] =>
              \/ \E p \in Procs : wait_queue'[s] = Append(wait_queue[s], p)
              \/ /\ wait_queue'[s] = Tail(wait_queue[s])
                 /\ s \in holds'[Head(wait_queue[s])]
<1>1. ASSUME LockInv, LocksNext PROVE \A s \in Sems : Order(s)
  <2>1. ASSUME NEW p \in Procs, NEW r \in Sems, down(p, r) PROVE \A s \in Sems : Order(s)
    BY <2>1 DEF down, down_take
  <2>2. ASSUME NEW p \in Procs, NEW r \in Sems, down_wait(p, r) PROVE \A s \in Sems : Order(s)
    BY <1>1, <2>2 DEF down_wait, down_block, wait_current_set, LockInv, TypeOK, SemTypeOK
  <2>3. ASSUME NEW p \in Procs, down_return(p) PROVE \A s \in Sems : Order(s)
    <3>1. waiting[p] \in Sems /\ ~InQueue(p, waiting[p])
      BY <1>1, <2>3 DEF down_return, down_resume, Runnable, LockInv, QueueMatchesSleepers, TypeOK
    <3>2. wait_queue' = wait_queue
      BY <2>3, <3>1 DEF down_return, down_resume
    <3>3. QED
      BY <3>2
  <2>4. ASSUME NEW p \in Procs, NEW r \in Sems, up(p, r) PROVE \A s \in Sems : Order(s)
    <3>1. CASE up_add(r)
      BY <3>1 DEF up_add
    <3>2. CASE up_wake(r)
      <4>1. wait_queue[r] # <<>>
        BY <3>2 DEF up_wake
      <4>2. holds' = [holds EXCEPT ![p] = @ \ {r}, ![wait_queue_first(r)] = @ \cup {r}]
        BY <2>4, <4>1 DEF up, up_add
      <4>3. /\ wait_queue'[r] = Tail(wait_queue[r])
            /\ \A s \in Sems \ {r} : wait_queue'[s] = wait_queue[s]
            /\ wait_queue_first(r) = Head(wait_queue[r]) /\ Head(wait_queue[r]) \in Procs
        BY <1>1, <3>2, QueueHead
      <4>4. r \in holds'[Head(wait_queue[r])]
        BY <1>1, <4>2, <4>3 DEF LockInv, TypeOK
      <4>5. QED
        BY <4>3, <4>4
    <3>3. QED
      BY <2>4, <3>1, <3>2 DEF up
  <2>5. QED
    BY <1>1, <2>1, <2>2, <2>3, <2>4 DEF LocksNext
<1>2. LockInv /\ [LocksNext]_lock_vars => [\A s \in Sems : Order(s)]_lock_vars
  BY <1>1
<1>3. QED
  BY LockInit, LockStep, <1>2, PTL DEF LocksSpec, HandoverInOrder
=============================================================================
