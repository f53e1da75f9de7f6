-------------------------------- MODULE Vmm --------------------------------
(***************************************************************************)
(* Address spaces: the list of vmas and the three levels of page tables    *)
(* (kern/mm/vmm.c, pmm.c) under exec, fork, page faults and exit           *)
(* (kern/process/proc.c).  Addresses are page numbers.  A page table maps  *)
(* PtN pages and a level 0 directory PdN page tables.  Frames are counted, *)
(* not named.  None of these calls sleeps, so each is one step.            *)
(*                                                                         *)
(* swap_init runs at boot and leaves check_mm_struct NULL.  From then on   *)
(* alloc_page does not return NULL: with no frame left it calls            *)
(* swap_out(NULL), which dereferences its argument.                        *)
(***************************************************************************)
EXTENDS Naturals, FiniteSetsExt, SequencesExt

CONSTANTS
    Procs, first,
    PtN, PdN,          \* pages of a page table, page tables of a directory
    UserBase, UserTop, \* USERBASE, USERTOP (= USTACKTOP)
    StackPages,        \* USTACKPAGE
    StackReady,        \* pages of the stack that load_icode allocates
    NFrames,           \* frames
    Programs,          \* bound: the programs exec is called on, sequences of segments
    NONE

Vma == [vm_start : Nat, vm_end : Nat, vm_flags : SUBSET {"R", "W", "X", "STACK"}]

\* the list of vmas, the cached one, the tables of both levels and the mapped pages
Mm == [mmap_list : Seq(Vma), mmap_cache : Vma \cup {NONE},
       pd0 : SUBSET Nat, pt : SUBSET Nat, pages : SUBSET Nat]

ASSUME VmmAssumption ==
    /\ first \in Procs /\ {PtN, PdN} \subseteq Nat \ {0}
    /\ {UserBase, UserTop, StackPages, NFrames} \subseteq Nat
    /\ UserTop % PtN = 0 /\ StackReady \in 1..StackPages /\ StackPages <= PtN
    /\ UserBase + StackPages < UserTop
    /\ Programs \subseteq Seq([vma : Vma, short : BOOLEAN])
    /\ NONE \notin Vma /\ NONE \notin Mm

VARIABLES
    alive,   \* processes that exist
    mm,      \* proc->mm, or NONE
    nr_free, \* frames that are free
    fate,    \* "ok", or why the kernel panicked
    lost,    \* history: tables that are neither free nor reachable
    spread,  \* history: some directory served vmas in two page tables
    prog     \* history: the program exec was last called on

vars == <<alive, mm, nr_free, fate, lost, spread, prog>>

\* mm_create and setup_pgdir: the directory of the mm is one frame
mm_create == [mmap_list |-> <<>>, mmap_cache |-> NONE, pd0 |-> {}, pt |-> {}, pages |-> {}]

Init ==
    /\ alive = {first} /\ mm = [p \in Procs |-> NONE]
    /\ nr_free = NFrames /\ fate = "ok"
    /\ lost = 0 /\ spread = FALSE /\ prog = <<>>

PDX0(la) == la \div PtN
PDX1(la) == la \div (PtN * PdN)
Pages(vma) == vma.vm_start..(vma.vm_end - 1)
USER_ACCESS(start, end) == UserBase <= start /\ start < end /\ end <= UserTop
-----------------------------------------------------------------------------
(* The functions below map states to states; m is one mm.                  *)

\* n rounds of a loop
Loop(round(_, _), s, n) ==
    LET at[k \in 0..n] == IF k = 0 THEN s ELSE round(at[k - 1], k) IN at[n]

Work(m) == [m |-> m, free |-> nr_free, lost |-> lost, fate |-> fate, ret |-> "OK"]

alloc_page(s) == IF s.free = 0 THEN [s EXCEPT !.fate = "swap_out"] ELSE [s EXCEPT !.free = @ - 1]

\* get_pte with create = 1
get_pte(s, la) ==
    LET d == IF s.fate # "ok" \/ PDX1(la) \in s.m.pd0 THEN s
             ELSE [alloc_page(s) EXCEPT !.m.pd0 = @ \cup {PDX1(la)}]
    IN IF d.fate # "ok" \/ PDX0(la) \in d.m.pt THEN d
       ELSE [alloc_page(d) EXCEPT !.m.pt = @ \cup {PDX0(la)}]

\* pgdir_alloc_page and page_insert; nothing is mapped at la
pgdir_alloc_page(s, la) ==
    IF s.fate # "ok" THEN s
    ELSE LET t == get_pte(alloc_page(s), la)
         IN IF t.fate # "ok" THEN t ELSE [t EXCEPT !.m.pages = @ \cup {la}]

\* the pages of the list las that are wanted, one after the other
alloc_all(s, las, wanted) ==
    Loop(LAMBDA t, k : IF las[k] \in wanted THEN pgdir_alloc_page(t, las[k]) ELSE t, s, Len(las))

Upwards(vma) == [k \in 1..(vma.vm_end - vma.vm_start) |-> vma.vm_start + k - 1]
-----------------------------------------------------------------------------
Holds(vma, addr) == vma.vm_start <= addr /\ addr < vma.vm_end

\* find_vma: the cached vma, or the first in the list that contains addr
find_vma(m, addr) ==
    LET found == {i \in DOMAIN m.mmap_list : Holds(m.mmap_list[i], addr)}
    IN IF m.mmap_cache # NONE /\ Holds(m.mmap_cache, addr) THEN m.mmap_cache
       ELSE IF found = {} THEN NONE ELSE m.mmap_list[Min(found)]

cache(m, vma) == IF vma = NONE THEN m ELSE [m EXCEPT !.mmap_cache = vma]

\* Mutant: the order is not checked.
check_vma_overlap_not(prev, next) == TRUE

\* Mutant: neighbours may not touch.
check_vma_overlap_strict(prev, next) == prev.vm_end < next.vm_start

check_vma_overlap(prev, next) == prev.vm_end <= next.vm_start

insert_vma_struct(s, vma) ==
    LET list == s.m.mmap_list
        above == {i \in DOMAIN list : list[i].vm_start > vma.vm_start}
        k == IF above = {} THEN Len(list) ELSE Min(above) - 1
        ok == /\ k > 0 => check_vma_overlap(list[k], vma)
              /\ k < Len(list) => check_vma_overlap(vma, list[k + 1])
    IN IF ok THEN [s EXCEPT !.m.mmap_list = InsertAt(list, k + 1, vma)]
       ELSE [s EXCEPT !.fate = "overlap"]

\* the test in mm_map: only the vma that contains the start is looked at
in_the_way(m, start, end) ==
    find_vma(m, start) # NONE /\ end > find_vma(m, start).vm_start

\* mm_map; ret says whether it refused
mm_map(s, vma) ==
    LET m == cache(s.m, find_vma(s.m, vma.vm_start))
    IN IF ~USER_ACCESS(vma.vm_start, vma.vm_end) THEN [s EXCEPT !.ret = "E_INVAL"]
       ELSE IF in_the_way(s.m, vma.vm_start, vma.vm_end)
       THEN [s EXCEPT !.m = m, !.ret = "E_INVAL"]
       ELSE insert_vma_struct([s EXCEPT !.m = m], vma)
-----------------------------------------------------------------------------
\* Mutant: the frame stays with nobody.
page_remove_pte_kept(s, gone) == [s EXCEPT !.m.pages = @ \ gone]

page_remove_pte(s, gone) == [s EXCEPT !.m.pages = @ \ gone, !.free = @ + Cardinality(gone)]

Covered(list) == UNION {Pages(list[i]) : i \in DOMAIN list}

\* unmap_range of every vma
unmap_range(s) == page_remove_pte(s, s.m.pages \cap Covered(s.m.mmap_list))

\* exit_range within one level 0 directory d: the empty page tables of the range go,
\* and with them the directory, unless an entry in the range was invalid.  Entries
\* outside the range are not looked at.
exit_directory(s, vma, d) ==
    LET range == {PDX0(la) : la \in {x \in Pages(vma) : PDX1(x) = d}}
        empty == {t \in range \cap s.m.pt : \A la \in s.m.pages : PDX0(la) # t}
        t == [s EXCEPT !.m.pt = @ \ empty, !.free = @ + Cardinality(empty)]
        left == {x \in t.m.pt : x \div PdN = d}
    IN IF d \notin s.m.pd0 THEN s
       ELSE IF ~(range \subseteq s.m.pt) THEN t
       ELSE [t EXCEPT !.m.pd0 = @ \ {d}, !.m.pt = @ \ left, !.free = @ + 1,
                      !.lost = @ + Cardinality(left)]

exit_range(s, vma) ==
    LET d == PDX1(vma.vm_start)
    IN Loop(LAMBDA t, k : exit_directory(t, vma, d + k - 1), s, PDX1(vma.vm_end - 1) - d + 1)

\* exit_mmap: all pages first, then the tables
exit_mmap(s) ==
    LET list == s.m.mmap_list
    IN Loop(LAMBDA t, k : exit_range(t, list[k]), unmap_range(s), Len(list))

\* exit_mmap, put_pgdir and mm_destroy; tables still in place are lost
put_mm(s) ==
    LET t == exit_mmap(s)
    IN [t EXCEPT !.m = NONE, !.free = @ + 1,
                 !.lost = @ + Cardinality(t.m.pd0) + Cardinality(t.m.pt) + Cardinality(t.m.pages)]
-----------------------------------------------------------------------------
Stack == [vm_start |-> UserTop - StackPages, vm_end |-> UserTop, vm_flags |-> {"R", "W", "STACK"}]

\* one segment of load_icode.  A segment whose file ends early fails after its first page.
load_segment(s, seg) ==
    LET t == mm_map(s, seg.vma)
    IN IF s.fate # "ok" \/ s.ret # "OK" THEN s
       ELSE IF t.fate # "ok" \/ t.ret # "OK" THEN t
       ELSE IF seg.short THEN [pgdir_alloc_page(t, seg.vma.vm_start) EXCEPT !.ret = "E_READ"]
       ELSE alloc_all(t, Upwards(seg.vma), Pages(seg.vma))

load_segments(s, segs) == Loop(LAMBDA t, k : load_segment(t, segs[k]), s, Len(segs))

\* load_icode: mm_create, setup_pgdir, the segments, the stack and its last pages;
\* bad_cleanup_mmap when one of these fails
load_icode(s, segs) ==
    LET a == [alloc_page(s) EXCEPT !.m = mm_create]
        b == IF a.fate # "ok" THEN a ELSE load_segments(a, segs)
        c == IF b.fate # "ok" \/ b.ret # "OK" THEN b ELSE mm_map(b, Stack)
    IN IF c.fate # "ok" THEN c
       ELSE IF c.ret # "OK" THEN put_mm(c)
       ELSE alloc_all(c, [k \in 1..StackReady |-> UserTop - k], Pages(Stack))

Spread(m) ==
    /\ m # NONE
    /\ \E i, j \in DOMAIN m.mmap_list :
          \E a \in Pages(m.mmap_list[i]), b \in Pages(m.mmap_list[j]) :
              PDX1(a) = PDX1(b) /\ PDX0(a) # PDX0(b)

Set(s) == nr_free' = s.free /\ lost' = s.lost /\ fate' = s.fate

\* the mm that load_icode had before it gave up
before_cleanup(s, segs) == load_segments([alloc_page(s) EXCEPT !.m = mm_create], segs).m

\* do_execve: the old mm goes, the new one comes; when that fails, do_exit without one
do_execve(p, segs) ==
    /\ fate = "ok" /\ p \in alive
    /\ LET gone == IF mm[p] = NONE THEN Work(NONE) ELSE put_mm(Work(mm[p]))
           s == load_icode(gone, segs)
       IN /\ Set(s)
          /\ mm' = [mm EXCEPT ![p] = s.m]
          /\ alive' = IF s.ret # "OK" /\ s.fate = "ok" THEN alive \ {p} ELSE alive
          /\ spread' = (spread \/ Spread(s.m) \/ (s.ret # "OK" /\ Spread(before_cleanup(gone, segs))))
    /\ prog' = segs

\* do_exit of a process with an mm
do_exit(p) ==
    /\ fate = "ok" /\ p \in alive /\ mm[p] # NONE
    /\ Set(put_mm(Work(mm[p])))
    /\ mm' = [mm EXCEPT ![p] = NONE]
    /\ alive' = alive \ {p}
    /\ UNCHANGED <<spread, prog>>

\* copy_range, with the vma that dup_mmap inserts first
copy_vma(from, vma, s) ==
    LET t == insert_vma_struct(s, vma)
    IN IF s.fate # "ok" THEN s ELSE alloc_all(t, Upwards(vma), from.pages)

\* dup_mmap: the list is walked from its end
dup_mmap(s, from) ==
    LET list == from.mmap_list
    IN Loop(LAMBDA t, k : copy_vma(from, list[Len(list) - k + 1], t), s, Len(list))

\* do_fork, copy_mm without CLONE_VM
do_fork(p, c) ==
    /\ fate = "ok" /\ p \in alive /\ mm[p] # NONE /\ c \notin alive
    /\ LET s == dup_mmap([alloc_page(Work(NONE)) EXCEPT !.m = mm_create], mm[p])
       IN Set(s) /\ mm' = [mm EXCEPT ![c] = s.m]
    /\ alive' = alive \cup {c}
    /\ UNCHANGED <<spread, prog>>

\* an access that faults: the page is not mapped, or is written and may not be
Faults(m, la, write) ==
    la \notin m.pages \/ (write /\ find_vma(m, la) # NONE /\ "W" \notin find_vma(m, la).vm_flags)

\* pgfault_handler, do_pgfault; a page that is mapped is taken for one on the swap disk,
\* whose number swap_in refuses
do_pgfault(p, la, write) ==
    /\ fate = "ok" /\ p \in alive /\ mm[p] # NONE /\ Faults(mm[p], la, write)
    /\ LET vma == find_vma(mm[p], la)
           s == get_pte(Work(cache(mm[p], vma)), la)
           t == IF vma = NONE THEN [Work(mm[p]) EXCEPT !.fate = "pgfault"]
                ELSE IF s.fate # "ok" THEN s
                ELSE IF la \in mm[p].pages THEN [s EXCEPT !.fate = "swap_in"]
                ELSE pgdir_alloc_page(s, la)
       IN Set(t) /\ mm' = [mm EXCEPT ![p] = t.m]
    /\ UNCHANGED <<alive, spread, prog>>

\* Mutant: the bottom page of the stack may be written.
stack_bottom_none(vma, start) == FALSE

\* check stack start & size
stack_bottom(vma, start) == "STACK" \in vma.vm_flags /\ start < vma.vm_start + 1

\* user_mem_check: one round per vma; with the last vma that find_vma found
check_rounds(m, addr, len, write) ==
    LET round[start \in 0..UserTop] ==
            LET vma == find_vma(m, start)
                next == round[vma.vm_end]
            IN IF start >= addr + len THEN [ok |-> TRUE, last |-> NONE]
               ELSE IF vma = NONE THEN [ok |-> FALSE, last |-> NONE]
               ELSE IF (IF write THEN "W" ELSE "R") \notin vma.vm_flags
                       \/ (write /\ stack_bottom(vma, start))
               THEN [ok |-> FALSE, last |-> vma]
               ELSE [ok |-> next.ok, last |-> IF next.last = NONE THEN vma ELSE next.last]
    IN round[addr]

user_mem_check(m, addr, len, write) ==
    USER_ACCESS(addr, addr + len) /\ check_rounds(m, addr, len, write).ok

\* a system call that is passed a buffer: what user_mem_check leaves in the cache.
\* The pages it then touches may fault.
copy_user(p, addr, len, write) ==
    /\ fate = "ok" /\ p \in alive /\ mm[p] # NONE /\ USER_ACCESS(addr, addr + len)
    /\ mm' = [mm EXCEPT ![p] = cache(@, check_rounds(@, addr, len, write).last)]
    /\ UNCHANGED <<alive, nr_free, fate, lost, spread, prog>>

Next ==
    \E p \in Procs :
        \/ \E segs \in Programs : do_execve(p, segs)
        \/ do_exit(p)
        \/ \E c \in Procs : do_fork(p, c)
        \/ \E la \in 0..UserTop, write \in BOOLEAN : do_pgfault(p, la, write)
        \/ \E addr, len \in UserBase..UserTop, write \in BOOLEAN : copy_user(p, addr, len, write)

Spec == Init /\ [][Next]_vars
-----------------------------------------------------------------------------
Live == {p \in Procs : mm[p] # NONE}
Overlap(v, w) == Pages(v) \cap Pages(w) # {}

\* Every list of vmas is sorted and disjoint within the user's range, contains the
\* cached vma and every page that is mapped, and every page hangs off a table that
\* hangs off a directory: what find_vma, unmap_range and exit_range rely on.
MmSound ==
    fate = "ok" => \A p \in Live :
        LET m == mm[p]
            V == Range(m.mmap_list)
        IN /\ \A v \in V : USER_ACCESS(v.vm_start, v.vm_end)
           /\ \A i, j \in DOMAIN m.mmap_list :
                 i < j => m.mmap_list[i].vm_end <= m.mmap_list[j].vm_start
           /\ m.mmap_cache \in V \cup {NONE}
           /\ m.pages \subseteq UNION {Pages(v) : v \in V}
           /\ {PDX0(la) : la \in m.pages} \subseteq m.pt
           /\ {t \div PdN : t \in m.pt} \subseteq m.pd0

\* the frames of an address space: its directory, the tables and the pages
Frames(p, m) ==
    {<<p, "pgdir", 0>>} \cup {<<p, "pd0", d>> : d \in m.pd0}
    \cup {<<p, "pt", t>> : t \in m.pt} \cup {<<p, "page", la>> : la \in m.pages}

\* No frame is freed twice or forgotten, through fork, exec with a program that
\* fails half way, page faults and exit: the free ones, those of the address spaces
\* and the tables exit_range loses add up.  And exit_range loses tables only of an
\* address space in which one directory serves several page tables.  A program whose
\* text and data fit in one table loses none; user/testbss.c:4-6, with 4 MB of data
\* under the directory of its text, does.
FramesAccounted ==
    /\ fate = "ok" => nr_free + lost + Cardinality(UNION {Frames(p, mm[p]) : p \in Live}) = NFrames
    /\ lost > 0 => spread

\* The assertion against overlapping vmas in insert_vma_struct stops the kernel only
\* for a program whose segments do overlap each other or the stack.
OverlapOnlyIfAsked ==
    fate = "overlap" =>
        LET W == Append([i \in DOMAIN prog |-> prog[i].vma], Stack)
        IN \E i, j \in DOMAIN W : i < j /\ Overlap(W[i], W[j])

\* user_mem_check walks from vma to vma; it accepts a buffer exactly when every page
\* of it is in a vma that allows the access and none that is written is the bottom
\* page of the stack.
UserMemCheckExact ==
    fate = "ok" => \A p \in Live, addr, len \in 0..UserTop, write \in BOOLEAN :
        user_mem_check(mm[p], addr, len, write) <=>
            /\ len > 0 /\ addr >= UserBase /\ addr + len <= UserTop
            /\ \A la \in addr..(addr + len - 1) : \E v \in Range(mm[p].mmap_list) :
                  /\ la \in Pages(v)
                  /\ (IF write THEN "W" ELSE "R") \in v.vm_flags
                  /\ write /\ "STACK" \in v.vm_flags => la # v.vm_start
=============================================================================
