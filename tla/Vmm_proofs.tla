---------------------------- MODULE Vmm_proofs ----------------------------
(***************************************************************************)
(* Proofs about Vmm, for any sizes of tables, any user range, any number   *)
(* of frames and any programs: the vmas of an address space are sorted and *)
(* disjoint and hold every page that is mapped, no frame is freed twice or *)
(* forgotten, the assertion against overlaps fails only where the program  *)
(* asks for it, and user_mem_check is exact.                               *)
(*                                                                         *)
(* Sound says of one address space what all functions rely on.  Its core   *)
(* (Tables) relates the pages, the page tables and the directories in both *)
(* directions: every page has its table and every table its directory, and *)
(* no table or directory is there without a page of some vma under it.     *)
(* The second direction is why put_mm finds every table again: exit_range  *)
(* visits the directories of the vmas.  Each function keeps the sum of the *)
(* frames (Total): what get_pte takes it puts into the tables, and what    *)
(* exit_range takes out of them is free or lost.                           *)
(*                                                                         *)
(* The loops of the code are recursive functions in Vmm; that each has its *)
(* values (RoundsExist, WalkExists) comes before what they compute.        *)
(***************************************************************************)
EXTENDS Vmm, ListLemmas
-----------------------------------------------------------------------------
Results == {"OK", "E_INVAL", "E_READ"}
Fates == {"ok", "swap_out", "overlap", "pgfault", "swap_in"}
WorkType == [m : Mm, free : Int, lost : Nat, fate : Fates, ret : Results]

Finite(m) == IsFiniteSet(m.pd0) /\ IsFiniteSet(m.pt) /\ IsFiniteSet(m.pages)

\* The tables and the pages of m lie under vmas that cover cov.
Tables(cov, m) ==
    /\ Finite(m)
    /\ m.pages \subseteq cov
    /\ \A la \in m.pages : PDX0(la) \in m.pt
    /\ \A t \in m.pt : t \div PdN \in m.pd0 /\ \E la \in cov : PDX0(la) = t
    /\ \A d \in m.pd0 : \E t \in m.pt : t \div PdN = d

\* The list of vmas is sorted, and its vmas are disjoint user ranges.
VmasOK(list) ==
    /\ list \in Seq(Vma)
    /\ \A i \in DOMAIN list : USER_ACCESS(list[i].vm_start, list[i].vm_end)
    /\ \A i, j \in DOMAIN list : i < j => list[i].vm_end <= list[j].vm_start

In(list, v) == \E i \in DOMAIN list : list[i] = v

Size(m) == 1 + Cardinality(m.pd0) + Cardinality(m.pt) + Cardinality(m.pages)
Total(s) == s.free + s.lost + Size(s.m)

\* What allocations on the way from s to t leave alone.
Same(s, t) ==
    /\ t.lost = s.lost /\ t.ret = s.ret
    /\ t.m.mmap_list = s.m.mmap_list /\ t.m.mmap_cache = s.m.mmap_cache
    /\ t.fate = s.fate \/ t.fate = "swap_out"

Grown(cov, s, t) ==
    /\ t \in WorkType /\ Same(s, t)
    /\ t.fate = "ok" => Tables(cov, t.m) /\ Total(t) = Total(s)
-----------------------------------------------------------------------------
(* Arithmetic of tables.                                                   *)

LEMMA Numbers ==
    /\ PtN \in Nat /\ PtN > 0 /\ PdN \in Nat /\ PdN > 0
    /\ UserBase \in Nat /\ UserTop \in Nat /\ StackPages \in Nat /\ NFrames \in Nat
    /\ StackReady \in 1..StackPages /\ UserBase + StackPages < UserTop
  BY VmmAssumption

LEMMA Quotient ==
    ASSUME NEW n \in Nat, NEW b \in Nat, b > 0
    PROVE  n \div b \in Nat /\ (n \div b) * b <= n /\ n < (n \div b) * b + b
  OBVIOUS

LEMMA QuotientUnique ==
    ASSUME NEW n \in Nat, NEW b \in Nat, b > 0, NEW q \in Nat, q * b <= n, n < q * b + b
    PROVE  n \div b = q
<1> DEFINE p == n \div b
<1>1. p \in Nat /\ p * b <= n /\ n < p * b + b
  BY Quotient
<1> HIDE DEF p
<1>2. p * b < q * b + b /\ q * b < p * b + b
  BY <1>1
<1>3. p * b < (q + 1) * b /\ q * b < (p + 1) * b
  BY <1>1, <1>2
<1>4. p < q + 1 /\ q < p + 1
  BY ONLY <1>1, <1>3, b \in Nat, b > 0, q \in Nat
<1>5. QED
  BY <1>1, <1>4 DEF p

LEMMA QuotientMonotone ==
    ASSUME NEW m \in Nat, NEW n \in Nat, m <= n, NEW b \in Nat, b > 0
    PROVE  m \div b <= n \div b
<1> DEFINE p == m \div b
           q == n \div b
<1>1. p \in Nat /\ p * b <= m /\ q \in Nat /\ n < q * b + b
  BY Quotient
<1> HIDE DEF p, q
<1>2. p * b < (q + 1) * b
  BY <1>1
<1>3. p < q + 1
  BY ONLY <1>1, <1>2, b \in Nat, b > 0
<1>4. QED
  BY <1>1, <1>3 DEF p, q

\* The directory of an address is the directory of its page table.
LEMMA DirectoryOfTable ==
    ASSUME NEW la \in Nat
    PROVE  PDX0(la) \in Nat /\ PDX1(la) \in Nat /\ PDX0(la) \div PdN = PDX1(la)
<1> DEFINE t == la \div PtN
           d == t \div PdN
           b == PtN * PdN
<1>0. PtN \in Nat /\ PtN > 0 /\ PdN \in Nat /\ PdN > 0
  BY Numbers
<1>1. t \in Nat /\ t * PtN <= la /\ la < t * PtN + PtN
  BY <1>0, Quotient
<1> HIDE DEF t
<1>2. d \in Nat /\ d * PdN <= t /\ t < d * PdN + PdN
  BY <1>0, <1>1, Quotient
<1> HIDE DEF d
<1>3. b \in Nat /\ b > 0
  BY <1>0
<1>4. d * b <= la
  <2>1. (d * PdN) * PtN <= t * PtN
    BY ONLY <1>0, <1>1, <1>2
  <2>2. (d * PdN) * PtN = d * b
    BY ONLY <1>0, <1>2 DEF b
  <2>3. QED
    BY ONLY <1>0, <1>1, <1>2, <2>1, <2>2, <1>3, la \in Nat
<1>5. la < d * b + b
  <2>1. t + 1 <= d * PdN + PdN
    BY ONLY <1>0, <1>1, <1>2
  <2>2. (t + 1) * PtN <= (d * PdN + PdN) * PtN
    BY ONLY <1>0, <1>1, <1>2, <2>1
  <2>3. (d * PdN + PdN) * PtN = d * b + b /\ (t + 1) * PtN = t * PtN + PtN
    BY ONLY <1>0, <1>1, <1>2 DEF b
  <2>4. QED
    BY ONLY <1>0, <1>1, <1>2, <2>2, <2>3, <1>3, la \in Nat
<1> HIDE DEF b
<1>6. la \div b = d
  BY ONLY <1>2, <1>3, <1>4, <1>5, la \in Nat, QuotientUnique
<1>7. QED
  BY <1>1, <1>2, <1>6 DEF PDX0, PDX1, t, d, b

\* Every directory between those of the first and the last page has a page.
LEMMA DirectoryHit ==
    ASSUME NEW a \in Nat, NEW z \in Nat, a <= z, NEW d \in PDX1(a)..PDX1(z)
    PROVE  \E la \in a..z : PDX1(la) = d
<1> DEFINE b == PtN * PdN
<1>0. b \in Nat /\ b > 0
  BY Numbers
<1>1. a \div b \in Nat /\ z \div b \in Nat /\ (z \div b) * b <= z
  BY <1>0, Quotient
<1>2. d \in (a \div b)..(z \div b)
  BY DEF PDX1
<1> DEFINE p == a \div b
           q == z \div b
<1>3. p \in Nat /\ q \in Nat /\ q * b <= z /\ d \in p..q
  BY <1>1, <1>2
<1> HIDE DEF b
<1>4. CASE d = p
  <2>1. a \in a..z /\ PDX1(a) = d
    BY <1>4 DEF PDX1, b
  <2>2. QED
    BY <2>1
<1>5. CASE d # p
  <2> DEFINE la == d * b
  <2>1. p + 1 <= d /\ d \in Nat /\ d <= q
    BY <1>3, <1>5
  <2>2. a < p * b + b
    BY <1>0, Quotient
  <2> HIDE DEF p, q
  <2>3. (p + 1) * b <= d * b /\ d * b <= q * b /\ (p + 1) * b = p * b + b
    BY ONLY <1>0, <1>3, <2>1
  <2>4. la \in Nat
    BY <1>0, <2>1
  <2>5. la \in a..z
    BY ONLY <1>0, <1>3, <2>1, <2>2, <2>3, <2>4, a \in Nat, z \in Nat
  <2>6. d * b <= la /\ la < d * b + b
    BY <1>0, <2>1
  <2> HIDE DEF la
  <2>7. la \div b = d
    BY ONLY <1>0, <2>1, <2>4, <2>6, QuotientUnique
  <2>8. QED
    BY <2>5, <2>7 DEF PDX1, b
<1>6. QED
  BY <1>4, <1>5
-----------------------------------------------------------------------------
(* Frames are allocated.                                                   *)

LEMMA OneMore ==
    ASSUME NEW S, IsFiniteSet(S), NEW x, x \notin S, NEW T, T = S \cup {x}
    PROVE  IsFiniteSet(T) /\ Cardinality(T) = Cardinality(S) + 1
  BY FS_AddElement

LEMMA SizeType ==
    ASSUME NEW m, Finite(m)
    PROVE  /\ Size(m) \in Nat
           /\ Cardinality(m.pd0) \in Nat /\ Cardinality(m.pt) \in Nat /\ Cardinality(m.pages) \in Nat
<1>1. Cardinality(m.pd0) \in Nat /\ Cardinality(m.pt) \in Nat /\ Cardinality(m.pages) \in Nat
  BY FS_CardinalityType DEF Finite
<1>2. QED
  BY <1>1 DEF Size

LEMMA AllocPage ==
    ASSUME NEW s \in WorkType
    PROVE  /\ alloc_page(s) \in WorkType /\ alloc_page(s).m = s.m /\ Same(s, alloc_page(s))
           /\ alloc_page(s).fate = "ok" => alloc_page(s).free = s.free - 1
           /\ s.fate = "ok" => alloc_page(s).fate \in {"ok", "swap_out"}
  BY DEF alloc_page, WorkType, Same, Fates

\* A directory, a table or a page is added.
AddDir(s, x) == [s EXCEPT !.m.pd0 = @ \cup {x}]
AddTable(s, x) == [s EXCEPT !.m.pt = @ \cup {x}]
AddPage(s, x) == [s EXCEPT !.m.pages = @ \cup {x}]

LEMMA AddDirFacts ==
    ASSUME NEW s \in WorkType, NEW x \in Nat
    PROVE  /\ AddDir(s, x) \in WorkType /\ Same(s, AddDir(s, x))
           /\ AddDir(s, x).free = s.free /\ AddDir(s, x).fate = s.fate
           /\ AddDir(s, x).m.pd0 = s.m.pd0 \cup {x}
           /\ AddDir(s, x).m.pt = s.m.pt /\ AddDir(s, x).m.pages = s.m.pages
  BY DEF AddDir, WorkType, Same, Mm

LEMMA AddTableFacts ==
    ASSUME NEW s \in WorkType, NEW x \in Nat
    PROVE  /\ AddTable(s, x) \in WorkType /\ Same(s, AddTable(s, x))
           /\ AddTable(s, x).free = s.free /\ AddTable(s, x).fate = s.fate
           /\ AddTable(s, x).m.pt = s.m.pt \cup {x}
           /\ AddTable(s, x).m.pd0 = s.m.pd0 /\ AddTable(s, x).m.pages = s.m.pages
  BY DEF AddTable, WorkType, Same, Mm

LEMMA AddPageFacts ==
    ASSUME NEW s \in WorkType, NEW x \in Nat
    PROVE  /\ AddPage(s, x) \in WorkType /\ Same(s, AddPage(s, x))
           /\ AddPage(s, x).free = s.free /\ AddPage(s, x).fate = s.fate
           /\ AddPage(s, x).m.pages = s.m.pages \cup {x}
           /\ AddPage(s, x).m.pd0 = s.m.pd0 /\ AddPage(s, x).m.pt = s.m.pt
  BY DEF AddPage, WorkType, Same, Mm

\* What get_pte does to the directories, and then to the tables.
LEMMA NewDir ==
    ASSUME NEW s \in WorkType, NEW x \in Nat, x \notin s.m.pd0, Finite(s.m), NEW t, t = AddDir(alloc_page(s), x)
    PROVE  /\ t \in WorkType /\ Same(s, t) /\ (s.fate = "ok" => t.fate \in {"ok", "swap_out"})
           /\ t.m.pd0 = s.m.pd0 \cup {x} /\ t.m.pt = s.m.pt /\ t.m.pages = s.m.pages
           /\ Finite(t.m) /\ (t.fate = "ok" => Total(t) = Total(s))
<1> DEFINE a == alloc_page(s)
<1>1. a \in WorkType /\ a.m = s.m /\ Same(s, a) /\ (a.fate = "ok" => a.free = s.free - 1)
      /\ (s.fate = "ok" => a.fate \in {"ok", "swap_out"})
  BY AllocPage
<1>2. t = AddDir(a, x)
  OBVIOUS
<1> HIDE DEF a
<1>3. /\ t \in WorkType /\ Same(a, t) /\ t.free = a.free /\ t.fate = a.fate
      /\ t.m.pd0 = a.m.pd0 \cup {x} /\ t.m.pt = a.m.pt /\ t.m.pages = a.m.pages
  BY ONLY <1>1, <1>2, AddDirFacts, x \in Nat
<1>4. IsFiniteSet(t.m.pd0) /\ Cardinality(t.m.pd0) = Cardinality(s.m.pd0) + 1
  <2>1. IsFiniteSet(s.m.pd0) /\ t.m.pd0 = s.m.pd0 \cup {x}
    BY ONLY <1>1, <1>3, Finite(s.m) DEF Finite
  <2>2. QED
    BY ONLY <2>1, x \notin s.m.pd0, OneMore
<1>5. Finite(t.m)
  BY ONLY <1>1, <1>3, <1>4, Finite(s.m) DEF Finite
<1>6. Same(s, t)
  BY ONLY <1>1, <1>3 DEF Same
<1>7. t.fate = "ok" => Total(t) = Total(s)
  <2>1. /\ Cardinality(s.m.pd0) \in Nat /\ Cardinality(s.m.pt) \in Nat /\ Cardinality(s.m.pages) \in Nat
    BY SizeType
  <2>2. s.free \in Int /\ s.lost \in Int
    BY DEF WorkType
  <2>3. t.fate = "ok" => t.free = s.free - 1 /\ t.lost = s.lost
    BY ONLY <1>1, <1>3, <1>6 DEF Same
  <2>4. QED
    BY ONLY <1>1, <1>3, <1>4, <2>1, <2>2, <2>3 DEF Total, Size
<1>8. QED
  BY <1>1, <1>3, <1>5, <1>6, <1>7

LEMMA NewTable ==
    ASSUME NEW s \in WorkType, NEW x \in Nat, x \notin s.m.pt, Finite(s.m), NEW t, t = AddTable(alloc_page(s), x)
    PROVE  /\ t \in WorkType /\ Same(s, t) /\ (s.fate = "ok" => t.fate \in {"ok", "swap_out"})
           /\ t.m.pt = s.m.pt \cup {x} /\ t.m.pd0 = s.m.pd0 /\ t.m.pages = s.m.pages
           /\ Finite(t.m) /\ (t.fate = "ok" => Total(t) = Total(s))
<1> DEFINE a == alloc_page(s)
<1>1. a \in WorkType /\ a.m = s.m /\ Same(s, a) /\ (a.fate = "ok" => a.free = s.free - 1)
      /\ (s.fate = "ok" => a.fate \in {"ok", "swap_out"})
  BY AllocPage
<1>2. t = AddTable(a, x)
  OBVIOUS
<1> HIDE DEF a
<1>3. /\ t \in WorkType /\ Same(a, t) /\ t.free = a.free /\ t.fate = a.fate
      /\ t.m.pt = a.m.pt \cup {x} /\ t.m.pd0 = a.m.pd0 /\ t.m.pages = a.m.pages
  BY ONLY <1>1, <1>2, AddTableFacts, x \in Nat
<1>4. IsFiniteSet(t.m.pt) /\ Cardinality(t.m.pt) = Cardinality(s.m.pt) + 1
  <2>1. IsFiniteSet(s.m.pt) /\ t.m.pt = s.m.pt \cup {x}
    BY ONLY <1>1, <1>3, Finite(s.m) DEF Finite
  <2>2. QED
    BY ONLY <2>1, x \notin s.m.pt, OneMore
<1>5. Finite(t.m)
  BY ONLY <1>1, <1>3, <1>4, Finite(s.m) DEF Finite
<1>6. Same(s, t)
  BY ONLY <1>1, <1>3 DEF Same
<1>7. t.fate = "ok" => Total(t) = Total(s)
  <2>1. /\ Cardinality(s.m.pd0) \in Nat /\ Cardinality(s.m.pt) \in Nat /\ Cardinality(s.m.pages) \in Nat
    BY SizeType
  <2>2. s.free \in Int /\ s.lost \in Int
    BY DEF WorkType
  <2>3. t.fate = "ok" => t.free = s.free - 1 /\ t.lost = s.lost
    BY ONLY <1>1, <1>3, <1>6 DEF Same
  <2>4. QED
    BY ONLY <1>1, <1>3, <1>4, <2>1, <2>2, <2>3 DEF Total, Size
<1>8. QED
  BY <1>1, <1>3, <1>5, <1>6, <1>7

LEMMA GetPte ==
    ASSUME NEW cov \in SUBSET Nat, NEW s \in WorkType, s.fate = "ok", Tables(cov, s.m), NEW la \in cov,
           NEW t, t = get_pte(s, la)
    PROVE  /\ Grown(cov, s, t) /\ t.fate \in {"ok", "swap_out"} /\ t.m.pages = s.m.pages
           /\ t.fate = "ok" => PDX0(la) \in t.m.pt
<1> DEFINE x == PDX1(la)
           y == PDX0(la)
           d == IF s.fate # "ok" \/ x \in s.m.pd0 THEN s ELSE AddDir(alloc_page(s), x)
<1>1. x \in Nat /\ y \in Nat /\ y \div PdN = x /\ PDX0(la) = y
  BY DirectoryOfTable
<1>2. t = IF d.fate # "ok" \/ y \in d.m.pt THEN d ELSE AddTable(alloc_page(d), y)
  BY DEF get_pte, AddDir, AddTable
<1>3. Finite(s.m)
  BY DEF Tables
<1> HIDE DEF x, y
<1>4. /\ d \in WorkType /\ Same(s, d) /\ d.fate \in {"ok", "swap_out"}
      /\ d.m.pd0 = s.m.pd0 \cup {x} /\ d.m.pt = s.m.pt /\ d.m.pages = s.m.pages
      /\ Finite(d.m) /\ (d.fate = "ok" => Total(d) = Total(s))
  <2>1. CASE x \in s.m.pd0
    <3>1. d = s /\ s.m.pd0 \cup {x} = s.m.pd0
      BY <2>1, s.fate = "ok"
    <3> HIDE DEF d
    <3>2. QED
      BY ONLY <1>3, <3>1, s \in WorkType, s.fate = "ok" DEF Same
  <2>2. CASE x \notin s.m.pd0
    <3>1. d = AddDir(alloc_page(s), x)
      BY <2>2
    <3> HIDE DEF d
    <3>2. QED
      BY ONLY <1>1, <1>3, <2>2, <3>1, s \in WorkType, s.fate = "ok", NewDir
  <2>3. QED
    BY <2>1, <2>2
<1> HIDE DEF d
<1>5. /\ t \in WorkType /\ Same(d, t) /\ t.fate \in {"ok", "swap_out"}
      /\ (t.fate = "ok" => d.fate = "ok" /\ t.m.pt = d.m.pt \cup {y}) /\ t.m.pd0 = d.m.pd0 /\ t.m.pages = d.m.pages
      /\ Finite(t.m) /\ (t.fate = "ok" => Total(t) = Total(d))
  <2>1. CASE d.fate # "ok" \/ y \in d.m.pt
    <3>1. t = d /\ (d.fate = "ok" => d.m.pt \cup {y} = d.m.pt)
      BY <1>2, <2>1
    <3>2. QED
      BY ONLY <1>4, <3>1 DEF Same
  <2>2. CASE d.fate = "ok" /\ y \notin d.m.pt
    <3>1. t = AddTable(alloc_page(d), y)
      BY <1>2, <2>2
    <3>2. /\ t \in WorkType /\ Same(d, t) /\ t.fate \in {"ok", "swap_out"}
          /\ t.m.pt = d.m.pt \cup {y} /\ t.m.pd0 = d.m.pd0 /\ t.m.pages = d.m.pages
          /\ Finite(t.m) /\ (t.fate = "ok" => Total(t) = Total(d))
      BY ONLY <1>1, <1>4, <2>2, <3>1, NewTable
    <3>3. QED
      BY ONLY <2>2, <3>2
  <2>3. QED
    BY <2>1, <2>2
<1>6. Same(s, t)
  BY ONLY <1>4, <1>5 DEF Same
<1>7. t.fate = "ok" => Tables(cov, t.m)
  <2> SUFFICES ASSUME t.fate = "ok" PROVE Tables(cov, t.m)
    OBVIOUS
  <2>1. t.m.pd0 = s.m.pd0 \cup {x} /\ t.m.pt = s.m.pt \cup {y} /\ t.m.pages = s.m.pages
    BY <1>4, <1>5
  <2>2. QED
    BY ONLY <1>1, <1>5, <2>1, Tables(cov, s.m), la \in cov DEF Tables
<1>8. t.fate = "ok" => Total(t) = Total(s) /\ y \in t.m.pt
  BY ONLY <1>4, <1>5
<1>9. QED
  BY ONLY <1>1, <1>4, <1>5, <1>6, <1>7, <1>8 DEF Grown

\* A page that was not mapped is.
LEMMA PgdirAllocPage ==
    ASSUME NEW cov \in SUBSET Nat, NEW s \in WorkType, s.fate = "ok" => Tables(cov, s.m),
           NEW la \in cov, s.fate = "ok" => la \notin s.m.pages,
           NEW t, t = pgdir_alloc_page(s, la)
    PROVE  Grown(cov, s, t) /\ (t.fate = "ok" => t.m.pages \subseteq s.m.pages \cup {la})
<1>1. CASE s.fate # "ok"
  BY <1>1 DEF pgdir_alloc_page, Grown, Same
<1>2. CASE s.fate = "ok"
  <2> DEFINE a == alloc_page(s)
             b == get_pte(a, la)
  <2>1. a \in WorkType /\ a.m = s.m /\ Same(s, a) /\ a.fate \in {"ok", "swap_out"}
        /\ (a.fate = "ok" => a.free = s.free - 1)
    BY <1>2, AllocPage
  <2>2. t = IF b.fate # "ok" THEN b ELSE AddPage(b, la)
    BY <1>2 DEF pgdir_alloc_page, AddPage
  <2>3. CASE a.fate # "ok"
    <3>1. b = a
      BY <2>3 DEF get_pte
    <3> HIDE DEF a, b
    <3>2. t = a
      BY <2>2, <2>3, <3>1
    <3>3. QED
      BY ONLY <2>1, <2>3, <3>2 DEF Grown
  <2>4. CASE a.fate = "ok"
    <3> HIDE DEF a
    <3>1. Tables(cov, a.m)
      BY <1>2, <2>1
    <3>2. Grown(cov, a, b) /\ b.fate \in {"ok", "swap_out"} /\ b.m.pages = a.m.pages
          /\ (b.fate = "ok" => PDX0(la) \in b.m.pt)
      BY <2>1, <2>4, <3>1, GetPte
    <3> HIDE DEF b
    <3>3. Same(s, b) /\ b \in WorkType
      BY ONLY <2>1, <3>2 DEF Grown, Same
    <3>4. CASE b.fate # "ok"
      BY ONLY <2>2, <3>3, <3>4 DEF Grown
    <3>5. CASE b.fate = "ok"
      <4>0. la \in Nat
        OBVIOUS
      <4>1. /\ t \in WorkType /\ Same(b, t) /\ t.free = b.free /\ t.fate = b.fate
            /\ t.m.pages = b.m.pages \cup {la} /\ t.m.pd0 = b.m.pd0 /\ t.m.pt = b.m.pt
        <5>1. t = AddPage(b, la)
          BY <2>2, <3>5
        <5>2. QED
          BY ONLY <3>3, <4>0, <5>1, AddPageFacts
      <4>2. Tables(cov, b.m) /\ Total(b) = Total(a)
        BY ONLY <3>2, <3>5 DEF Grown
      <4>3. IsFiniteSet(t.m.pages) /\ Cardinality(t.m.pages) = Cardinality(b.m.pages) + 1
        <5>1. IsFiniteSet(b.m.pages) /\ la \notin b.m.pages
          BY ONLY <1>2, <2>1, <3>2, <4>2, s.fate = "ok" => la \notin s.m.pages DEF Tables, Finite
        <5>2. t.m.pages = b.m.pages \cup {la}
          BY <4>1
        <5>3. QED
          BY ONLY <5>1, <5>2, OneMore
      <4>4. Tables(cov, t.m)
        BY ONLY <3>2, <3>5, <4>1, <4>2, <4>3, la \in cov DEF Tables, Finite
      <4>5. Total(t) = Total(s)
        <5>1. /\ Cardinality(b.m.pd0) \in Nat /\ Cardinality(b.m.pt) \in Nat /\ Cardinality(b.m.pages) \in Nat
          BY ONLY <4>2, SizeType DEF Tables
        <5>2. b.free \in Int /\ b.lost \in Int /\ t.lost = b.lost
          BY ONLY <3>3, <4>1 DEF WorkType, Same
        <5>3. Total(t) = Total(b) + 1
          BY ONLY <4>1, <4>3, <5>1, <5>2 DEF Total, Size
        <5>4. s.free \in Int /\ s.lost \in Int /\ a.lost = s.lost /\ Size(s.m) \in Nat
          BY ONLY <1>2, <2>1, s \in WorkType, s.fate = "ok" => Tables(cov, s.m), SizeType DEF WorkType, Same, Tables
        <5>5. Total(a) = Total(s) - 1
          BY ONLY <2>1, <2>4, <5>4 DEF Total
        <5>6. Total(s) \in Int
          BY ONLY <5>4 DEF Total
        <5>7. QED
          BY ONLY <4>2, <5>3, <5>5, <5>6
      <4>6. Same(s, t)
        BY ONLY <3>3, <4>1 DEF Same
      <4>7. t.m.pages \subseteq s.m.pages \cup {la}
        BY ONLY <2>1, <3>2, <4>1
      <4>8. QED
        BY ONLY <4>1, <4>4, <4>5, <4>6, <4>7 DEF Grown
    <3>6. QED
      BY <3>4, <3>5
  <2>5. QED
    BY <2>3, <2>4
<1>3. QED
  BY <1>1, <1>2
-----------------------------------------------------------------------------
(* Loops.                                                                  *)

\* Round k of the loop named kind, with arguments a, from state x.
Round(kind, a, x, k) ==
    IF kind = "alloc" THEN IF a[1][k] \in a[2] THEN pgdir_alloc_page(x, a[1][k]) ELSE x
    ELSE IF kind = "directories" THEN exit_directory(x, a[1], a[2] + k - 1)
    ELSE IF kind = "ranges" THEN exit_range(x, a[k])
    ELSE IF kind = "segments" THEN load_segment(x, a[k])
    ELSE copy_vma(a, a.mmap_list[Len(a.mmap_list) - k + 1], x)

\* g[k] is the state after k rounds.
Rounds(g, kind, a, s, N) == \A k \in 0..N : g[k] = IF k = 0 THEN s ELSE Round(kind, a, g[k - 1], k)

History(g, N) == g = [k \in 0..N |-> g[k]]

LEMMA RoundsExist ==
    ASSUME NEW kind, NEW a, NEW s, NEW N \in Nat
    PROVE  \E g : Rounds(g, kind, a, s, N) /\ History(g, N)
<1> DEFINE S == {n \in 0..N : \E g : Rounds(g, kind, a, s, n) /\ History(g, n)}
<1>1. 0 \in S
  <2> DEFINE g == [d \in 0..0 |-> s]
  <2>1. Rounds(g, kind, a, s, 0) /\ History(g, 0)
    BY DEF Rounds, History
  <2> HIDE DEF g
  <2>2. QED
    BY <2>1
<1>2. ASSUME NEW n \in 0..(N - 1), n \in S PROVE n + 1 \in S
  <2>0. n \in Int /\ n + 1 \in 0..N /\ 0 <= n
    OBVIOUS
  <2>1. PICK g : Rounds(g, kind, a, s, n)
    BY <1>2
  <2> DEFINE x == Round(kind, a, g[n], n + 1)
             h == [d \in 0..(n + 1) |-> IF d = n + 1 THEN x ELSE g[d]]
  <2>2. ASSUME NEW d \in 0..(n + 1) PROVE h[d] = IF d = 0 THEN s ELSE Round(kind, a, h[d - 1], d)
    <3>1. CASE d = n + 1
      <4>1. d - 1 = n /\ n \in 0..(n + 1) /\ n # n + 1 /\ d # 0
        BY <2>0, <3>1
      <4>2. h[n] = g[n] /\ h[d] = x
        BY ONLY <3>1, <4>1, d \in 0..(n + 1)
      <4>3. QED
        BY ONLY <3>1, <4>1, <4>2
    <3>2. CASE d # n + 1
      <4>1. d \in 0..n
        BY <2>0, <3>2
      <4>2. h[d] = g[d]
        BY ONLY <3>2, d \in 0..(n + 1)
      <4>3. g[d] = IF d = 0 THEN s ELSE Round(kind, a, g[d - 1], d)
        BY ONLY <2>1, <4>1 DEF Rounds
      <4>4. CASE d = 0
        BY ONLY <4>2, <4>3, <4>4
      <4>5. CASE d # 0
        <5>1. d - 1 \in 0..(n + 1) /\ d - 1 # n + 1
          BY <2>0, <4>1, <4>5
        <5>2. h[d - 1] = g[d - 1]
          BY ONLY <5>1
        <5>3. QED
          BY ONLY <4>2, <4>3, <4>5, <5>2
      <4>6. QED
        BY <4>4, <4>5
    <3>3. QED
      BY <3>1, <3>2
  <2>3. History(h, n + 1)
    BY DEF History
  <2> HIDE DEF h
  <2>4. Rounds(h, kind, a, s, n + 1)
    BY ONLY <2>2 DEF Rounds
  <2>5. QED
    BY <2>0, <2>3, <2>4
<1> HIDE DEF S
<1>3. N \in S
  <2>1. \A n \in 0..N : n \in S
    BY ONLY <1>1, <1>2, IntervalInduction, N \in Nat
  <2>2. QED
    BY ONLY <2>1, N \in Nat
<1>4. QED
  BY <1>3 DEF S

LEMMA AllocRuns ==
    ASSUME NEW s, NEW las, Len(las) \in Nat, NEW wanted
    PROVE  \E g : Rounds(g, "alloc", <<las, wanted>>, s, Len(las)) /\ alloc_all(s, las, wanted) = g[Len(las)]
<1> DEFINE n == Len(las)
           arg == <<las, wanted>>
           P(h) == h = [k \in 0..n |-> IF k = 0 THEN s ELSE IF las[k] \in wanted THEN pgdir_alloc_page(h[k - 1], las[k]) ELSE h[k - 1]]
           at == CHOOSE h : P(h)
<1>1. alloc_all(s, las, wanted) = at[n]
  BY DEF Loop, alloc_all
<1>2. n \in Nat
  OBVIOUS
<1>3. PICK g : Rounds(g, "alloc", arg, s, n) /\ History(g, n)
  <2> HIDE DEF n, arg
  <2>1. QED
    BY ONLY <1>2, RoundsExist
<1>4. P(g)
  <2> DEFINE h == [k \in 0..n |-> IF k = 0 THEN s ELSE IF las[k] \in wanted THEN pgdir_alloc_page(g[k - 1], las[k]) ELSE g[k - 1]]
  <2>1. \A k \in 0..n : g[k] = h[k]
    BY <1>3 DEF Rounds, Round
  <2>2. h = [k \in 0..n |-> h[k]]
    OBVIOUS
  <2> HIDE DEF h, n
  <2>3. g = h
    BY ONLY <1>3, <2>1, <2>2 DEF History
  <2>4. QED
    BY ONLY <2>3 DEF h, n
<1>5. P(at)
  BY <1>4
<1> HIDE DEF at
<1>6. Rounds(at, "alloc", arg, s, n)
  BY <1>5 DEF Rounds, Round
<1>7. QED
  BY <1>1, <1>6

LEMMA DirectoriesRun ==
    ASSUME NEW s, NEW vma, PDX1(vma.vm_end - 1) - PDX1(vma.vm_start) + 1 \in Nat
    PROVE  \E g : Rounds(g, "directories", <<vma, PDX1(vma.vm_start)>>, s, PDX1(vma.vm_end - 1) - PDX1(vma.vm_start) + 1) /\ exit_range(s, vma) = g[PDX1(vma.vm_end - 1) - PDX1(vma.vm_start) + 1]
<1> DEFINE n == PDX1(vma.vm_end - 1) - PDX1(vma.vm_start) + 1
           arg == <<vma, PDX1(vma.vm_start)>>
           P(h) == h = [k \in 0..n |-> IF k = 0 THEN s ELSE exit_directory(h[k - 1], vma, PDX1(vma.vm_start) + k - 1)]
           at == CHOOSE h : P(h)
<1>1. exit_range(s, vma) = at[n]
  BY DEF Loop, exit_range
<1>2. n \in Nat
  OBVIOUS
<1>3. PICK g : Rounds(g, "directories", arg, s, n) /\ History(g, n)
  <2> HIDE DEF n, arg
  <2>1. QED
    BY ONLY <1>2, RoundsExist
<1>4. P(g)
  <2> DEFINE h == [k \in 0..n |-> IF k = 0 THEN s ELSE exit_directory(g[k - 1], vma, PDX1(vma.vm_start) + k - 1)]
  <2>1. \A k \in 0..n : g[k] = h[k]
    BY <1>3 DEF Rounds, Round
  <2>2. h = [k \in 0..n |-> h[k]]
    OBVIOUS
  <2> HIDE DEF h, n
  <2>3. g = h
    BY ONLY <1>3, <2>1, <2>2 DEF History
  <2>4. QED
    BY ONLY <2>3 DEF h, n
<1>5. P(at)
  BY <1>4
<1> HIDE DEF at
<1>6. Rounds(at, "directories", arg, s, n)
  BY <1>5 DEF Rounds, Round
<1>7. QED
  BY <1>1, <1>6

LEMMA RangesRun ==
    ASSUME NEW s, Len(s.m.mmap_list) \in Nat
    PROVE  \E g : Rounds(g, "ranges", s.m.mmap_list, unmap_range(s), Len(s.m.mmap_list)) /\ exit_mmap(s) = g[Len(s.m.mmap_list)]
<1> DEFINE n == Len(s.m.mmap_list)
           arg == s.m.mmap_list
           P(h) == h = [k \in 0..n |-> IF k = 0 THEN unmap_range(s) ELSE exit_range(h[k - 1], s.m.mmap_list[k])]
           at == CHOOSE h : P(h)
<1>1. exit_mmap(s) = at[n]
  BY DEF Loop, exit_mmap
<1>2. n \in Nat
  OBVIOUS
<1>3. PICK g : Rounds(g, "ranges", arg, unmap_range(s), n) /\ History(g, n)
  <2> HIDE DEF n, arg
  <2>1. QED
    BY ONLY <1>2, RoundsExist
<1>4. P(g)
  <2> DEFINE h == [k \in 0..n |-> IF k = 0 THEN unmap_range(s) ELSE exit_range(g[k - 1], s.m.mmap_list[k])]
  <2>1. \A k \in 0..n : g[k] = h[k]
    BY <1>3 DEF Rounds, Round
  <2>2. h = [k \in 0..n |-> h[k]]
    OBVIOUS
  <2> HIDE DEF h, n
  <2>3. g = h
    BY ONLY <1>3, <2>1, <2>2 DEF History
  <2>4. QED
    BY ONLY <2>3 DEF h, n
<1>5. P(at)
  BY <1>4
<1> HIDE DEF at
<1>6. Rounds(at, "ranges", arg, unmap_range(s), n)
  BY <1>5 DEF Rounds, Round
<1>7. QED
  BY <1>1, <1>6

LEMMA SegmentsRun ==
    ASSUME NEW s, NEW segs, Len(segs) \in Nat
    PROVE  \E g : Rounds(g, "segments", segs, s, Len(segs)) /\ load_segments(s, segs) = g[Len(segs)]
<1> DEFINE n == Len(segs)
           arg == segs
           P(h) == h = [k \in 0..n |-> IF k = 0 THEN s ELSE load_segment(h[k - 1], segs[k])]
           at == CHOOSE h : P(h)
<1>1. load_segments(s, segs) = at[n]
  BY DEF Loop, load_segments
<1>2. n \in Nat
  OBVIOUS
<1>3. PICK g : Rounds(g, "segments", arg, s, n) /\ History(g, n)
  <2> HIDE DEF n, arg
  <2>1. QED
    BY ONLY <1>2, RoundsExist
<1>4. P(g)
  <2> DEFINE h == [k \in 0..n |-> IF k = 0 THEN s ELSE load_segment(g[k - 1], segs[k])]
  <2>1. \A k \in 0..n : g[k] = h[k]
    BY <1>3 DEF Rounds, Round
  <2>2. h = [k \in 0..n |-> h[k]]
    OBVIOUS
  <2> HIDE DEF h, n
  <2>3. g = h
    BY ONLY <1>3, <2>1, <2>2 DEF History
  <2>4. QED
    BY ONLY <2>3 DEF h, n
<1>5. P(at)
  BY <1>4
<1> HIDE DEF at
<1>6. Rounds(at, "segments", arg, s, n)
  BY <1>5 DEF Rounds, Round
<1>7. QED
  BY <1>1, <1>6

LEMMA DupRuns ==
    ASSUME NEW s, NEW from, Len(from.mmap_list) \in Nat
    PROVE  \E g : Rounds(g, "dup", from, s, Len(from.mmap_list)) /\ dup_mmap(s, from) = g[Len(from.mmap_list)]
<1> DEFINE n == Len(from.mmap_list)
           arg == from
           P(h) == h = [k \in 0..n |-> IF k = 0 THEN s ELSE copy_vma(from, from.mmap_list[Len(from.mmap_list) - k + 1], h[k - 1])]
           at == CHOOSE h : P(h)
<1>1. dup_mmap(s, from) = at[n]
  BY DEF Loop, dup_mmap
<1>2. n \in Nat
  OBVIOUS
<1>3. PICK g : Rounds(g, "dup", arg, s, n) /\ History(g, n)
  <2> HIDE DEF n, arg
  <2>1. QED
    BY ONLY <1>2, RoundsExist
<1>4. P(g)
  <2> DEFINE h == [k \in 0..n |-> IF k = 0 THEN s ELSE copy_vma(from, from.mmap_list[Len(from.mmap_list) - k + 1], g[k - 1])]
  <2>1. \A k \in 0..n : g[k] = h[k]
    BY <1>3 DEF Rounds, Round
  <2>2. h = [k \in 0..n |-> h[k]]
    OBVIOUS
  <2> HIDE DEF h, n
  <2>3. g = h
    BY ONLY <1>3, <2>1, <2>2 DEF History
  <2>4. QED
    BY ONLY <2>3 DEF h, n
<1>5. P(at)
  BY <1>4
<1> HIDE DEF at
<1>6. Rounds(at, "dup", arg, s, n)
  BY <1>5 DEF Rounds, Round
<1>7. QED
  BY <1>1, <1>6

LEMMA GrownChain ==
    ASSUME NEW cov, NEW r, NEW s, NEW t, Grown(cov, r, s), Grown(cov, s, t)
    PROVE  Grown(cov, r, t)
  BY DEF Grown, Same

\* The pages of las from k + 1 on are still to be mapped.
Awaited(las, wanted, k, x) ==
    x.fate = "ok" => \A i \in (k + 1)..Len(las) : las[i] \in wanted => las[i] \notin x.m.pages

LEMMA AllocRound ==
    ASSUME NEW cov \in SUBSET Nat, NEW las \in Seq(Nat), NEW wanted,
           \A i, j \in 1..Len(las) : las[i] = las[j] => i = j,
           \A i \in 1..Len(las) : las[i] \in wanted => las[i] \in cov,
           NEW k \in 1..Len(las), NEW s, NEW x, Grown(cov, s, x), Awaited(las, wanted, k - 1, x),
           NEW y, y = Round("alloc", <<las, wanted>>, x, k)
    PROVE  Grown(cov, s, y) /\ Awaited(las, wanted, k, y)
<1>0. Len(las) \in Nat /\ k \in Int /\ k \in ((k - 1) + 1)..Len(las)
      /\ \A i \in (k + 1)..Len(las) : i \in ((k - 1) + 1)..Len(las) /\ i \in 1..Len(las) /\ i # k
  OBVIOUS
<1>1. y = IF las[k] \in wanted THEN pgdir_alloc_page(x, las[k]) ELSE x
  BY DEF Round
<1>2. CASE las[k] \notin wanted
  <2>1. y = x
    BY <1>1, <1>2
  <2>2. QED
    BY ONLY <1>0, <2>1, Grown(cov, s, x), Awaited(las, wanted, k - 1, x) DEF Awaited
<1>3. CASE las[k] \in wanted
  <2>1. y = pgdir_alloc_page(x, las[k]) /\ las[k] \in cov
    BY <1>1, <1>3
  <2>2. x \in WorkType /\ (x.fate = "ok" => Tables(cov, x.m)) /\ (x.fate = "ok" => las[k] \notin x.m.pages)
    BY ONLY <1>0, <1>3, Grown(cov, s, x), Awaited(las, wanted, k - 1, x) DEF Grown, Awaited
  <2>3. Grown(cov, x, y) /\ (y.fate = "ok" => y.m.pages \subseteq x.m.pages \cup {las[k]})
    <3> DEFINE la == las[k]
    <3> HIDE DEF la
    <3>1. la \in cov /\ y = pgdir_alloc_page(x, la) /\ (x.fate = "ok" => la \notin x.m.pages)
      BY <2>1, <2>2 DEF la
    <3>2. Grown(cov, x, y) /\ (y.fate = "ok" => y.m.pages \subseteq x.m.pages \cup {la})
      BY ONLY <2>2, <3>1, PgdirAllocPage, cov \in SUBSET Nat
    <3>3. QED
      BY <3>2 DEF la
  <2>4. Awaited(las, wanted, k, y)
    <3> SUFFICES ASSUME y.fate = "ok", NEW i \in (k + 1)..Len(las), las[i] \in wanted
                 PROVE  las[i] \notin y.m.pages
      BY DEF Awaited
    <3>1. x.fate = "ok"
      BY ONLY <2>3, y.fate = "ok" DEF Grown, Same
    <3>2. las[i] \notin x.m.pages /\ las[i] # las[k]
      BY <1>0, <3>1 DEF Awaited
    <3>3. QED
      BY <2>3, <3>2
  <2>5. Grown(cov, s, y)
    BY ONLY <2>3, Grown(cov, s, x), GrownChain
  <2>6. QED
    BY <2>4, <2>5
<1>4. QED
  BY <1>2, <1>3

LEMMA AllocAll ==
    ASSUME NEW cov \in SUBSET Nat, NEW s \in WorkType, s.fate = "ok" => Tables(cov, s.m),
           NEW las \in Seq(Nat), NEW wanted,
           \A i, j \in 1..Len(las) : las[i] = las[j] => i = j,
           \A i \in 1..Len(las) : las[i] \in wanted => las[i] \in cov,
           s.fate = "ok" => \A i \in 1..Len(las) : las[i] \in wanted => las[i] \notin s.m.pages
    PROVE  Grown(cov, s, alloc_all(s, las, wanted))
<1> DEFINE N == Len(las)
<1>0. N \in Nat
  OBVIOUS
<1>1. PICK g : Rounds(g, "alloc", <<las, wanted>>, s, N) /\ alloc_all(s, las, wanted) = g[N]
  BY ONLY <1>0, AllocRuns
<1> DEFINE S == {k \in 0..N : Grown(cov, s, g[k]) /\ Awaited(las, wanted, k, g[k])}
<1>2. 0 \in S
  <2>1. g[0] = s /\ 0 \in 0..N
    BY <1>0, <1>1 DEF Rounds
  <2>2. Grown(cov, s, s)
    BY DEF Grown, Same
  <2>3. Awaited(las, wanted, 0, s)
    BY DEF Awaited
  <2>4. QED
    BY <2>1, <2>2, <2>3
<1>3. ASSUME NEW k \in 0..(N - 1), k \in S PROVE k + 1 \in S
  <2> DEFINE n == k + 1
  <2>1. n \in 1..N /\ n \in 0..N /\ n - 1 = k /\ n # 0
    BY <1>0
  <2> HIDE DEF n
  <2>2. g[n] = Round("alloc", <<las, wanted>>, g[k], n)
    BY ONLY <1>1, <2>1 DEF Rounds
  <2>3. Grown(cov, s, g[k]) /\ Awaited(las, wanted, n - 1, g[k])
    BY <1>3, <2>1
  <2>4. Grown(cov, s, g[n]) /\ Awaited(las, wanted, n, g[n])
    BY <2>1, <2>2, <2>3, AllocRound
  <2>5. QED
    BY ONLY <2>1, <2>4 DEF n
<1> HIDE DEF S
<1>4. N \in S
  <2>1. \A k \in 0..N : k \in S
    BY ONLY <1>0, <1>2, <1>3, IntervalInduction
  <2>2. QED
    BY <1>0, <2>1
<1>5. QED
  BY <1>1, <1>4 DEF S
-----------------------------------------------------------------------------
(* The list of vmas.                                                       *)

LEMMA VmaFacts ==
    ASSUME NEW list, VmasOK(list), NEW i \in DOMAIN list
    PROVE  /\ DOMAIN list = 1..Len(list) /\ Len(list) \in Nat
           /\ list[i] \in Vma /\ list[i].vm_start \in Nat /\ list[i].vm_end \in Nat
           /\ UserBase <= list[i].vm_start /\ list[i].vm_start < list[i].vm_end /\ list[i].vm_end <= UserTop
<1>1. list \in Seq(Vma)
  BY DEF VmasOK
<1>2. DOMAIN list = 1..Len(list) /\ Len(list) \in Nat /\ list[i] \in Vma
  BY <1>1
<1>3. USER_ACCESS(list[i].vm_start, list[i].vm_end)
  BY DEF VmasOK
<1>4. QED
  BY <1>2, <1>3 DEF Vma, USER_ACCESS

\* A vma that starts behind the first k of a list and ends before the others.
Between(list, k, v) ==
    /\ \A i \in 1..k : list[i].vm_end <= v.vm_start
    /\ \A i \in (k + 1)..Len(list) : v.vm_end <= list[i].vm_start

LEMMA InsertSorted ==
    ASSUME NEW list, VmasOK(list), NEW v \in Vma, USER_ACCESS(v.vm_start, v.vm_end),
           NEW k \in 0..Len(list), Between(list, k, v), NEW new, new = InsertAt(list, k + 1, v)
    PROVE  /\ VmasOK(new) /\ Len(new) = Len(list) + 1
           /\ \A i \in DOMAIN list : In(new, list[i])
           /\ In(new, v)
           /\ \A i \in DOMAIN new : new[i] = v \/ In(list, new[i])
<1>0. list \in Seq(Vma)
  BY DEF VmasOK
<1>1. Len(list) \in Nat /\ DOMAIN list = 1..Len(list) /\ k + 1 \in 1..(Len(list) + 1) /\ k \in Int /\ (k + 1) - 1 = k
  BY <1>0
<1> DEFINE N == Len(list)
           c == k + 1
<1>2. c \in 1..(N + 1) /\ N \in Nat /\ c - 1 = k /\ c \in Int /\ c = k + 1
  BY <1>1
<1> HIDE DEF c
<1>3. /\ new \in Seq(Vma) /\ Len(new) = N + 1
      /\ \A i \in 1..(c - 1) : new[i] = list[i]
      /\ new[c] = v
      /\ \A i \in (c + 1)..(N + 1) : new[i] = list[i - 1]
  <2>1. new = InsertAt(list, c, v)
    BY DEF c
  <2> DEFINE J == InsertAt(list, c, v)
  <2>0. list \in Seq(Vma) /\ v \in Vma /\ c \in 1..(Len(list) + 1)
    BY <1>0, <1>2
  <2>2. J \in Seq(Vma) /\ Len(J) = Len(list) + 1
    BY ONLY <2>0, InsertAtProperties
  <2>3. J[c] = v
    BY ONLY <2>0, InsertAtProperties
  <2>4. \A i \in 1..(c - 1) : J[i] = list[i]
    BY ONLY <2>0, InsertAtProperties
  <2>5. \A i \in (c + 1)..(Len(list) + 1) : J[i] = list[i - 1]
    BY ONLY <2>0, InsertAtProperties
  <2> HIDE DEF J
  <2>6. new = J
    BY <2>1 DEF J
  <2>7. QED
    BY ONLY <2>2, <2>3, <2>4, <2>5, <2>6
<1>4. DOMAIN new = 1..(N + 1) /\ DOMAIN list = 1..N
  BY ONLY <1>0, <1>3
<1> HIDE DEF N
<1>5. \A i \in 1..(N + 1) : \/ i < c /\ i \in 1..N /\ new[i] = list[i]
                            \/ i = c /\ new[i] = v
                            \/ i > c /\ i - 1 \in 1..N /\ new[i] = list[i - 1]
  BY ONLY <1>2, <1>3
<1>6. \A i \in DOMAIN new : new[i] = v \/ In(list, new[i])
  BY ONLY <1>4, <1>5 DEF In
<1>7. ASSUME NEW i \in DOMAIN list PROVE In(new, list[i])
  <2>1. CASE i < c
    <3>1. i \in 1..(N + 1) /\ new[i] = list[i]
      BY <1>2, <1>3, <1>4, <2>1
    <3>2. QED
      BY <1>4, <3>1 DEF In
  <2>2. CASE ~(i < c)
    <3>1. i + 1 \in 1..(N + 1) /\ i + 1 \in (c + 1)..(N + 1) /\ (i + 1) - 1 = i
      BY <1>2, <1>4, <2>2
    <3>2. new[i + 1] = list[i]
      BY <1>3, <3>1
    <3>3. QED
      BY <1>4, <3>1, <3>2 DEF In
  <2>3. QED
    BY <2>1, <2>2
<1>8. In(new, v)
  BY <1>2, <1>3, <1>4 DEF In
<1>9. \A i \in DOMAIN new : USER_ACCESS(new[i].vm_start, new[i].vm_end)
  <2> SUFFICES ASSUME NEW i \in DOMAIN new PROVE USER_ACCESS(new[i].vm_start, new[i].vm_end)
    OBVIOUS
  <2>1. new[i] = v \/ \E j \in DOMAIN list : new[i] = list[j]
    BY ONLY <1>6, i \in DOMAIN new DEF In
  <2>2. QED
    BY ONLY <2>1, VmasOK(list), USER_ACCESS(v.vm_start, v.vm_end) DEF VmasOK
<1>10. ASSUME NEW i \in DOMAIN new, NEW j \in DOMAIN new, i < j PROVE new[i].vm_end <= new[j].vm_start
  <2>0. i \in 1..(N + 1) /\ j \in 1..(N + 1) /\ i \in Int /\ j \in Int
    BY ONLY <1>2, <1>4, i \in DOMAIN new, j \in DOMAIN new
  <2>1. \A a, b \in 1..N : a < b => list[a].vm_end <= list[b].vm_start
    BY ONLY <1>4, VmasOK(list) DEF VmasOK
  <2>2. /\ \A a \in 1..N : a < c => list[a].vm_end <= v.vm_start
        /\ \A a \in 1..N : a >= c => v.vm_end <= list[a].vm_start
    BY ONLY <1>2, Between(list, k, v) DEF Between, N
  <2>3. CASE i < c /\ j < c
    BY ONLY <1>2, <1>5, <2>0, <2>1, <2>3, <1>10
  <2>4. CASE i < c /\ j = c
    BY ONLY <1>2, <1>5, <2>0, <2>2, <2>4, <1>10
  <2>5. CASE i < c /\ j > c
    <3>1. i \in 1..N /\ j - 1 \in 1..N /\ i < j - 1 /\ new[i] = list[i] /\ new[j] = list[j - 1]
      BY ONLY <1>2, <1>5, <2>0, <2>5
    <3>2. QED
      BY ONLY <2>1, <3>1
  <2>6. CASE i = c /\ j > c
    <3>1. j - 1 \in 1..N /\ j - 1 >= c /\ new[i] = v /\ new[j] = list[j - 1]
      BY ONLY <1>2, <1>5, <2>0, <2>6
    <3>2. QED
      BY ONLY <2>2, <3>1
  <2>7. CASE i > c /\ j > c
    <3>1. i - 1 \in 1..N /\ j - 1 \in 1..N /\ i - 1 < j - 1 /\ new[i] = list[i - 1] /\ new[j] = list[j - 1]
      BY ONLY <1>2, <1>5, <2>0, <2>7, <1>10
    <3>2. QED
      BY ONLY <2>1, <3>1
  <2>8. QED
    BY ONLY <1>2, <2>0, <2>3, <2>4, <2>5, <2>6, <2>7, <1>10
<1>11. VmasOK(new)
  BY ONLY <1>3, <1>9, <1>10 DEF VmasOK
<1>12. QED
  BY ONLY <1>3, <1>6, <1>7, <1>8, <1>11 DEF N

\* What insert_vma_struct finds: the vma goes between its neighbours, or overlaps one.
Place(list, v) ==
    LET above == {i \in DOMAIN list : list[i].vm_start > v.vm_start}
    IN IF above = {} THEN Len(list) ELSE Min(above) - 1

Fits(list, k, v) ==
    /\ k > 0 => check_vma_overlap(list[k], v)
    /\ k < Len(list) => check_vma_overlap(v, list[k + 1])

LEMMA PlaceFacts ==
    ASSUME NEW list, VmasOK(list), NEW v \in Vma
    PROVE  /\ Place(list, v) \in 0..Len(list)
           /\ \A i \in 1..Place(list, v) : list[i].vm_start <= v.vm_start
           /\ \A i \in (Place(list, v) + 1)..Len(list) : list[i].vm_start > v.vm_start
<1> DEFINE above == {i \in DOMAIN list : list[i].vm_start > v.vm_start}
           N == Len(list)
<1>0. list \in Seq(Vma)
  BY DEF VmasOK
<1>1. DOMAIN list = 1..N /\ N \in Nat /\ \A i \in 1..N : list[i].vm_start \in Nat
  <2>1. DOMAIN list = 1..N /\ N \in Nat
    BY <1>0
  <2>2. \A i \in DOMAIN list : list[i].vm_start \in Nat
    BY VmaFacts
  <2> HIDE DEF N
  <2>3. QED
    BY <2>1, <2>2
<1>2. v.vm_start \in Nat
  BY DEF Vma
<1> HIDE DEF N
<1>3. CASE above = {}
  <2>1. Place(list, v) = N
    BY <1>3 DEF Place, N
  <2>2. \A i \in 1..N : list[i].vm_start <= v.vm_start
    BY <1>1, <1>2, <1>3
  <2>3. N \in 0..N /\ \A i \in (N + 1)..N : FALSE
    BY ONLY <1>1
  <2>4. QED
    BY ONLY <2>1, <2>2, <2>3 DEF N
<1>4. CASE above # {}
  <2> DEFINE q == Min(above)
  <2>1. Place(list, v) = q - 1
    BY <1>4 DEF Place
  <2>2. above \in SUBSET Nat
    BY <1>1
  <2>3. q \in above /\ \A x \in above : q <= x
    <3> HIDE DEF above
    <3>1. QED
      BY ONLY <1>4, <2>2, LeastElement
  <2> HIDE DEF q
  <2>4. q \in 1..N /\ list[q].vm_start > v.vm_start
    BY <1>1, <2>3
  <2>5. \A i \in 1..(q - 1) : list[i].vm_start <= v.vm_start
    <3> TAKE i \in 1..(q - 1)
    <3>1. i \in 1..N /\ ~(q <= i)
      BY <1>1, <2>4
    <3>2. i \notin above
      BY ONLY <2>3, <3>1
    <3>3. QED
      BY <1>1, <1>2, <3>1, <3>2
  <2>6. \A i \in q..N : list[i].vm_start > v.vm_start
    <3> TAKE i \in q..N
    <3>1. CASE i = q
      BY <2>4, <3>1
    <3>2. CASE i # q
      <4>1. i \in 1..N /\ q < i
        BY <1>1, <2>4, <3>2
      <4>2. list[q].vm_end <= list[i].vm_start
        BY ONLY <1>1, <2>4, <4>1, VmasOK(list) DEF VmasOK
      <4>3. list[q].vm_start \in Nat /\ list[q].vm_end \in Nat /\ list[q].vm_start < list[q].vm_end
        BY ONLY <1>1, <2>4, VmasOK(list), VmaFacts
      <4>4. QED
        BY ONLY <1>1, <1>2, <2>4, <4>1, <4>2, <4>3
    <3>3. QED
      BY <3>1, <3>2
  <2>7. q - 1 \in 0..N /\ (q - 1) + 1 = q
    BY ONLY <1>1, <2>4
  <2>8. QED
    BY ONLY <2>1, <2>5, <2>6, <2>7 DEF N
<1>5. QED
  BY <1>3, <1>4

LEMMA InsertVma ==
    ASSUME NEW s \in WorkType, VmasOK(s.m.mmap_list), NEW v \in Vma, USER_ACCESS(v.vm_start, v.vm_end),
           NEW t, t = insert_vma_struct(s, v)
    PROVE  LET list == s.m.mmap_list
               k == Place(list, v)
           IN \/ /\ Fits(list, k, v) /\ Between(list, k, v) /\ k \in 0..Len(list)
                 /\ t = [s EXCEPT !.m.mmap_list = InsertAt(list, k + 1, v)]
              \/ /\ ~Fits(list, k, v) /\ t = [s EXCEPT !.fate = "overlap"]
                 /\ \E i \in DOMAIN list : Overlap(list[i], v)
<1> DEFINE list == s.m.mmap_list
           k == Place(list, v)
           N == Len(list)
<1>1. t = IF Fits(list, k, v) THEN [s EXCEPT !.m.mmap_list = InsertAt(list, k + 1, v)]
          ELSE [s EXCEPT !.fate = "overlap"]
  BY DEF insert_vma_struct, Place, Fits
<1>2. /\ k \in 0..N
      /\ \A i \in 1..k : list[i].vm_start <= v.vm_start
      /\ \A i \in (k + 1)..N : list[i].vm_start > v.vm_start
  BY PlaceFacts
<1>3. N \in Nat /\ DOMAIN list = 1..N
  BY DEF VmasOK
<1>4. /\ v.vm_start \in Nat /\ v.vm_end \in Nat /\ v.vm_start < v.vm_end
  BY DEF Vma, USER_ACCESS
<1>5. \A i \in 1..N : list[i].vm_start \in Nat /\ list[i].vm_end \in Nat /\ list[i].vm_start < list[i].vm_end
  BY <1>3, VmaFacts
<1>6. \A i, j \in 1..N : i < j => list[i].vm_end <= list[j].vm_start
  BY <1>3 DEF VmasOK
<1> HIDE DEF list, k, N
<1>7. CASE Fits(list, k, v)
  <2>1. (k > 0 => list[k].vm_end <= v.vm_start) /\ (k < N => v.vm_end <= list[k + 1].vm_start)
    BY ONLY <1>7 DEF Fits, check_vma_overlap, N
  <2>2. ASSUME NEW i \in 1..k PROVE list[i].vm_end <= v.vm_start
    <3>1. k \in 1..N /\ i \in 1..N /\ k > 0 /\ (i = k \/ i < k)
      BY ONLY <1>2, <1>3, i \in 1..k
    <3>2. i < k => list[i].vm_end <= list[k].vm_start
      BY ONLY <1>6, <3>1
    <3>3. QED
      BY ONLY <1>4, <1>5, <2>1, <3>1, <3>2
  <2>3. ASSUME NEW i \in (k + 1)..N PROVE v.vm_end <= list[i].vm_start
    <3>1. k + 1 \in 1..N /\ i \in 1..N /\ k < N /\ (i = k + 1 \/ k + 1 < i)
      BY ONLY <1>2, <1>3, i \in (k + 1)..N
    <3>2. k + 1 < i => list[k + 1].vm_end <= list[i].vm_start
      BY ONLY <1>6, <3>1
    <3>3. QED
      BY ONLY <1>4, <1>5, <2>1, <3>1, <3>2
  <2>4. Between(list, k, v)
    BY ONLY <2>2, <2>3 DEF Between, N
  <2>5. QED
    BY ONLY <1>1, <1>2, <1>7, <2>4 DEF list, k, N
<1>8. CASE ~Fits(list, k, v)
  <2>1. (k > 0 /\ ~(list[k].vm_end <= v.vm_start)) \/ (k < N /\ ~(v.vm_end <= list[k + 1].vm_start))
    BY ONLY <1>8 DEF Fits, check_vma_overlap, N
  <2>2. CASE k > 0 /\ ~(list[k].vm_end <= v.vm_start)
    <3>1. k \in 1..N /\ k \in 1..k
      BY ONLY <1>2, <1>3, <2>2
    <3>2. v.vm_start \in list[k].vm_start..(list[k].vm_end - 1) /\ v.vm_start \in v.vm_start..(v.vm_end - 1)
      BY ONLY <1>2, <1>4, <1>5, <2>2, <3>1
    <3>3. Overlap(list[k], v)
      BY ONLY <3>2 DEF Overlap, Pages
    <3>4. QED
      BY ONLY <1>1, <1>3, <1>8, <3>1, <3>3 DEF list, k
  <2>3. CASE k < N /\ ~(v.vm_end <= list[k + 1].vm_start)
    <3> DEFINE q == k + 1
               x == list[q].vm_start
    <3>1. q \in 1..N /\ q \in (k + 1)..N
      BY ONLY <1>2, <1>3, <2>3
    <3>2. x \in v.vm_start..(v.vm_end - 1) /\ x \in list[q].vm_start..(list[q].vm_end - 1)
      <4>1. x > v.vm_start /\ ~(v.vm_end <= x)
        BY ONLY <1>2, <2>3, <3>1
      <4>2. x \in Nat /\ list[q].vm_end \in Nat /\ x < list[q].vm_end
        BY ONLY <1>5, <3>1
      <4> HIDE DEF q
      <4>3. QED
        BY ONLY <1>4, <4>1, <4>2
    <3> HIDE DEF q, x
    <3>3. Overlap(list[q], v)
      BY ONLY <3>2 DEF Overlap, Pages
    <3>4. QED
      BY ONLY <1>1, <1>3, <1>8, <3>1, <3>3 DEF list, k
  <2>4. QED
    BY <2>1, <2>2, <2>3
<1>9. QED
  BY <1>7, <1>8

\* find_vma returns a vma of the list that holds the address, or NONE if there is none.
LEMMA FindVma ==
    ASSUME NEW m, VmasOK(m.mmap_list), m.mmap_cache = NONE \/ In(m.mmap_list, m.mmap_cache), NEW addr
    PROVE  \/ /\ find_vma(m, addr) = NONE
              /\ \A i \in DOMAIN m.mmap_list : ~Holds(m.mmap_list[i], addr)
           \/ /\ In(m.mmap_list, find_vma(m, addr)) /\ Holds(find_vma(m, addr), addr)
              /\ find_vma(m, addr) # NONE
<1> DEFINE list == m.mmap_list
           c == m.mmap_cache
           found == {i \in DOMAIN list : Holds(list[i], addr)}
<1>1. find_vma(m, addr) = IF c # NONE /\ Holds(c, addr) THEN c
                          ELSE IF found = {} THEN NONE ELSE list[Min(found)]
  BY DEF find_vma
<1>2. \A i \in DOMAIN list : list[i] # NONE
  <2>1. \A i \in DOMAIN list : list[i] \in Vma
    BY VmaFacts
  <2>2. QED
    BY <2>1, VmmAssumption
<1>3. CASE c # NONE /\ Holds(c, addr)
  BY <1>1, <1>3
<1>4. CASE ~(c # NONE /\ Holds(c, addr)) /\ found = {}
  <2>1. find_vma(m, addr) = NONE
    BY <1>1, <1>4
  <2>2. \A i \in DOMAIN m.mmap_list : ~Holds(m.mmap_list[i], addr)
    BY <1>4
  <2>3. QED
    BY <2>1, <2>2
<1>5. CASE ~(c # NONE /\ Holds(c, addr)) /\ found # {}
  <2>1. found \in SUBSET Nat
    BY DEF VmasOK
  <2>2. Min(found) \in found
    <3> HIDE DEF found
    <3>1. QED
      BY ONLY <1>5, <2>1, LeastElement
  <2> DEFINE q == Min(found)
  <2>3. find_vma(m, addr) = list[q]
    BY <1>1, <1>5
  <2> HIDE DEF q
  <2>4. q \in DOMAIN list /\ Holds(list[q], addr)
    BY <2>2 DEF q
  <2>5. QED
    BY <1>2, <2>3, <2>4 DEF In
<1>6. QED
  BY <1>3, <1>4, <1>5
-----------------------------------------------------------------------------
(* Address spaces.                                                         *)

Sound(m) ==
    /\ m \in Mm /\ VmasOK(m.mmap_list)
    /\ m.mmap_cache = NONE \/ In(m.mmap_list, m.mmap_cache)
    /\ Tables(Covered(m.mmap_list), m)

LEMMA CoveredFacts ==
    ASSUME NEW list, VmasOK(list)
    PROVE  /\ Covered(list) \in SUBSET Nat
           /\ \A la : la \in Covered(list) <=> \E i \in DOMAIN list : la \in Pages(list[i])
           /\ \A i \in DOMAIN list : Pages(list[i]) \subseteq Covered(list)
<1>1. \A i \in DOMAIN list : list[i].vm_start \in Nat /\ list[i].vm_end \in Nat
  BY VmaFacts
<1>2. \A i \in DOMAIN list : Pages(list[i]) \subseteq Nat
  BY <1>1 DEF Pages
<1>3. QED
  BY <1>2 DEF Covered

LEMMA PageHeld ==
    ASSUME NEW v \in Vma, NEW la
    PROVE  la \in Pages(v) <=> la \in Nat /\ Holds(v, la)
  BY DEF Vma, Pages, Holds

LEMMA TablesCarry ==
    ASSUME NEW cov, NEW m, Tables(cov, m), NEW cov2, cov \subseteq cov2,
           NEW m2, m2.pd0 = m.pd0, m2.pt = m.pt, m2.pages = m.pages
    PROVE  Tables(cov2, m2)
  BY DEF Tables, Finite

\* Between its neighbours a vma has no page that another vma has.
LEMMA BetweenApart ==
    ASSUME NEW list, VmasOK(list), NEW v \in Vma, NEW k \in 0..Len(list), Between(list, k, v), NEW la \in Pages(v)
    PROVE  la \notin Covered(list)
<1>1. SUFFICES ASSUME NEW i \in DOMAIN list, la \in Pages(list[i]) PROVE FALSE
  BY CoveredFacts
<1>2. /\ list[i].vm_start \in Nat /\ list[i].vm_end \in Nat /\ v.vm_start \in Nat /\ v.vm_end \in Nat
      /\ DOMAIN list = 1..Len(list) /\ Len(list) \in Nat
  BY VmaFacts DEF Vma
<1>3. la \in list[i].vm_start..(list[i].vm_end - 1) /\ la \in v.vm_start..(v.vm_end - 1)
  BY <1>1 DEF Pages
<1>4. i \in 1..k \/ i \in (k + 1)..Len(list)
  BY <1>2
<1>5. list[i].vm_end <= v.vm_start \/ v.vm_end <= list[i].vm_start
  BY ONLY <1>4, Between(list, k, v) DEF Between
<1>6. QED
  BY ONLY <1>2, <1>3, <1>5

LEMMA InsertGood ==
    ASSUME NEW s \in WorkType, s.fate = "ok", Sound(s.m), NEW v \in Vma, USER_ACCESS(v.vm_start, v.vm_end),
           NEW t, t = insert_vma_struct(s, v)
    PROVE  /\ t \in WorkType /\ t.lost = s.lost /\ t.ret = s.ret /\ t.fate \in {"ok", "overlap"}
           /\ t.fate = "ok" => /\ Sound(t.m) /\ Total(t) = Total(s)
                               /\ Pages(v) \subseteq Covered(t.m.mmap_list)
                               /\ \A la \in Pages(v) : la \notin t.m.pages
                               /\ \A i \in DOMAIN t.m.mmap_list : t.m.mmap_list[i] = v \/ In(s.m.mmap_list, t.m.mmap_list[i])
           /\ t.fate = "overlap" => \E i \in DOMAIN s.m.mmap_list : Overlap(s.m.mmap_list[i], v)
<1> DEFINE list == s.m.mmap_list
           k == Place(list, v)
           new == InsertAt(list, k + 1, v)
<1>0. VmasOK(list)
  BY DEF Sound
<1>1. \/ /\ Between(list, k, v) /\ k \in 0..Len(list)
         /\ t = [s EXCEPT !.m.mmap_list = new]
      \/ /\ t = [s EXCEPT !.fate = "overlap"]
         /\ \E i \in DOMAIN list : Overlap(list[i], v)
  BY <1>0, InsertVma
<1>2. CASE t = [s EXCEPT !.fate = "overlap"] /\ \E i \in DOMAIN list : Overlap(list[i], v)
  <2>1. t \in WorkType /\ t.lost = s.lost /\ t.ret = s.ret /\ t.fate = "overlap"
    BY ONLY <1>2, s \in WorkType DEF WorkType, Fates
  <2>2. QED
    BY <1>2, <2>1
<1>3. CASE Between(list, k, v) /\ k \in 0..Len(list) /\ t = [s EXCEPT !.m.mmap_list = new]
  <2>1. /\ VmasOK(new)
        /\ \A i \in DOMAIN list : In(new, list[i])
        /\ In(new, v)
        /\ \A i \in DOMAIN new : new[i] = v \/ In(list, new[i])
    <3> HIDE DEF k, list
    <3>1. QED
      BY <1>0, <1>3, InsertSorted
  <2>2. \A la \in Pages(v) : la \notin Covered(list)
    <3> HIDE DEF k, list
    <3>1. QED
      BY <1>0, <1>3, BetweenApart
  <2> HIDE DEF k, new
  <2>3. new \in Seq(Vma)
    BY <2>1 DEF VmasOK
  <2>4. /\ t \in WorkType /\ t.lost = s.lost /\ t.ret = s.ret /\ t.fate = s.fate /\ t.free = s.free
        /\ t.m.mmap_list = new /\ t.m.mmap_cache = s.m.mmap_cache
        /\ t.m.pd0 = s.m.pd0 /\ t.m.pt = s.m.pt /\ t.m.pages = s.m.pages
    BY ONLY <1>3, <2>3, s \in WorkType DEF WorkType, Mm
  <2> HIDE DEF list
  <2>5. Covered(list) \subseteq Covered(new) /\ Pages(v) \subseteq Covered(new)
    BY ONLY <1>0, <2>1, CoveredFacts DEF In
  <2>6. Tables(Covered(list), s.m) /\ (s.m.mmap_cache = NONE \/ In(list, s.m.mmap_cache))
    BY DEF Sound, list
  <2>7. Tables(Covered(new), t.m)
    BY ONLY <2>4, <2>5, <2>6, TablesCarry
  <2>8. t.m.mmap_cache = NONE \/ In(new, t.m.mmap_cache)
    BY ONLY <2>1, <2>4, <2>6 DEF In
  <2>9. Sound(t.m)
    BY ONLY <2>1, <2>4, <2>7, <2>8 DEF Sound, WorkType
  <2>10. Total(t) = Total(s)
    BY ONLY <2>4 DEF Total, Size
  <2>11. \A la \in Pages(v) : la \notin t.m.pages
    BY ONLY <2>2, <2>4, <2>6 DEF Tables
  <2>12. QED
    BY ONLY <2>1, <2>4, <2>5, <2>9, <2>10, <2>11, s.fate = "ok" DEF list
<1>4. QED
  BY <1>1, <1>2, <1>3

LEMMA CacheGood ==
    ASSUME NEW m, Sound(m), NEW v, v = NONE \/ In(m.mmap_list, v)
    PROVE  /\ Sound(cache(m, v)) /\ Size(cache(m, v)) = Size(m)
           /\ cache(m, v).mmap_list = m.mmap_list /\ cache(m, v).pages = m.pages
<1>1. CASE v = NONE
  BY <1>1 DEF cache
<1>2. CASE v # NONE
  <2>1. In(m.mmap_list, v) /\ VmasOK(m.mmap_list)
    BY <1>2 DEF Sound
  <2>2. v \in Vma
    BY <2>1, VmaFacts DEF In
  <2>3. m \in Mm
    BY DEF Sound
  <2> DEFINE c == cache(m, v)
  <2>4. c = [m EXCEPT !.mmap_cache = v]
    BY <1>2 DEF cache
  <2> HIDE DEF c
  <2>5. /\ c \in Mm /\ c.mmap_list = m.mmap_list /\ c.mmap_cache = v
        /\ c.pd0 = m.pd0 /\ c.pt = m.pt /\ c.pages = m.pages
    BY ONLY <2>2, <2>3, <2>4 DEF Mm
  <2>6. Tables(Covered(m.mmap_list), m)
    BY DEF Sound
  <2>7. Tables(Covered(c.mmap_list), c)
    BY ONLY <2>5, <2>6, TablesCarry
  <2>8. Sound(c)
    BY ONLY <2>1, <2>5, <2>7 DEF Sound
  <2>9. Size(c) = Size(m)
    BY ONLY <2>5 DEF Size
  <2>10. QED
    BY ONLY <2>5, <2>8, <2>9 DEF c
<1>3. QED
  BY <1>1, <1>2

LEMMA FoundGood ==
    ASSUME NEW m, Sound(m), NEW addr
    PROVE  find_vma(m, addr) = NONE \/ In(m.mmap_list, find_vma(m, addr))
  BY FindVma DEF Sound

\* What mm_map does: it refuses, the kernel stops, or the vma is there and none of
\* its pages is mapped.
Mapped(s, v, t) ==
    /\ t \in WorkType /\ t.lost = s.lost /\ t.fate \in {"ok", "overlap"}
    /\ t.fate = "ok" => Sound(t.m) /\ Total(t) = Total(s)
    /\ t.fate = "ok" /\ t.ret = "OK" =>
          /\ USER_ACCESS(v.vm_start, v.vm_end) /\ Pages(v) \subseteq Covered(t.m.mmap_list)
          /\ \A la \in Pages(v) : la \notin t.m.pages
          /\ \A i \in DOMAIN t.m.mmap_list : t.m.mmap_list[i] = v \/ In(s.m.mmap_list, t.m.mmap_list[i])
    /\ t.fate = "ok" /\ t.ret # "OK" => t.m.mmap_list = s.m.mmap_list
    /\ t.fate = "overlap" => \E i \in DOMAIN s.m.mmap_list : Overlap(s.m.mmap_list[i], v)

LEMMA MmMap ==
    ASSUME NEW s \in WorkType, s.fate = "ok", s.ret = "OK", Sound(s.m), NEW v \in Vma
    PROVE  Mapped(s, v, mm_map(s, v))
<1> DEFINE m == cache(s.m, find_vma(s.m, v.vm_start))
           a == [s EXCEPT !.m = m]
           t == mm_map(s, v)
<1>1. Sound(m) /\ Size(m) = Size(s.m) /\ m.mmap_list = s.m.mmap_list
  BY FoundGood, CacheGood
<1>2. t = IF ~USER_ACCESS(v.vm_start, v.vm_end) THEN [s EXCEPT !.ret = "E_INVAL"]
          ELSE IF in_the_way(s.m, v.vm_start, v.vm_end) THEN [s EXCEPT !.m = m, !.ret = "E_INVAL"]
          ELSE insert_vma_struct(a, v)
  BY DEF mm_map
<1> HIDE DEF m, t
<1>3. a \in WorkType /\ a.m = m /\ a.fate = "ok" /\ a.ret = "OK" /\ a.lost = s.lost /\ a.free = s.free
  BY <1>1 DEF WorkType, Sound
<1>4. Total(a) = Total(s)
  BY ONLY <1>1, <1>3 DEF Total
<1> DEFINE b == insert_vma_struct(a, v)
<1>5. CASE ~USER_ACCESS(v.vm_start, v.vm_end)
  <2>1. t = [s EXCEPT !.ret = "E_INVAL"]
    BY <1>2, <1>5
  <2>2. t \in WorkType /\ t.lost = s.lost /\ t.fate = s.fate /\ t.free = s.free /\ t.m = s.m /\ t.ret = "E_INVAL"
    BY ONLY <2>1, s \in WorkType DEF WorkType, Results
  <2>3. Total(t) = Total(s)
    BY ONLY <2>2 DEF Total
  <2>4. QED
    BY ONLY <2>2, <2>3, s.fate = "ok", Sound(s.m) DEF Mapped, t
<1>6. CASE USER_ACCESS(v.vm_start, v.vm_end) /\ in_the_way(s.m, v.vm_start, v.vm_end)
  <2>1. t = [s EXCEPT !.m = m, !.ret = "E_INVAL"]
    BY <1>2, <1>6
  <2>2. t \in WorkType /\ t.lost = s.lost /\ t.fate = s.fate /\ t.free = s.free /\ t.m = m /\ t.ret = "E_INVAL"
    BY ONLY <1>1, <2>1, s \in WorkType DEF WorkType, Results, Sound
  <2>3. Total(t) = Total(s)
    BY ONLY <1>1, <2>2 DEF Total
  <2>4. QED
    BY ONLY <1>1, <2>2, <2>3, s.fate = "ok" DEF Mapped, t
<1>7. CASE USER_ACCESS(v.vm_start, v.vm_end) /\ ~in_the_way(s.m, v.vm_start, v.vm_end)
  <2>1. t = insert_vma_struct(a, v)
    BY <1>2, <1>7
  <2>2. Sound(a.m)
    BY <1>1, <1>3
  <2> HIDE DEF a
  <2>3. /\ t \in WorkType /\ t.lost = a.lost /\ t.ret = a.ret /\ t.fate \in {"ok", "overlap"}
        /\ t.fate = "ok" => /\ Sound(t.m) /\ Total(t) = Total(a)
                            /\ Pages(v) \subseteq Covered(t.m.mmap_list)
                            /\ \A la \in Pages(v) : la \notin t.m.pages
                            /\ \A i \in DOMAIN t.m.mmap_list : t.m.mmap_list[i] = v \/ In(a.m.mmap_list, t.m.mmap_list[i])
        /\ t.fate = "overlap" => \E i \in DOMAIN a.m.mmap_list : Overlap(a.m.mmap_list[i], v)
    BY ONLY <1>3, <1>7, <2>1, <2>2, v \in Vma, InsertGood
  <2>4. a.m.mmap_list = s.m.mmap_list
    BY <1>1, <1>3
  <2>5. QED
    BY ONLY <1>3, <1>4, <1>7, <2>3, <2>4 DEF Mapped, t
<1>8. QED
  BY <1>5, <1>6, <1>7

LEMMA UpwardsFacts ==
    ASSUME NEW v \in Vma, v.vm_start < v.vm_end
    PROVE  /\ Upwards(v) \in Seq(Nat)
           /\ \A i, j \in 1..Len(Upwards(v)) : Upwards(v)[i] = Upwards(v)[j] => i = j
           /\ \A i \in 1..Len(Upwards(v)) : Upwards(v)[i] \in Pages(v)
<1> DEFINE n == v.vm_end - v.vm_start
<1>1. n \in Nat /\ v.vm_start \in Nat /\ v.vm_end \in Nat /\ v.vm_start + n = v.vm_end
  BY DEF Vma
<1> HIDE DEF n
<1>2. Upwards(v) = [k \in 1..n |-> v.vm_start + k - 1]
  BY DEF Upwards, n
<1> DEFINE u == [k \in 1..n |-> v.vm_start + k - 1]
<1>3. \A k \in 1..n : u[k] = v.vm_start + k - 1 /\ u[k] \in Nat
  BY <1>1
<1>4. u \in Seq(Nat) /\ Len(u) = n
  BY <1>1, <1>3
<1> HIDE DEF u
<1>5. \A i, j \in 1..n : u[i] = u[j] => i = j
  BY ONLY <1>1, <1>3
<1>6. \A i \in 1..n : u[i] \in Pages(v)
  BY ONLY <1>1, <1>3 DEF Pages
<1>7. Upwards(v) = u
  BY <1>2 DEF u
<1>8. QED
  BY ONLY <1>4, <1>5, <1>6, <1>7
-----------------------------------------------------------------------------
(* load_icode.                                                             *)

Segment == [vma : Vma, short : BOOLEAN]

LEMMA GrownSound ==
    ASSUME NEW s, Sound(s.m), NEW t, Grown(Covered(s.m.mmap_list), s, t)
    PROVE  /\ t.fate = "ok" => Sound(t.m)
           /\ t.m.mmap_list = s.m.mmap_list
  BY DEF Grown, Same, Sound, WorkType

\* What a segment adds.
Added(s, v, t) ==
    /\ t \in WorkType /\ t.lost = s.lost /\ t.fate \in {"ok", "overlap", "swap_out"}
    /\ t.fate = "ok" =>
          /\ Sound(t.m) /\ Total(t) = Total(s)
          /\ \A i \in DOMAIN t.m.mmap_list : t.m.mmap_list[i] = v \/ In(s.m.mmap_list, t.m.mmap_list[i])
    /\ t.fate = "overlap" => \E i \in DOMAIN s.m.mmap_list : Overlap(s.m.mmap_list[i], v)

LEMMA AddedGrows ==
    ASSUME NEW s, NEW v, NEW t, Mapped(s, v, t), t.fate = "ok", t.ret = "OK",
           NEW u, Grown(Covered(t.m.mmap_list), t, u)
    PROVE  Added(s, v, u)
<1>1. Sound(t.m)
  BY DEF Mapped
<1>2. (u.fate = "ok" => Sound(u.m)) /\ u.m.mmap_list = t.m.mmap_list
  BY <1>1, GrownSound
<1>3. /\ u \in WorkType /\ u.lost = t.lost /\ u.fate \in {"ok", "swap_out"}
      /\ u.fate = "ok" => Total(u) = Total(t)
  BY ONLY Grown(Covered(t.m.mmap_list), t, u), t.fate = "ok" DEF Grown, Same
<1>4. QED
  BY ONLY <1>2, <1>3, Mapped(s, v, t), t.fate = "ok", t.ret = "OK" DEF Added, Mapped

LEMMA LoadSegment ==
    ASSUME NEW s \in WorkType, s.fate = "ok", s.ret = "OK", Sound(s.m), NEW seg \in Segment
    PROVE  Added(s, seg.vma, load_segment(s, seg))
<1> DEFINE v == seg.vma
           t == mm_map(s, v)
           p == pgdir_alloc_page(t, v.vm_start)
           u == load_segment(s, seg)
<1>0. v \in Vma
  BY DEF Segment
<1>1. u = IF t.fate # "ok" \/ t.ret # "OK" THEN t
          ELSE IF seg.short THEN [p EXCEPT !.ret = "E_READ"]
          ELSE alloc_all(t, Upwards(v), Pages(v))
  BY s.fate = "ok", s.ret = "OK" DEF load_segment
<1>2. Mapped(s, v, t)
  BY <1>0, MmMap
<1> HIDE DEF v, t, u
<1>3. CASE t.fate # "ok" \/ t.ret # "OK"
  <2>1. u = t
    BY <1>1, <1>3
  <2>2. t.fate = "ok" => \A i \in DOMAIN t.m.mmap_list : In(s.m.mmap_list, t.m.mmap_list[i])
    BY ONLY <1>2, <1>3 DEF Mapped, In
  <2>3. QED
    BY ONLY <1>2, <2>1, <2>2 DEF Mapped, Added, u, v
<1>4. CASE t.fate = "ok" /\ t.ret = "OK"
  <2> DEFINE cov == Covered(t.m.mmap_list)
  <2>1. /\ t \in WorkType /\ Sound(t.m) /\ USER_ACCESS(v.vm_start, v.vm_end)
        /\ Pages(v) \subseteq cov /\ \A la \in Pages(v) : la \notin t.m.pages
    BY ONLY <1>2, <1>4 DEF Mapped
  <2>2. cov \in SUBSET Nat /\ Tables(cov, t.m)
    BY ONLY <2>1, CoveredFacts DEF Sound
  <2>3. v.vm_start \in Nat /\ v.vm_end \in Nat /\ v.vm_start < v.vm_end /\ v.vm_start \in Pages(v)
    BY ONLY <1>0, <2>1 DEF Vma, USER_ACCESS, Pages
  <2> HIDE DEF cov
  <2>4. CASE seg.short
    <3>1. Grown(cov, t, p)
      <4> DEFINE la == v.vm_start
      <4>1. la \in cov /\ la \notin t.m.pages
        BY <2>1, <2>3
      <4> HIDE DEF la
      <4>2. Grown(cov, t, pgdir_alloc_page(t, la))
        BY ONLY <2>1, <2>2, <4>1, PgdirAllocPage
      <4>3. QED
        BY <4>2 DEF la
    <3>2. Added(s, v, p)
      BY ONLY <1>2, <1>4, <3>1, AddedGrows DEF cov
    <3> HIDE DEF p
    <3>3. u = [p EXCEPT !.ret = "E_READ"]
      BY <1>1, <1>4, <2>4
    <3>4. u \in WorkType /\ u.lost = p.lost /\ u.fate = p.fate /\ u.m = p.m /\ u.free = p.free
      BY ONLY <3>2, <3>3 DEF WorkType, Added, Results
    <3>5. Total(u) = Total(p)
      BY ONLY <3>4 DEF Total
    <3>6. Added(s, v, u)
      BY ONLY <3>2, <3>4, <3>5 DEF Added
    <3>7. QED
      BY <3>6 DEF u, v
  <2>5. CASE ~seg.short
    <3>1. u = alloc_all(t, Upwards(v), Pages(v))
      BY <1>1, <1>4, <2>5
    <3> DEFINE las == Upwards(v)
               wanted == Pages(v)
    <3>2. /\ las \in Seq(Nat)
          /\ \A i, j \in 1..Len(las) : las[i] = las[j] => i = j
          /\ \A i \in 1..Len(las) : las[i] \in wanted
      BY ONLY <1>0, <2>3, UpwardsFacts
    <3> HIDE DEF las, wanted
    <3>3. \A i \in 1..Len(las) : las[i] \in wanted => las[i] \in cov /\ las[i] \notin t.m.pages
      BY <2>1 DEF wanted
    <3>4. Grown(cov, t, alloc_all(t, las, wanted))
      BY ONLY <2>1, <2>2, <3>2, <3>3, AllocAll
    <3>5. Grown(cov, t, u)
      BY <3>1, <3>4 DEF las, wanted
    <3>6. Added(s, v, u)
      BY ONLY <1>2, <1>4, <3>5, AddedGrows DEF cov
    <3>7. QED
      BY <3>6 DEF u, v
  <2>6. QED
    BY <2>4, <2>5
<1>5. QED
  BY <1>3, <1>4

\* The first n segments were loaded from s on, or one of them ended it.
Loaded(segs, n, s, x) ==
    /\ x \in WorkType /\ x.lost = s.lost /\ x.fate \in {"ok", "overlap", "swap_out"}
    /\ x.fate = "ok" =>
          /\ Sound(x.m) /\ Total(x) = Total(s)
          /\ \A i \in DOMAIN x.m.mmap_list : \E j \in 1..n : x.m.mmap_list[i] = segs[j].vma
    /\ x.fate = "overlap" => \E i, j \in 1..n : i < j /\ Overlap(segs[i].vma, segs[j].vma)

LEMMA LoadRound ==
    ASSUME NEW segs \in Seq(Segment), NEW n \in 1..Len(segs), NEW s, NEW x, Loaded(segs, n - 1, s, x),
           NEW y, y = load_segment(x, segs[n])
    PROVE  Loaded(segs, n, s, y)
<1>0. Len(segs) \in Nat /\ n \in Int /\ \A i \in 1..(n - 1) : i \in 1..n /\ i < n
  OBVIOUS
<1>0a. n \in 1..n
  BY <1>0
<1>1. CASE x.fate # "ok" \/ x.ret # "OK"
  <2>1. y = x
    BY <1>1 DEF load_segment
  <2>2. QED
    BY ONLY <1>0, <2>1, Loaded(segs, n - 1, s, x) DEF Loaded
<1>2. CASE x.fate = "ok" /\ x.ret = "OK"
  <2> DEFINE seg == segs[n]
  <2>1. seg \in Segment
    OBVIOUS
  <2> HIDE DEF seg
  <2>2. x \in WorkType /\ Sound(x.m)
    BY ONLY <1>2, Loaded(segs, n - 1, s, x) DEF Loaded
  <2>3. Added(x, seg.vma, y)
    <3>1. y = load_segment(x, seg)
      BY DEF seg
    <3>2. QED
      BY ONLY <1>2, <2>1, <2>2, <3>1, LoadSegment
  <2>4. \A i \in DOMAIN x.m.mmap_list : \E j \in 1..(n - 1) : x.m.mmap_list[i] = segs[j].vma
    BY ONLY <1>2, Loaded(segs, n - 1, s, x) DEF Loaded
  <2>5. seg.vma = segs[n].vma
    BY DEF seg
  <2>6. y.fate = "ok" => \A i \in DOMAIN y.m.mmap_list : \E j \in 1..n : y.m.mmap_list[i] = segs[j].vma
    <3> SUFFICES ASSUME y.fate = "ok", NEW i \in DOMAIN y.m.mmap_list
                 PROVE  \E j \in 1..n : y.m.mmap_list[i] = segs[j].vma
      OBVIOUS
    <3>1. y.m.mmap_list[i] = seg.vma \/ In(x.m.mmap_list, y.m.mmap_list[i])
      BY ONLY <2>3, y.fate = "ok", i \in DOMAIN y.m.mmap_list DEF Added
    <3>2. QED
      BY ONLY <1>0, <1>0a, <2>4, <2>5, <3>1 DEF In
  <2>7. y.fate = "overlap" => \E i, j \in 1..n : i < j /\ Overlap(segs[i].vma, segs[j].vma)
    <3> SUFFICES ASSUME y.fate = "overlap" PROVE \E i, j \in 1..n : i < j /\ Overlap(segs[i].vma, segs[j].vma)
      OBVIOUS
    <3>1. PICK i \in DOMAIN x.m.mmap_list : Overlap(x.m.mmap_list[i], seg.vma)
      BY ONLY <2>3, y.fate = "overlap" DEF Added
    <3>2. PICK j \in 1..(n - 1) : x.m.mmap_list[i] = segs[j].vma
      BY <2>4
    <3>3. j \in 1..n /\ j < n /\ Overlap(segs[j].vma, segs[n].vma)
      BY <1>0, <2>5, <3>1, <3>2
    <3>4. QED
      BY <1>0a, <3>3
  <2>8. y \in WorkType /\ y.lost = x.lost /\ y.fate \in {"ok", "overlap", "swap_out"}
        /\ (y.fate = "ok" => Sound(y.m) /\ Total(y) = Total(x))
    BY ONLY <2>3 DEF Added
  <2>9. x.lost = s.lost /\ Total(x) = Total(s)
    BY ONLY <1>2, Loaded(segs, n - 1, s, x) DEF Loaded
  <2>10. QED
    BY ONLY <2>6, <2>7, <2>8, <2>9 DEF Loaded
<1>3. QED
  BY <1>1, <1>2

LEMMA LoadSegments ==
    ASSUME NEW segs \in Seq(Segment), NEW s, Loaded(segs, 0, s, s)
    PROVE  Loaded(segs, Len(segs), s, load_segments(s, segs))
<1> DEFINE N == Len(segs)
<1>0. N \in Nat
  OBVIOUS
<1>1. PICK g : Rounds(g, "segments", segs, s, N) /\ load_segments(s, segs) = g[N]
  BY ONLY <1>0, SegmentsRun
<1> DEFINE S == {k \in 0..N : Loaded(segs, k, s, g[k])}
<1>2. 0 \in S
  <2>1. g[0] = s /\ 0 \in 0..N
    BY <1>0, <1>1 DEF Rounds
  <2>2. QED
    BY <2>1
<1>3. ASSUME NEW k \in 0..(N - 1), k \in S PROVE k + 1 \in S
  <2> DEFINE n == k + 1
  <2>1. n \in 1..N /\ n \in 0..N /\ n - 1 = k /\ n # 0
    BY <1>0
  <2> HIDE DEF n
  <2>2. g[n] = load_segment(g[k], segs[n])
    BY ONLY <1>1, <2>1 DEF Rounds, Round
  <2>3. Loaded(segs, n - 1, s, g[k])
    BY <1>3, <2>1
  <2>4. Loaded(segs, n, s, g[n])
    BY <2>1, <2>2, <2>3, LoadRound
  <2>5. QED
    BY ONLY <2>1, <2>4 DEF n
<1> HIDE DEF S
<1>4. N \in S
  <2>1. \A k \in 0..N : k \in S
    BY ONLY <1>0, <1>2, <1>3, IntervalInduction
  <2>2. QED
    BY <1>0, <2>1
<1>5. QED
  BY <1>1, <1>4 DEF S
-----------------------------------------------------------------------------
(* put_mm.                                                                 *)

LEMMA Without ==
    ASSUME NEW S, IsFiniteSet(S), NEW T \in SUBSET S
    PROVE  /\ IsFiniteSet(S \ T) /\ IsFiniteSet(T) /\ Cardinality(T) \in Nat /\ Cardinality(S \ T) \in Nat
           /\ Cardinality(S) = Cardinality(S \ T) + Cardinality(T)
<1> DEFINE R == S \ T
<1>1. IsFiniteSet(T) /\ IsFiniteSet(R)
  BY FS_Subset
<1>2. R \cup T = S /\ R \cap T = {}
  OBVIOUS
<1> HIDE DEF R
<1>3. Cardinality(R \cup T) = Cardinality(R) + Cardinality(T) - Cardinality(R \cap T)
  BY ONLY <1>1, FS_Union
<1>4. Cardinality(R) \in Nat /\ Cardinality(T) \in Nat
  BY ONLY <1>1, FS_CardinalityType
<1>5. Cardinality(S) = Cardinality(R) + Cardinality(T)
  <2>1. Cardinality(R \cap T) = 0
    BY ONLY <1>2, FS_EmptySet
  <2>2. Cardinality(R \cup T) = Cardinality(S)
    BY ONLY <1>2
  <2>3. QED
    BY ONLY <1>3, <1>4, <2>1, <2>2
<1>6. QED
  BY <1>1, <1>4, <1>5 DEF R

\* From s to t tables went, and each frame of them is free or counted as lost.
Shrunk(s, t) ==
    /\ t \in WorkType /\ t.fate = s.fate /\ t.ret = s.ret /\ Finite(t.m) /\ Total(t) = Total(s)
    /\ t.lost >= s.lost /\ t.m.pages = s.m.pages /\ t.m.pd0 \subseteq s.m.pd0

DropTables(s, E) == [s EXCEPT !.m.pt = @ \ E, !.free = @ + Cardinality(E)]
DropDir(s, d, L) ==
    [s EXCEPT !.m.pd0 = @ \ {d}, !.m.pt = @ \ L, !.free = @ + 1, !.lost = @ + Cardinality(L)]

LEMMA TablesGo ==
    ASSUME NEW s \in WorkType, Finite(s.m), NEW E \in SUBSET s.m.pt, NEW t, t = DropTables(s, E)
    PROVE  Shrunk(s, t) /\ t.m.pt = s.m.pt \ E /\ t.m.pd0 = s.m.pd0 /\ t.lost = s.lost
<1>1. /\ IsFiniteSet(s.m.pt \ E) /\ Cardinality(E) \in Nat /\ Cardinality(s.m.pt \ E) \in Nat
      /\ Cardinality(s.m.pt) = Cardinality(s.m.pt \ E) + Cardinality(E)
  BY Without DEF Finite
<1> DEFINE n == Cardinality(E)
<1>2. n \in Int
  BY <1>1
<1> HIDE DEF n
<1>3. t = [s EXCEPT !.m.pt = @ \ E, !.free = @ + n]
  BY DEF n, DropTables
<1>4. /\ t \in WorkType /\ t.fate = s.fate /\ t.ret = s.ret /\ t.lost = s.lost /\ t.free = s.free + n
      /\ t.m.pt = s.m.pt \ E /\ t.m.pd0 = s.m.pd0 /\ t.m.pages = s.m.pages
  <2> DEFINE Q == s.m.pt \ E
             m == [s.m EXCEPT !.pt = Q]
  <2>1. Q \in SUBSET Nat /\ s.m \in Mm
    BY DEF WorkType, Mm
  <2> DEFINE f == s.free + n
  <2>2. t = [s EXCEPT !.m = m, !.free = f]
    BY ONLY <1>3, s \in WorkType DEF WorkType, Mm
  <2>2a. f \in Int
    BY <1>2 DEF WorkType
  <2> HIDE DEF f
  <2> HIDE DEF Q
  <2>3. m \in Mm /\ m.pt = Q /\ m.pd0 = s.m.pd0 /\ m.pages = s.m.pages
    BY ONLY <2>1 DEF Mm
  <2> HIDE DEF m
  <2>4. /\ t \in WorkType /\ t.fate = s.fate /\ t.ret = s.ret /\ t.lost = s.lost /\ t.free = f
        /\ t.m = m
    BY ONLY <2>2, <2>2a, <2>3, s \in WorkType DEF WorkType
  <2>5. QED
    BY ONLY <2>3, <2>4 DEF Q, f
<1>5. Finite(t.m)
  BY ONLY <1>1, <1>4, Finite(s.m) DEF Finite
<1>6. s.free \in Int /\ s.lost \in Nat /\ Cardinality(s.m.pd0) \in Nat /\ Cardinality(s.m.pages) \in Nat
  BY SizeType DEF WorkType
<1>7. Total(t) = Total(s)
  BY ONLY <1>1, <1>4, <1>6 DEF Total, Size, n
<1>8. QED
  BY ONLY <1>4, <1>5, <1>6, <1>7 DEF Shrunk

LEMMA DirectoryGoes ==
    ASSUME NEW s \in WorkType, Finite(s.m), NEW d \in s.m.pd0, NEW L \in SUBSET s.m.pt,
           NEW t, t = DropDir(s, d, L)
    PROVE  Shrunk(s, t) /\ t.m.pt = s.m.pt \ L /\ t.m.pd0 = s.m.pd0 \ {d} /\ t.lost = s.lost + Cardinality(L)
<1>1. /\ IsFiniteSet(s.m.pt \ L) /\ Cardinality(L) \in Nat /\ Cardinality(s.m.pt \ L) \in Nat
      /\ Cardinality(s.m.pt) = Cardinality(s.m.pt \ L) + Cardinality(L)
  BY Without DEF Finite
<1>2. /\ IsFiniteSet(s.m.pd0 \ {d}) /\ Cardinality(s.m.pd0 \ {d}) = Cardinality(s.m.pd0) - 1
  BY FS_RemoveElement DEF Finite
<1> DEFINE n == Cardinality(L)
<1>3. n \in Nat
  BY <1>1
<1> HIDE DEF n
<1>4. t = [s EXCEPT !.m.pd0 = @ \ {d}, !.m.pt = @ \ L, !.free = @ + 1, !.lost = @ + n]
  BY DEF n, DropDir
<1>5. /\ t \in WorkType /\ t.fate = s.fate /\ t.ret = s.ret /\ t.lost = s.lost + n /\ t.free = s.free + 1
      /\ t.m.pt = s.m.pt \ L /\ t.m.pd0 = s.m.pd0 \ {d} /\ t.m.pages = s.m.pages
  <2> DEFINE P == s.m.pd0 \ {d}
             Q == s.m.pt \ L
             m == [s.m EXCEPT !.pd0 = P, !.pt = Q]
  <2>1. P \in SUBSET Nat /\ Q \in SUBSET Nat /\ s.m \in Mm
    BY DEF WorkType, Mm
  <2> DEFINE f == s.free + 1
             l == s.lost + n
  <2>2. t = [s EXCEPT !.m = m, !.free = f, !.lost = l]
    BY ONLY <1>4, s \in WorkType DEF WorkType, Mm
  <2>2a. f \in Int /\ l \in Nat
    BY <1>3 DEF WorkType
  <2> HIDE DEF f, l
  <2> HIDE DEF P, Q
  <2>3. m \in Mm /\ m.pt = Q /\ m.pd0 = P /\ m.pages = s.m.pages
    BY ONLY <2>1 DEF Mm
  <2> HIDE DEF m
  <2>4. /\ t \in WorkType /\ t.fate = s.fate /\ t.ret = s.ret /\ t.lost = l /\ t.free = f
        /\ t.m = m
    BY ONLY <2>2, <2>2a, <2>3, s \in WorkType DEF WorkType
  <2>5. QED
    BY ONLY <2>3, <2>4 DEF P, Q, f, l
<1>6. Finite(t.m)
  BY ONLY <1>1, <1>2, <1>5, Finite(s.m) DEF Finite
<1>7. s.free \in Int /\ s.lost \in Nat /\ Cardinality(s.m.pd0) \in Nat /\ Cardinality(s.m.pages) \in Nat
  BY SizeType DEF WorkType
<1>8. Total(t) = Total(s)
  BY ONLY <1>1, <1>2, <1>5, <1>7 DEF Total, Size, n
<1>9. t.lost >= s.lost
  BY ONLY <1>3, <1>5, <1>7
<1>10. QED
  BY ONLY <1>5, <1>6, <1>8, <1>9 DEF Shrunk, n

LEMMA ShrunkChain ==
    ASSUME NEW r, r.lost \in Nat, NEW s, NEW t, Shrunk(r, s), Shrunk(s, t)
    PROVE  Shrunk(r, t)
<1>1. s.lost \in Nat /\ t.lost \in Nat
  BY DEF Shrunk, WorkType
<1>2. t.lost >= r.lost
  BY ONLY <1>1, r.lost \in Nat, Shrunk(r, s), Shrunk(s, t) DEF Shrunk
<1>3. QED
  BY ONLY <1>2, Shrunk(r, s), Shrunk(s, t) DEF Shrunk

\* The parts of exit_directory.
RangeOf(v, d) == {PDX0(la) : la \in {x \in Pages(v) : PDX1(x) = d}}
EmptyOf(s, v, d) == {t \in RangeOf(v, d) \cap s.m.pt : \A la \in s.m.pages : PDX0(la) # t}
Emptied(s, v, d) == DropTables(s, EmptyOf(s, v, d))
LeftOf(t, d) == {x \in t.m.pt : x \div PdN = d}

LEMMA DirectoryParts ==
    ASSUME NEW s, NEW v, NEW d
    PROVE  exit_directory(s, v, d) =
             LET t == Emptied(s, v, d)
             IN IF d \notin s.m.pd0 THEN s
                ELSE IF ~(RangeOf(v, d) \subseteq s.m.pt) THEN t
                ELSE DropDir(t, d, LeftOf(t, d))
  BY DEF exit_directory, Emptied, EmptyOf, RangeOf, LeftOf, DropTables, DropDir

LEMMA ExitDirectory ==
    ASSUME NEW s \in WorkType, Finite(s.m), NEW v, NEW d
    PROVE  Shrunk(s, exit_directory(s, v, d))
<1> DEFINE E == EmptyOf(s, v, d)
           t == Emptied(s, v, d)
           L == LeftOf(t, d)
           y == exit_directory(s, v, d)
<1>1. y = IF d \notin s.m.pd0 THEN s
          ELSE IF ~(RangeOf(v, d) \subseteq s.m.pt) THEN t
          ELSE DropDir(t, d, L)
  BY DirectoryParts
<1>2. E \in SUBSET s.m.pt
  BY DEF EmptyOf
<1>3. t = DropTables(s, E)
  BY DEF Emptied
<1> HIDE DEF E, t, y
<1>4. Shrunk(s, t) /\ t.m.pd0 = s.m.pd0
  BY ONLY <1>2, <1>3, s \in WorkType, Finite(s.m), TablesGo
<1>5. L \in SUBSET t.m.pt
  BY DEF LeftOf
<1> HIDE DEF L
<1>6. CASE d \notin s.m.pd0
  <2>1. y = s
    BY <1>1, <1>6
  <2>2. s.lost \in Nat
    BY DEF WorkType
  <2>3. QED
    BY ONLY <2>1, <2>2, s \in WorkType, Finite(s.m) DEF Shrunk, y
<1>7. CASE d \in s.m.pd0 /\ ~(RangeOf(v, d) \subseteq s.m.pt)
  <2>1. y = t
    BY <1>1, <1>7
  <2>2. QED
    BY <1>4, <2>1 DEF y
<1>8. CASE d \in s.m.pd0 /\ RangeOf(v, d) \subseteq s.m.pt
  <2>1. y = DropDir(t, d, L)
    BY <1>1, <1>8
  <2>2. t \in WorkType /\ Finite(t.m) /\ d \in t.m.pd0
    BY ONLY <1>4, <1>8 DEF Shrunk
  <2>3. Shrunk(t, y)
    BY ONLY <1>5, <2>1, <2>2, DirectoryGoes
  <2>4. s.lost \in Nat
    BY DEF WorkType
  <2>5. Shrunk(s, y)
    BY ONLY <1>4, <2>3, <2>4, ShrunkChain
  <2>6. QED
    BY <2>5 DEF y
<1>9. QED
  BY <1>6, <1>7, <1>8

\* No directory serves two tables of covered pages.
OneTable(cov) == \A a, b \in cov : PDX1(a) = PDX1(b) => PDX0(a) = PDX0(b)

Clean(cov, lost0, x) == Tables(cov, x.m) /\ x.m.pages = {} /\ x.lost = lost0

LEMMA ExitClean ==
    ASSUME NEW cov \in SUBSET Nat, OneTable(cov), NEW x \in WorkType, NEW lost0, Clean(cov, lost0, x),
           NEW v, Pages(v) \subseteq cov, NEW d, \E la \in Pages(v) : PDX1(la) = d,
           NEW y, y = exit_directory(x, v, d)
    PROVE  Clean(cov, lost0, y) /\ d \notin y.m.pd0
<1> DEFINE E == EmptyOf(x, v, d)
           z == Emptied(x, v, d)
           L == LeftOf(z, d)
<1>1. y = IF d \notin x.m.pd0 THEN x
          ELSE IF ~(RangeOf(v, d) \subseteq x.m.pt) THEN z
          ELSE DropDir(z, d, L)
  BY DirectoryParts
<1>2. CASE d \notin x.m.pd0
  BY <1>1, <1>2
<1>3. CASE d \in x.m.pd0
  <2>0. Tables(cov, x.m) /\ x.m.pages = {} /\ x.lost = lost0
    BY DEF Clean
  <2>1. PICK la0 \in Pages(v) : PDX1(la0) = d
    OBVIOUS
  <2>2. ASSUME NEW u \in x.m.pt, u \div PdN = d PROVE u = PDX0(la0)
    <3>1. PICK la \in cov : PDX0(la) = u
      BY <2>0 DEF Tables
    <3>2. PDX1(la) = d
      BY <2>2, <3>1, DirectoryOfTable
    <3>3. QED
      BY <2>1, <3>1, <3>2 DEF OneTable
  <2> DEFINE t == PDX0(la0)
  <2>3. t \in x.m.pt /\ t \div PdN = d
    BY <1>3, <2>0, <2>2 DEF Tables
  <2>4. RangeOf(v, d) = {t}
    <3>1. \A la \in Pages(v) : PDX1(la) = d => PDX0(la) = t
      BY <2>1 DEF OneTable
    <3>2. QED
      BY <2>1, <3>1 DEF RangeOf
  <2> HIDE DEF t
  <2>5. E = {t}
    BY <2>0, <2>3, <2>4 DEF EmptyOf
  <2>6. z = DropTables(x, E) /\ E \in SUBSET x.m.pt /\ Finite(x.m)
    BY <2>0, <2>3, <2>5 DEF Emptied, Tables
  <2> HIDE DEF E, z
  <2>7. Shrunk(x, z) /\ z.m.pt = x.m.pt \ {t} /\ z.m.pd0 = x.m.pd0 /\ z.lost = x.lost
    BY ONLY <2>5, <2>6, x \in WorkType, TablesGo
  <2>8. L = {}
    <3> SUFFICES ASSUME NEW u \in z.m.pt, u \div PdN = d PROVE FALSE
      BY DEF LeftOf
    <3>1. u \in x.m.pt /\ u # t
      BY <2>7
    <3>2. QED
      BY <2>2, <3>1 DEF t
  <2>9. y = DropDir(z, d, L)
    BY <1>1, <1>3, <2>3, <2>4
  <2> HIDE DEF L
  <2>10. z \in WorkType /\ Finite(z.m) /\ d \in z.m.pd0 /\ L \in SUBSET z.m.pt /\ z.m.pages = x.m.pages
    BY ONLY <1>3, <2>7, <2>8 DEF Shrunk
  <2>11. Shrunk(z, y) /\ y.m.pt = z.m.pt \ L /\ y.m.pd0 = z.m.pd0 \ {d} /\ y.lost = z.lost + Cardinality(L)
    BY ONLY <2>9, <2>10, DirectoryGoes
  <2>12. y.m.pt = x.m.pt \ {t} /\ y.m.pd0 = x.m.pd0 \ {d} /\ y.m.pages = {} /\ Finite(y.m)
    BY ONLY <2>0, <2>7, <2>8, <2>10, <2>11 DEF Shrunk
  <2>13. y.lost = lost0
    <3>1. z.lost = lost0 /\ z.lost \in Nat /\ Cardinality(L) = 0
      BY ONLY <2>0, <2>7, <2>8, <2>10, FS_EmptySet DEF WorkType
    <3>2. QED
      BY ONLY <2>11, <3>1
  <2>14. Tables(cov, y.m)
    <3>1. \A u \in y.m.pt : u \div PdN \in y.m.pd0 /\ \E la \in cov : PDX0(la) = u
      <4> SUFFICES ASSUME NEW u \in y.m.pt PROVE u \div PdN \in y.m.pd0 /\ \E la \in cov : PDX0(la) = u
        OBVIOUS
      <4>1. u \in x.m.pt /\ u # t
        BY <2>12
      <4>2. u \div PdN # d
        BY <2>2, <4>1 DEF t
      <4>3. u \div PdN \in x.m.pd0 /\ \E la \in cov : PDX0(la) = u
        BY ONLY <2>0, <4>1 DEF Tables
      <4>4. QED
        BY ONLY <2>12, <4>2, <4>3
    <3>2. \A e \in y.m.pd0 : \E u \in y.m.pt : u \div PdN = e
      <4> SUFFICES ASSUME NEW e \in y.m.pd0 PROVE \E u \in y.m.pt : u \div PdN = e
        OBVIOUS
      <4>1. e \in x.m.pd0 /\ e # d
        BY <2>12
      <4>2. PICK u \in x.m.pt : u \div PdN = e
        BY ONLY <2>0, <4>1 DEF Tables
      <4>3. u # t
        BY <2>3, <4>1, <4>2
      <4>4. QED
        BY ONLY <2>12, <4>2, <4>3
    <3>3. QED
      BY ONLY <2>12, <3>1, <3>2 DEF Tables
  <2>15. QED
    BY ONLY <2>12, <2>13, <2>14 DEF Clean
<1>4. QED
  BY <1>2, <1>3

\* After the directories of D were looked at.
Exited(cov, s, x, D) ==
    /\ Shrunk(s, x)
    /\ OneTable(cov) /\ Clean(cov, s.lost, s) => Clean(cov, s.lost, x) /\ \A d \in D : d \notin x.m.pd0

LEMMA ExitedStep ==
    ASSUME NEW cov \in SUBSET Nat, NEW s \in WorkType, NEW x, NEW D, Exited(cov, s, x, D),
           NEW v, Pages(v) \subseteq cov, NEW d, \E la \in Pages(v) : PDX1(la) = d,
           NEW y, y = exit_directory(x, v, d)
    PROVE  Exited(cov, s, y, D \cup {d})
<1>0. s.lost \in Nat
  BY DEF WorkType
<1>1. x \in WorkType /\ Finite(x.m) /\ Shrunk(s, x)
  BY ONLY Exited(cov, s, x, D) DEF Exited, Shrunk
<1>2. Shrunk(x, y)
  BY <1>1, ExitDirectory
<1>3. Shrunk(s, y)
  BY ONLY <1>0, <1>1, <1>2, ShrunkChain
<1>4. ASSUME OneTable(cov) /\ Clean(cov, s.lost, s)
      PROVE  Clean(cov, s.lost, y) /\ \A e \in D \cup {d} : e \notin y.m.pd0
  <2> DEFINE l == s.lost
  <2>1. Clean(cov, l, x) /\ \A e \in D : e \notin x.m.pd0
    BY ONLY <1>4, Exited(cov, s, x, D) DEF Exited
  <2> HIDE DEF l
  <2>2. Clean(cov, l, y) /\ d \notin y.m.pd0
    BY <1>1, <1>4, <2>1, ExitClean
  <2>3. y.m.pd0 \subseteq x.m.pd0
    BY ONLY <1>2 DEF Shrunk
  <2>4. QED
    BY ONLY <2>1, <2>2, <2>3 DEF l
<1>5. QED
  BY ONLY <1>3, <1>4 DEF Exited

Dirs(v) == PDX1(v.vm_start)..PDX1(v.vm_end - 1)

LEMMA ExitedRange ==
    ASSUME NEW cov \in SUBSET Nat, NEW s \in WorkType, NEW x, NEW D, Exited(cov, s, x, D),
           NEW v \in Vma, v.vm_start < v.vm_end, Pages(v) \subseteq cov
    PROVE  Exited(cov, s, exit_range(x, v), D \cup Dirs(v))
<1> DEFINE a == PDX1(v.vm_start)
           z == PDX1(v.vm_end - 1)
           N == z - a + 1
<1>0. v.vm_start \in Nat /\ v.vm_end - 1 \in Nat /\ v.vm_start <= v.vm_end - 1
  BY DEF Vma
<1>1. a \in Nat /\ z \in Nat
  BY <1>0, DirectoryOfTable
<1>2. a <= z
  <2> DEFINE b == PtN * PdN
  <2>1. b \in Nat /\ b > 0
    BY Numbers
  <2>2. v.vm_start \div b <= (v.vm_end - 1) \div b
    <3> HIDE DEF b
    <3>1. QED
      BY ONLY <1>0, <2>1, QuotientMonotone
  <2>3. QED
    BY <2>2 DEF PDX1
<1>3. \A d \in a..z : \E la \in Pages(v) : PDX1(la) = d
  BY <1>0, DirectoryHit DEF Pages
<1> HIDE DEF a, z
<1>4. N \in Nat
  BY ONLY <1>1, <1>2
<1>5. PICK g : Rounds(g, "directories", <<v, a>>, x, N) /\ exit_range(x, v) = g[N]
  BY ONLY <1>4, DirectoriesRun DEF a, z
<1> DEFINE S == {k \in 0..N : Exited(cov, s, g[k], D \cup (a..(a + k - 1)))}
<1>6. 0 \in S
  <2>1. g[0] = x /\ 0 \in 0..N
    BY ONLY <1>4, <1>5 DEF Rounds
  <2>2. D \cup (a..(a + 0 - 1)) = D
    BY ONLY <1>1
  <2>3. QED
    BY <2>1, <2>2
<1>7. ASSUME NEW k \in 0..(N - 1), k \in S PROVE k + 1 \in S
  <2> DEFINE n == k + 1
             d == a + n - 1
             C == D \cup (a..(a + k - 1))
  <2>1. n \in 1..N /\ n \in 0..N /\ n - 1 = k /\ n # 0
    BY ONLY <1>4, k \in 0..(N - 1)
  <2>2. d \in a..z /\ (a..(a + k - 1)) \cup {d} = a..(a + n - 1)
    BY ONLY <1>1, <1>2, <1>4, k \in 0..(N - 1)
  <2> HIDE DEF n, d
  <2>3. g[n] = exit_directory(g[k], v, d)
    BY ONLY <1>5, <2>1 DEF Rounds, Round, d
  <2>4. Exited(cov, s, g[k], C)
    BY <1>7
  <2>5. \E la \in Pages(v) : PDX1(la) = d
    BY ONLY <1>3, <2>2
  <2>6. C \cup {d} = D \cup (a..(a + n - 1))
    BY ONLY <2>2
  <2> HIDE DEF C
  <2>7. Exited(cov, s, g[n], C \cup {d})
    BY <2>3, <2>4, <2>5, ExitedStep
  <2>8. QED
    BY ONLY <2>1, <2>6, <2>7 DEF n
<1> HIDE DEF S, N
<1>8. N \in S
  <2>1. \A k \in 0..N : k \in S
    BY ONLY <1>4, <1>6, <1>7, IntervalInduction
  <2>2. QED
    BY <1>4, <2>1
<1>9. a + N - 1 = z
  BY ONLY <1>1 DEF N
<1>10. QED
  BY ONLY <1>5, <1>8, <1>9 DEF S, Dirs, a, z

LEMMA UnmapGood ==
    ASSUME NEW s \in WorkType, Sound(s.m), NEW u, u = unmap_range(s)
    PROVE  /\ u \in WorkType /\ u.fate = s.fate /\ u.ret = s.ret /\ u.lost = s.lost /\ Total(u) = Total(s)
           /\ Clean(Covered(s.m.mmap_list), s.lost, u)
<1> DEFINE cov == Covered(s.m.mmap_list)
           G == s.m.pages
           n == Cardinality(G)
<1>1. Tables(cov, s.m) /\ s.m \in Mm
  BY DEF Sound
<1>2. s.m.pages \cap cov = G /\ IsFiniteSet(G) /\ n \in Nat
  BY <1>1, FS_CardinalityType DEF Tables, Finite
<1>3. u = [s EXCEPT !.m.pages = @ \ G, !.free = @ + n]
  BY <1>2 DEF unmap_range, page_remove_pte
<1> HIDE DEF n, cov
<1> DEFINE m == [s.m EXCEPT !.pages = {}]
           f == s.free + n
<1>4. u = [s EXCEPT !.m = m, !.free = f]
  <2>1. s.m.pages \ G = {}
    OBVIOUS
  <2> HIDE DEF G
  <2>2. QED
    BY ONLY <1>3, <2>1, s \in WorkType DEF WorkType, Mm
<1>5. m \in Mm /\ m.pages = {} /\ m.pd0 = s.m.pd0 /\ m.pt = s.m.pt
  BY ONLY <1>1 DEF Mm
<1>6. f \in Int /\ s.free \in Int /\ s.lost \in Nat
  BY <1>2 DEF WorkType
<1> HIDE DEF m, f
<1>7. u \in WorkType /\ u.fate = s.fate /\ u.ret = s.ret /\ u.lost = s.lost /\ u.free = f /\ u.m = m
  BY ONLY <1>4, <1>5, <1>6, s \in WorkType DEF WorkType
<1>8. Finite(m)
  BY ONLY <1>1, <1>5, FS_EmptySet DEF Tables, Finite
<1>9. Tables(cov, m)
  BY ONLY <1>1, <1>5, <1>8 DEF Tables
<1>10. Total(u) = Total(s)
  <2>1. Cardinality(s.m.pd0) \in Nat /\ Cardinality(s.m.pt) \in Nat
    BY ONLY <1>1, SizeType DEF Tables
  <2>2. Cardinality(m.pages) = 0
    BY ONLY <1>5, FS_EmptySet
  <2>3. f = s.free + n /\ n = Cardinality(s.m.pages)
    BY DEF f, n
  <2>4. Size(m) = 1 + Cardinality(s.m.pd0) + Cardinality(s.m.pt)
        /\ Size(s.m) = 1 + Cardinality(s.m.pd0) + Cardinality(s.m.pt) + n
    BY ONLY <1>5, <2>1, <2>2, <2>3 DEF Size
  <2>5. QED
    BY ONLY <1>2, <1>6, <1>7, <2>1, <2>3, <2>4 DEF Total
<1>11. Clean(cov, s.lost, u)
  BY ONLY <1>5, <1>7, <1>9 DEF Clean
<1>12. QED
  BY ONLY <1>7, <1>10, <1>11 DEF cov

\* The directories of the first k vmas.
DirsTo(list, k) == {d \in Nat : \E i \in 1..k : d \in Dirs(list[i])}

LEMMA ExitMmap ==
    ASSUME NEW s \in WorkType, Sound(s.m), NEW t, t = exit_mmap(s)
    PROVE  /\ t \in WorkType /\ t.fate = s.fate /\ t.ret = s.ret /\ Total(t) = Total(s) /\ t.lost >= s.lost
           /\ Finite(t.m) /\ t.m.pages = {}
           /\ OneTable(Covered(s.m.mmap_list)) => t.lost = s.lost /\ t.m.pd0 = {} /\ t.m.pt = {}
<1> DEFINE list == s.m.mmap_list
           cov == Covered(list)
           N == Len(list)
           u == unmap_range(s)
<1>0. VmasOK(list)
  BY DEF Sound
<1>1. cov \in SUBSET Nat /\ \A i \in DOMAIN list : Pages(list[i]) \subseteq cov
  BY <1>0, CoveredFacts
<1>2. u \in WorkType /\ u.fate = s.fate /\ u.ret = s.ret /\ u.lost = s.lost /\ Total(u) = Total(s)
      /\ Clean(cov, u.lost, u)
  BY UnmapGood
<1>3. N \in Nat /\ DOMAIN list = 1..N /\ \A i \in 1..N : list[i] \in Vma /\ list[i].vm_start < list[i].vm_end
  <2>1. N \in Nat /\ DOMAIN list = 1..N
    BY <1>0 DEF VmasOK
  <2>2. \A i \in DOMAIN list : list[i] \in Vma /\ list[i].vm_start < list[i].vm_end
    BY <1>0, VmaFacts
  <2>3. QED
    BY <2>1, <2>2
<1>4. PICK g : Rounds(g, "ranges", list, u, N) /\ t = g[N]
  BY ONLY <1>3, RangesRun, t = exit_mmap(s)
<1> HIDE DEF list, N, u, cov
<1> DEFINE S == {k \in 0..N : Exited(cov, u, g[k], DirsTo(list, k))}
<1>5. 0 \in S
  <2>1. g[0] = u /\ 0 \in 0..N
    BY ONLY <1>3, <1>4 DEF Rounds
  <2>2. DirsTo(list, 0) = {}
    BY DEF DirsTo
  <2>3. u.lost \in Nat /\ Finite(u.m)
    BY ONLY <1>2 DEF WorkType, Clean, Tables
  <2>4. Shrunk(u, u)
    BY ONLY <1>2, <2>3 DEF Shrunk
  <2>5. Exited(cov, u, u, {})
    BY ONLY <1>2, <2>4 DEF Exited
  <2>6. QED
    BY <2>1, <2>2, <2>5
<1>6. ASSUME NEW k \in 0..(N - 1), k \in S PROVE k + 1 \in S
  <2> DEFINE n == k + 1
             v == list[n]
             D == DirsTo(list, k)
  <2>1. n \in 1..N /\ n \in 0..N /\ n - 1 = k /\ n # 0 /\ k \in Int
    BY ONLY <1>3, k \in 0..(N - 1)
  <2> HIDE DEF n
  <2>2. g[n] = exit_range(g[k], v)
    BY ONLY <1>4, <2>1 DEF Rounds, Round
  <2>3. Exited(cov, u, g[k], D)
    BY <1>6
  <2>4. v \in Vma /\ v.vm_start < v.vm_end /\ Pages(v) \subseteq cov
    BY ONLY <1>1, <1>3, <2>1
  <2>5. D \cup Dirs(v) = DirsTo(list, n)
    <3>1. Dirs(v) \subseteq Nat
      <4>1. v.vm_start \in Nat
        BY <2>4 DEF Vma
      <4>2. PDX1(v.vm_start) \in Nat
        BY <4>1, DirectoryOfTable
      <4>3. v.vm_end - 1 \in Nat
        BY <2>4 DEF Vma
      <4>4. PDX1(v.vm_end - 1) \in Nat
        BY <4>3, DirectoryOfTable
      <4>5. QED
        BY <4>2, <4>4 DEF Dirs
    <3>2. \A i : i \in 1..n <=> i \in 1..k \/ i = n
      BY ONLY <2>1
    <3>3. QED
      BY ONLY <3>1, <3>2 DEF DirsTo
  <2> HIDE DEF v, D
  <2>6. Exited(cov, u, exit_range(g[k], v), D \cup Dirs(v))
    BY ONLY <1>1, <1>2, <2>3, <2>4, ExitedRange
  <2>7. QED
    BY ONLY <2>1, <2>2, <2>5, <2>6 DEF n
<1> HIDE DEF S
<1>7. N \in S
  <2>1. \A k \in 0..N : k \in S
    BY ONLY <1>3, <1>5, <1>6, IntervalInduction
  <2>2. QED
    BY <1>3, <2>1
<1>8. Exited(cov, u, t, DirsTo(list, N))
  BY ONLY <1>4, <1>7 DEF S
<1>9. Shrunk(u, t)
  BY ONLY <1>8 DEF Exited
<1>10. /\ t \in WorkType /\ t.fate = s.fate /\ t.ret = s.ret /\ Total(t) = Total(s) /\ t.lost >= s.lost
       /\ Finite(t.m) /\ t.m.pages = {}
  BY ONLY <1>2, <1>9 DEF Shrunk, Clean
<1>11. ASSUME OneTable(cov) PROVE t.lost = s.lost /\ t.m.pd0 = {} /\ t.m.pt = {}
  <2>1. Clean(cov, u.lost, t) /\ \A d \in DirsTo(list, N) : d \notin t.m.pd0
    BY ONLY <1>2, <1>8, <1>11 DEF Exited
  <2>2. t.lost = s.lost /\ Tables(cov, t.m)
    BY ONLY <1>2, <2>1 DEF Clean
  <2>3. t.m.pt = {}
    <3> SUFFICES ASSUME NEW x \in t.m.pt PROVE FALSE
      OBVIOUS
    <3>1. PICK la \in cov : PDX0(la) = x
      BY ONLY <2>2, x \in t.m.pt DEF Tables
    <3>2. x \div PdN \in t.m.pd0
      BY ONLY <2>2, x \in t.m.pt DEF Tables
    <3>3. la \in Nat
      BY <1>1
    <3>4. PDX1(la) \in t.m.pd0 /\ PDX1(la) \in Nat
      BY <3>1, <3>2, <3>3, DirectoryOfTable
    <3>5. PICK i \in DOMAIN list : la \in Pages(list[i])
      BY <1>0, CoveredFacts DEF cov
    <3> DEFINE v == list[i]
    <3>6. v \in Vma /\ la \in Pages(v) /\ i \in 1..N
      BY <1>3, <3>5
    <3>7. PDX1(la) \in Dirs(v)
      <4>1. v.vm_start \in Nat /\ v.vm_end \in Nat /\ v.vm_start <= la /\ la <= v.vm_end - 1 /\ v.vm_end - 1 \in Nat
        BY <3>3, <3>6 DEF Vma, Pages
      <4> DEFINE b == PtN * PdN
      <4>2. b \in Nat /\ b > 0
        BY Numbers
      <4> HIDE DEF b, v
      <4>3. v.vm_start \div b <= la \div b /\ la \div b <= (v.vm_end - 1) \div b
        BY ONLY <3>3, <4>1, <4>2, QuotientMonotone
      <4>4. v.vm_start \div b \in Nat /\ la \div b \in Nat /\ (v.vm_end - 1) \div b \in Nat
        BY ONLY <3>3, <4>1, <4>2, Quotient
      <4>5. la \div b \in (v.vm_start \div b)..((v.vm_end - 1) \div b)
        BY ONLY <4>3, <4>4
      <4>6. QED
        BY <4>5 DEF Dirs, PDX1, b
    <3>8. PDX1(la) \in DirsTo(list, N)
      BY <3>4, <3>6, <3>7 DEF DirsTo
    <3>9. QED
      BY <2>1, <3>4, <3>8
  <2>4. t.m.pd0 = {}
    BY ONLY <2>2, <2>3 DEF Tables
  <2>5. QED
    BY <2>2, <2>3, <2>4
<1>12. QED
  BY <1>10, <1>11 DEF cov, list

\* What is left of an address space that was put.
Gone(s, t) ==
    /\ t \in [m : {NONE}, free : Int, lost : Nat, fate : Fates, ret : Results]
    /\ t.fate = s.fate /\ t.ret = s.ret /\ t.free + t.lost = Total(s)
    /\ ~Spread(s.m) => t.lost = s.lost

LEMMA PutMm ==
    ASSUME NEW s \in WorkType, Sound(s.m)
    PROVE  Gone(s, put_mm(s))
<1> DEFINE t == exit_mmap(s)
           p == put_mm(s)
           n == Cardinality(t.m.pd0) + Cardinality(t.m.pt) + Cardinality(t.m.pages)
<1>1. /\ t \in WorkType /\ t.fate = s.fate /\ t.ret = s.ret /\ Total(t) = Total(s) /\ t.lost >= s.lost
      /\ Finite(t.m) /\ t.m.pages = {}
      /\ OneTable(Covered(s.m.mmap_list)) => t.lost = s.lost /\ t.m.pd0 = {} /\ t.m.pt = {}
  BY ExitMmap
<1>2. p = [t EXCEPT !.m = NONE, !.free = @ + 1,
                    !.lost = @ + Cardinality(t.m.pd0) + Cardinality(t.m.pt) + Cardinality(t.m.pages)]
  BY DEF put_mm
<1> HIDE DEF t, p
<1> DEFINE a == Cardinality(t.m.pd0)
           b == Cardinality(t.m.pt)
           c == Cardinality(t.m.pages)
<1>3. a \in Nat /\ b \in Nat /\ c \in Nat /\ t.free \in Int /\ t.lost \in Nat
  BY ONLY <1>1, SizeType DEF WorkType
<1> DEFINE l == t.lost + a + b + c
           f == t.free + 1
<1>4. p = [t EXCEPT !.m = NONE, !.free = f, !.lost = l]
  BY ONLY <1>1, <1>2 DEF WorkType
<1>5. l \in Nat /\ f \in Int
  BY ONLY <1>3
<1>6. f + l = Total(s)
  <2>1. Total(t) = t.free + t.lost + (1 + a + b + c)
    BY DEF Total, Size
  <2> HIDE DEF a, b, c
  <2>2. QED
    BY ONLY <1>1, <1>3, <2>1
<1>7. ~Spread(s.m) => l = s.lost
  <2> SUFFICES ASSUME ~Spread(s.m) PROVE l = s.lost
    OBVIOUS
  <2>1. s.m \in Mm /\ VmasOK(s.m.mmap_list)
    BY DEF Sound
  <2>2. s.m # NONE
    BY <2>1, VmmAssumption
  <2>3. OneTable(Covered(s.m.mmap_list))
    <3> SUFFICES ASSUME NEW x \in Covered(s.m.mmap_list), NEW y \in Covered(s.m.mmap_list), PDX1(x) = PDX1(y)
                 PROVE  PDX0(x) = PDX0(y)
      BY DEF OneTable
    <3>1. \E i, j \in DOMAIN s.m.mmap_list : x \in Pages(s.m.mmap_list[i]) /\ y \in Pages(s.m.mmap_list[j])
      BY <2>1, CoveredFacts
    <3>2. QED
      BY ONLY <2>2, <3>1, PDX1(x) = PDX1(y), ~Spread(s.m) DEF Spread
  <2>4. t.lost = s.lost /\ a = 0 /\ b = 0 /\ c = 0
    BY <1>1, <2>3, FS_EmptySet
  <2> HIDE DEF a, b, c
  <2>5. QED
    BY ONLY <1>3, <2>4
<1> HIDE DEF f, l
<1>8. p \in [m : {NONE}, free : Int, lost : Nat, fate : Fates, ret : Results]
      /\ p.fate = t.fate /\ p.ret = t.ret /\ p.free = f /\ p.lost = l
  BY ONLY <1>1, <1>4, <1>5 DEF WorkType
<1>9. QED
  BY ONLY <1>1, <1>6, <1>7, <1>8 DEF Gone, p
-----------------------------------------------------------------------------
(* exec.                                                                   *)

NoMm == [m : {NONE}, free : Int, lost : Nat, fate : Fates, ret : Results]

\* Two segments of the program, or one and the stack, overlap.
Asked(segs) ==
    LET W == Append([i \in DOMAIN segs |-> segs[i].vma], Stack)
    IN \E i, j \in DOMAIN W : i < j /\ Overlap(W[i], W[j])

LEMMA AskedBySegments ==
    ASSUME NEW segs \in Seq(Segment)
    PROVE  /\ (\E i, j \in 1..Len(segs) : i < j /\ Overlap(segs[i].vma, segs[j].vma)) => Asked(segs)
           /\ (\E i \in 1..Len(segs) : Overlap(segs[i].vma, Stack)) => Asked(segs)
<1> DEFINE N == Len(segs)
           V == [i \in 1..N |-> segs[i].vma]
           W == Append(V, Stack)
<1>1. N \in Nat /\ DOMAIN segs = 1..N
  OBVIOUS
<1> HIDE DEF N
<1>2. \A i \in 1..N : V[i] = segs[i].vma
  OBVIOUS
<1>3. V \in Seq({segs[i].vma : i \in 1..N} \cup {Stack}) /\ Len(V) = N
  BY <1>1
<1> DEFINE T == {segs[i].vma : i \in 1..N} \cup {Stack}
<1>4. V \in Seq(T) /\ Stack \in T
  BY <1>3
<1> HIDE DEF V, T
<1>5. Len(W) = N + 1 /\ DOMAIN W = 1..(N + 1) /\ W[N + 1] = Stack /\ \A i \in 1..N : W[i] = V[i]
  BY ONLY <1>1, <1>3, <1>4
<1>6. Asked(segs) <=> \E i, j \in DOMAIN W : i < j /\ Overlap(W[i], W[j])
  BY <1>1 DEF Asked, V
<1> HIDE DEF W
<1>7. (\E i, j \in 1..N : i < j /\ Overlap(segs[i].vma, segs[j].vma)) => Asked(segs)
  <2> SUFFICES ASSUME NEW i \in 1..N, NEW j \in 1..N, i < j, Overlap(segs[i].vma, segs[j].vma) PROVE Asked(segs)
    OBVIOUS
  <2>1. i \in DOMAIN W /\ j \in DOMAIN W /\ W[i] = segs[i].vma /\ W[j] = segs[j].vma
    BY ONLY <1>1, <1>2, <1>5, i \in 1..N, j \in 1..N
  <2>2. Overlap(W[i], W[j])
    BY <2>1
  <2>3. QED
    BY ONLY <1>6, <2>1, <2>2, i < j
<1>8. (\E i \in 1..N : Overlap(segs[i].vma, Stack)) => Asked(segs)
  <2> SUFFICES ASSUME NEW i \in 1..N, Overlap(segs[i].vma, Stack) PROVE Asked(segs)
    OBVIOUS
  <2> DEFINE j == N + 1
  <2>1. i \in DOMAIN W /\ j \in DOMAIN W /\ W[i] = segs[i].vma /\ W[j] = Stack /\ i < j
    BY ONLY <1>1, <1>2, <1>5, i \in 1..N
  <2> HIDE DEF j
  <2>2. Overlap(W[i], W[j])
    BY <2>1
  <2>3. QED
    BY ONLY <1>6, <2>1, <2>2
<1>9. QED
  BY <1>7, <1>8 DEF N

LEMMA StackFacts ==
    /\ Stack \in Vma /\ Stack.vm_start = UserTop - StackPages /\ Stack.vm_end = UserTop
    /\ [k \in 1..StackReady |-> UserTop - k] \in Seq(Nat)
    /\ Len([k \in 1..StackReady |-> UserTop - k]) = StackReady
    /\ \A i \in 1..StackReady : UserTop - i \in Pages(Stack)
<1>1. UserTop \in Nat /\ StackPages \in Nat /\ StackReady \in Nat /\ StackReady <= StackPages /\ StackPages <= UserTop
  BY Numbers
<1>2. Stack.vm_start = UserTop - StackPages /\ Stack.vm_end = UserTop /\ Stack.vm_flags = {"R", "W", "STACK"}
  BY DEF Stack
<1>3. Stack \in Vma
  BY <1>1 DEF Stack, Vma
<1>4. \A i \in 1..StackReady : UserTop - i \in Pages(Stack) /\ UserTop - i \in Nat
  BY <1>1, <1>2 DEF Pages
<1>5. [k \in 1..StackReady |-> UserTop - k] \in Seq(Nat) /\ Len([k \in 1..StackReady |-> UserTop - k]) = StackReady
  BY <1>1, <1>4
<1>6. QED
  BY <1>2, <1>3, <1>4, <1>5

LEMMA NewMm ==
    /\ Sound(mm_create) /\ Size(mm_create) = 1 /\ mm_create \in Mm
    /\ mm_create.mmap_list = <<>> /\ mm_create.pages = {}
<1> DEFINE m == mm_create
<1>1. /\ m.mmap_list = <<>> /\ m.mmap_cache = NONE /\ m.pd0 = {} /\ m.pt = {} /\ m.pages = {} /\ m \in Mm
  BY DEF mm_create, Mm
<1> HIDE DEF m
<1>2. DOMAIN <<>> = {} /\ <<>> \in Seq(Vma)
  OBVIOUS
<1>3. VmasOK(m.mmap_list)
  BY ONLY <1>1, <1>2 DEF VmasOK
<1>4. IsFiniteSet({}) /\ Cardinality({}) = 0
  BY FS_EmptySet
<1>5. Tables(Covered(m.mmap_list), m)
  BY ONLY <1>1, <1>4 DEF Tables, Finite
<1>6. Size(m) = 1
  BY ONLY <1>1, <1>4 DEF Size
<1>7. QED
  BY ONLY <1>1, <1>3, <1>5, <1>6 DEF Sound, m

\* setup_pgdir
Fresh(g) == [alloc_page(g) EXCEPT !.m = mm_create]

LEMMA FreshGood ==
    ASSUME NEW g \in NoMm, g.fate = "ok", NEW a, a = Fresh(g)
    PROVE  /\ a \in WorkType /\ a.m = mm_create /\ a.lost = g.lost /\ a.ret = g.ret /\ a.fate \in {"ok", "swap_out"}
           /\ a.fate = "ok" => Total(a) = g.free + g.lost
<1> DEFINE p == alloc_page(g)
<1>1. p \in NoMm /\ p.lost = g.lost /\ p.ret = g.ret /\ p.fate \in {"ok", "swap_out"}
      /\ (p.fate = "ok" => p.free = g.free - 1)
  BY DEF alloc_page, NoMm, Fates
<1>2. a = [p EXCEPT !.m = mm_create]
  BY DEF Fresh
<1> HIDE DEF p
<1> DEFINE m == mm_create
<1>3. m \in Mm /\ Size(m) = 1
  BY NewMm
<1> HIDE DEF m
<1>4. a \in WorkType /\ a.m = m /\ a.lost = p.lost /\ a.ret = p.ret /\ a.fate = p.fate /\ a.free = p.free
  <2>1. a = [p EXCEPT !.m = m]
    BY <1>2 DEF m
  <2>2. QED
    BY ONLY <1>1, <1>3, <2>1 DEF WorkType, NoMm
<1>5. g.free \in Int /\ g.lost \in Nat
  BY DEF NoMm
<1>6. a.fate = "ok" => Total(a) = g.free + g.lost
  BY ONLY <1>1, <1>3, <1>4, <1>5 DEF Total
<1>7. QED
  BY ONLY <1>1, <1>4, <1>6 DEF m

\* What load_icode leaves behind.
Outcome(g, segs, t) ==
    /\ t.free \in Int /\ t.lost \in Nat /\ t.fate \in Fates
    /\ t.fate = "ok" /\ t.ret = "OK" => t \in WorkType /\ Sound(t.m) /\ Total(t) = g.free + g.lost /\ t.lost = g.lost
    /\ t.fate = "ok" /\ t.ret # "OK" => t.m = NONE /\ t.free + t.lost = g.free + g.lost
    /\ t.lost = g.lost \/ (t.ret # "OK" /\ Spread(before_cleanup(g, segs)))
    /\ t.fate = "overlap" => Asked(segs)

LEMMA LoadIcode ==
    ASSUME NEW g \in NoMm, g.fate = "ok", g.ret = "OK", NEW segs \in Seq(Segment)
    PROVE  Outcome(g, segs, load_icode(g, segs))
<1> DEFINE a == Fresh(g)
           l == load_segments(a, segs)
           b == IF a.fate # "ok" THEN a ELSE l
           c == IF b.fate # "ok" \/ b.ret # "OK" THEN b ELSE mm_map(b, Stack)
           las == [k \in 1..StackReady |-> UserTop - k]
           wanted == Pages(Stack)
           t == load_icode(g, segs)
           C == g.free + g.lost
<1>1. t = IF c.fate # "ok" THEN c ELSE IF c.ret # "OK" THEN put_mm(c) ELSE alloc_all(c, las, wanted)
  BY DEF load_icode, Fresh
<1>2. before_cleanup(g, segs) = l.m
  BY DEF before_cleanup, Fresh
<1>3. /\ a \in WorkType /\ a.m = mm_create /\ a.lost = g.lost /\ a.ret = "OK" /\ a.fate \in {"ok", "swap_out"}
      /\ a.fate = "ok" => Total(a) = C
  BY FreshGood
<1> HIDE DEF a, t, las, wanted
<1>4. CASE a.fate # "ok"
  <2>1. t = a
    BY <1>1, <1>4
  <2>2. a.free \in Int /\ a.lost \in Nat /\ a.fate \in Fates /\ a.fate = "swap_out"
    BY ONLY <1>3, <1>4 DEF WorkType
  <2>3. QED
    BY ONLY <1>3, <2>1, <2>2 DEF Outcome, t
<1>5. CASE a.fate = "ok"
  <2>1. Loaded(segs, 0, a, a)
    <3>1. DOMAIN a.m.mmap_list = {}
      BY <1>3, NewMm
    <3>2. QED
      BY ONLY <1>3, <1>5, <3>1, NewMm DEF Loaded
  <2>2. Loaded(segs, Len(segs), a, l)
    BY <2>1, LoadSegments
  <2>3. b = l
    BY <1>5
  <2> HIDE DEF l
  <2>4. /\ l \in WorkType /\ l.lost = g.lost /\ l.fate \in {"ok", "overlap", "swap_out"}
        /\ l.fate = "ok" => /\ Sound(l.m) /\ Total(l) = C
                            /\ \A i \in DOMAIN l.m.mmap_list : \E j \in 1..Len(segs) : l.m.mmap_list[i] = segs[j].vma
        /\ l.fate = "overlap" => Asked(segs)
    BY ONLY <1>3, <1>5, <2>2, AskedBySegments, segs \in Seq(Segment) DEF Loaded
  <2>5. CASE l.fate # "ok"
    <3>1. t = l
      BY <1>1, <2>3, <2>5
    <3>2. l.free \in Int /\ l.lost \in Nat /\ l.fate \in Fates
      BY ONLY <2>4 DEF WorkType
    <3>3. QED
      BY ONLY <2>4, <2>5, <3>1, <3>2 DEF Outcome, t
  <2>6. CASE l.fate = "ok"
    <3> DEFINE r == IF l.ret # "OK" THEN l ELSE mm_map(l, Stack)
    <3>1. c = r
      BY <2>3, <2>6
    <3>2. /\ r \in WorkType /\ r.lost = g.lost /\ r.fate \in {"ok", "overlap"}
          /\ r.fate = "ok" => Sound(r.m) /\ Total(r) = C
          /\ r.fate = "ok" /\ r.ret = "OK" =>
                /\ Pages(Stack) \subseteq Covered(r.m.mmap_list)
                /\ \A la \in Pages(Stack) : la \notin r.m.pages
          /\ r.fate = "ok" /\ r.ret # "OK" => r.m.mmap_list = l.m.mmap_list
          /\ r.fate = "overlap" => Asked(segs)
      <4>1. CASE l.ret # "OK"
        <5>1. r = l
          BY <4>1
        <5> HIDE DEF r
        <5>2. QED
          BY ONLY <2>4, <2>6, <4>1, <5>1
      <4>2. CASE l.ret = "OK"
        <5>1. r = mm_map(l, Stack)
          BY <4>2
        <5> HIDE DEF r
        <5>2. Stack \in Vma
          BY StackFacts
        <5>3. Mapped(l, Stack, r)
          BY ONLY <2>4, <2>6, <4>2, <5>1, <5>2, MmMap
        <5>4. r.fate = "overlap" => Asked(segs)
          <6> SUFFICES ASSUME r.fate = "overlap" PROVE Asked(segs)
            OBVIOUS
          <6>1. PICK i \in DOMAIN l.m.mmap_list : Overlap(l.m.mmap_list[i], Stack)
            BY ONLY <5>3, r.fate = "overlap" DEF Mapped
          <6>2. PICK j \in 1..Len(segs) : l.m.mmap_list[i] = segs[j].vma
            BY <2>4, <2>6
          <6>3. Overlap(segs[j].vma, Stack)
            BY <6>1, <6>2
          <6>4. QED
            BY ONLY <6>3, j \in 1..Len(segs), segs \in Seq(Segment), AskedBySegments
        <5>5. QED
          BY ONLY <2>4, <2>6, <5>3, <5>4 DEF Mapped
      <4>3. QED
        BY <4>1, <4>2
    <3> HIDE DEF c, r
    <3>3. t = IF r.fate # "ok" THEN r ELSE IF r.ret # "OK" THEN put_mm(r) ELSE alloc_all(r, las, wanted)
      BY ONLY <1>1, <3>1
    <3>4. CASE r.fate # "ok"
      <4>1. t = r /\ r.free \in Int /\ r.lost \in Nat /\ r.fate \in Fates
        BY ONLY <3>2, <3>3, <3>4 DEF WorkType
      <4>2. QED
        BY ONLY <3>2, <3>4, <4>1 DEF Outcome, t
    <3>5. CASE r.fate = "ok" /\ r.ret # "OK"
      <4>1. t = put_mm(r)
        BY ONLY <3>3, <3>5
      <4>2. Gone(r, t)
        BY ONLY <3>2, <3>5, <4>1, PutMm
      <4>3. Spread(r.m) => Spread(l.m)
        <5>1. l.m \in Mm /\ NONE \notin Mm
          BY <2>4, VmmAssumption DEF WorkType
        <5>2. QED
          BY ONLY <3>2, <3>5, <5>1 DEF Spread
      <4>4. /\ t.free \in Int /\ t.lost \in Nat /\ t.fate = "ok" /\ t.ret = r.ret /\ t.m = NONE
            /\ t.free + t.lost = C /\ (~Spread(r.m) => t.lost = g.lost)
        BY ONLY <3>2, <3>5, <4>2 DEF Gone
      <4>5. QED
        BY ONLY <1>2, <3>5, <4>3, <4>4 DEF Outcome, Fates, t
    <3>6. CASE r.fate = "ok" /\ r.ret = "OK"
      <4>1. t = alloc_all(r, las, wanted)
        BY ONLY <3>3, <3>6
      <4> DEFINE cov == Covered(r.m.mmap_list)
      <4>2. cov \in SUBSET Nat /\ Tables(cov, r.m) /\ wanted \subseteq cov /\ (\A la \in wanted : la \notin r.m.pages)
        BY ONLY <3>2, <3>6, CoveredFacts DEF Sound, wanted
      <4>3. /\ las \in Seq(Nat)
            /\ \A i, j \in 1..Len(las) : las[i] = las[j] => i = j
        <5>1. las \in Seq(Nat) /\ Len(las) = StackReady
          BY StackFacts DEF las
        <5>2. UserTop \in Nat /\ StackReady \in Nat
          BY Numbers
        <5>3. \A i \in 1..StackReady : las[i] = UserTop - i
          BY DEF las
        <5>4. \A i, j \in 1..StackReady : las[i] = las[j] => i = j
          BY ONLY <5>2, <5>3
        <5>5. QED
          BY ONLY <5>1, <5>4
      <4> HIDE DEF cov
      <4>4. Grown(cov, r, t)
        <5>1. \A i \in 1..Len(las) : las[i] \in wanted => las[i] \in cov /\ las[i] \notin r.m.pages
          BY ONLY <4>2
        <5>2. Grown(cov, r, alloc_all(r, las, wanted))
          BY ONLY <3>2, <4>2, <4>3, <5>1, AllocAll
        <5>3. QED
          BY <4>1, <5>2
      <4>5. t.fate = "ok" => Sound(t.m)
        BY ONLY <3>2, <3>6, <4>4, GrownSound DEF cov
      <4>6. /\ t \in WorkType /\ t.lost = g.lost /\ t.ret = "OK" /\ t.fate \in {"ok", "swap_out"}
            /\ t.fate = "ok" => Total(t) = C
        BY ONLY <3>2, <3>6, <4>4 DEF Grown, Same
      <4>7. t.free \in Int /\ t.lost \in Nat /\ t.fate \in Fates
        BY ONLY <4>6 DEF WorkType
      <4>8. QED
        BY ONLY <4>5, <4>6, <4>7 DEF Outcome, t
    <3>7. QED
      BY ONLY <3>2, <3>4, <3>5, <3>6
  <2>7. QED
    BY <2>5, <2>6
<1>6. QED
  BY <1>4, <1>5
-----------------------------------------------------------------------------
(* fork.                                                                   *)

\* The last n vmas of list were copied from s on, or the frames ran out.
Copied(list, n, s, x) ==
    /\ x \in WorkType /\ x.lost = s.lost /\ x.fate \in {"ok", "swap_out"}
    /\ x.fate = "ok" =>
          /\ s.fate = "ok" /\ Sound(x.m) /\ Total(x) = Total(s)
          /\ \A i \in DOMAIN x.m.mmap_list :
                \E j \in (Len(list) - n + 1)..Len(list) : x.m.mmap_list[i] = list[j]

LEMMA CopyRound ==
    ASSUME NEW from, VmasOK(from.mmap_list), NEW n \in 1..Len(from.mmap_list),
           NEW s, NEW x, Copied(from.mmap_list, n - 1, s, x),
           NEW y, y = copy_vma(from, from.mmap_list[Len(from.mmap_list) - n + 1], x)
    PROVE  Copied(from.mmap_list, n, s, y)
<1> DEFINE list == from.mmap_list
           N == Len(list)
           c == N - n + 1
           v == list[c]
<1>0. N \in Nat /\ n \in 1..N /\ DOMAIN list = 1..N
  BY DEF VmasOK
<1> HIDE DEF N
<1>1. c \in 1..N /\ N - (n - 1) + 1 = c + 1 /\ c \in c..N
  BY ONLY <1>0
<1>2. \A j \in (c + 1)..N : j \in c..N /\ j \in 1..N /\ c < j
  BY ONLY <1>0, <1>1
<1>3. Copied(list, n - 1, s, x) /\ VmasOK(list) /\ y = copy_vma(from, v, x)
  BY DEF N
<1>4. ASSUME NEW z PROVE Copied(list, n, s, z) <=>
        /\ z \in WorkType /\ z.lost = s.lost /\ z.fate \in {"ok", "swap_out"}
        /\ z.fate = "ok" => /\ s.fate = "ok" /\ Sound(z.m) /\ Total(z) = Total(s)
                            /\ \A i \in DOMAIN z.m.mmap_list : \E j \in c..N : z.m.mmap_list[i] = list[j]
  BY DEF Copied, N
<1>5. /\ x \in WorkType /\ x.lost = s.lost /\ x.fate \in {"ok", "swap_out"}
      /\ x.fate = "ok" => /\ s.fate = "ok" /\ Sound(x.m) /\ Total(x) = Total(s)
                          /\ \A i \in DOMAIN x.m.mmap_list : \E j \in (c + 1)..N : x.m.mmap_list[i] = list[j]
  BY ONLY <1>1, <1>3 DEF Copied, N
<1> HIDE DEF c
<1>6. CASE x.fate # "ok"
  <2>1. y = x
    BY <1>3, <1>6 DEF copy_vma
  <2>2. QED
    BY ONLY <1>4, <1>5, <1>6, <2>1 DEF list
<1>7. CASE x.fate = "ok"
  <2> DEFINE t == insert_vma_struct(x, v)
             las == Upwards(v)
             cov == Covered(t.m.mmap_list)
  <2>1. y = alloc_all(t, las, from.pages)
    BY <1>3, <1>7 DEF copy_vma
  <2>2. v \in Vma /\ USER_ACCESS(v.vm_start, v.vm_end) /\ v.vm_start < v.vm_end
        /\ v.vm_start \in Nat /\ v.vm_end \in Nat
    BY ONLY <1>0, <1>1, <1>3, VmaFacts DEF VmasOK
  <2>3. \A j \in (c + 1)..N : v.vm_end <= list[j].vm_start /\ list[j].vm_start \in Nat /\ list[j].vm_end \in Nat
    BY ONLY <1>0, <1>1, <1>2, <1>3, VmaFacts DEF VmasOK
  <2>4. v = list[c]
    OBVIOUS
  <2> HIDE DEF v, list
  <2>5. /\ t \in WorkType /\ t.lost = x.lost /\ t.ret = x.ret /\ t.fate \in {"ok", "overlap"}
        /\ t.fate = "ok" => /\ Sound(t.m) /\ Total(t) = Total(x)
                            /\ Pages(v) \subseteq Covered(t.m.mmap_list)
                            /\ \A la \in Pages(v) : la \notin t.m.pages
                            /\ \A i \in DOMAIN t.m.mmap_list : t.m.mmap_list[i] = v \/ In(x.m.mmap_list, t.m.mmap_list[i])
        /\ t.fate = "overlap" => \E i \in DOMAIN x.m.mmap_list : Overlap(x.m.mmap_list[i], v)
    BY ONLY <1>5, <1>7, <2>2, InsertGood
  <2> HIDE DEF t
  <2>6. t.fate = "ok"
    <3> SUFFICES ASSUME t.fate = "overlap" PROVE FALSE
      BY <2>5
    <3>1. PICK i \in DOMAIN x.m.mmap_list : Overlap(x.m.mmap_list[i], v)
      BY ONLY <2>5, t.fate = "overlap"
    <3>2. PICK j \in (c + 1)..N : x.m.mmap_list[i] = list[j]
      BY <1>5, <1>7
    <3>3. PICK la : la \in Pages(list[j]) /\ la \in Pages(v)
      BY ONLY <3>1, <3>2 DEF Overlap
    <3>4. QED
      BY ONLY <2>2, <2>3, <3>3, j \in (c + 1)..N DEF Pages
  <2>7. /\ las \in Seq(Nat)
        /\ \A i, j \in 1..Len(las) : las[i] = las[j] => i = j
        /\ \A i \in 1..Len(las) : las[i] \in Pages(v)
    BY ONLY <2>2, UpwardsFacts
  <2>8. cov \in SUBSET Nat /\ Tables(cov, t.m) /\ Sound(t.m)
    BY ONLY <2>5, <2>6, CoveredFacts DEF Sound
  <2>9. Pages(v) \subseteq cov
    BY ONLY <2>5, <2>6
  <2> HIDE DEF las, cov
  <2>10. \A i \in 1..Len(las) : las[i] \in from.pages => las[i] \in cov /\ las[i] \notin t.m.pages
    BY ONLY <2>5, <2>6, <2>7, <2>9
  <2>11. Grown(cov, t, y)
    <3> DEFINE wanted == from.pages
    <3>1. y = alloc_all(t, las, wanted)
      BY ONLY <2>1
    <3>2. \A i \in 1..Len(las) : las[i] \in wanted => las[i] \in cov /\ las[i] \notin t.m.pages
      BY ONLY <2>10
    <3> HIDE DEF wanted
    <3>3. Grown(cov, t, alloc_all(t, las, wanted))
      BY ONLY <2>5, <2>7, <2>8, <3>2, AllocAll
    <3>4. QED
      BY ONLY <3>1, <3>3
  <2>12. (y.fate = "ok" => Sound(y.m)) /\ y.m.mmap_list = t.m.mmap_list
    BY ONLY <2>8, <2>11, GrownSound DEF cov
  <2>13. /\ y \in WorkType /\ y.lost = s.lost /\ y.fate \in {"ok", "swap_out"}
         /\ y.fate = "ok" => Total(y) = Total(s) /\ s.fate = "ok"
    BY ONLY <1>5, <1>7, <2>5, <2>6, <2>11 DEF Grown, Same
  <2>14. \A i \in DOMAIN y.m.mmap_list : \E j \in c..N : y.m.mmap_list[i] = list[j]
    BY ONLY <1>1, <1>2, <1>5, <1>7, <2>4, <2>5, <2>6, <2>12 DEF In
  <2>15. QED
    BY ONLY <1>4, <2>12, <2>13, <2>14 DEF list
<1>8. QED
  BY <1>6, <1>7

LEMMA DupMmap ==
    ASSUME NEW from, VmasOK(from.mmap_list), NEW s, Copied(from.mmap_list, 0, s, s)
    PROVE  Copied(from.mmap_list, Len(from.mmap_list), s, dup_mmap(s, from))
<1> DEFINE N == Len(from.mmap_list)
<1>0. N \in Nat
  BY DEF VmasOK
<1>1. PICK g : Rounds(g, "dup", from, s, N) /\ dup_mmap(s, from) = g[N]
  BY ONLY <1>0, DupRuns
<1> DEFINE S == {k \in 0..N : Copied(from.mmap_list, k, s, g[k])}
<1>2. 0 \in S
  <2>1. g[0] = s /\ 0 \in 0..N
    BY <1>0, <1>1 DEF Rounds
  <2>2. QED
    BY <2>1
<1>3. ASSUME NEW k \in 0..(N - 1), k \in S PROVE k + 1 \in S
  <2> DEFINE n == k + 1
  <2>1. n \in 1..N /\ n \in 0..N /\ n - 1 = k /\ n # 0
    BY <1>0
  <2> HIDE DEF n
  <2>2. g[n] = copy_vma(from, from.mmap_list[Len(from.mmap_list) - n + 1], g[k])
    BY ONLY <1>1, <2>1 DEF Rounds, Round
  <2>3. Copied(from.mmap_list, n - 1, s, g[k])
    BY <1>3, <2>1
  <2>4. Copied(from.mmap_list, n, s, g[n])
    BY <2>1, <2>2, <2>3, CopyRound
  <2>5. QED
    BY ONLY <2>1, <2>4 DEF n
<1> HIDE DEF S
<1>4. N \in S
  <2>1. \A k \in 0..N : k \in S
    BY ONLY <1>0, <1>2, <1>3, IntervalInduction
  <2>2. QED
    BY <1>0, <2>1
<1>5. QED
  BY <1>1, <1>4 DEF S
-----------------------------------------------------------------------------
(* user_mem_check.                                                         *)

\* The result of the round at start, given that of the round after it.
Verdict(m, stop, write, start, next) ==
    IF start >= stop THEN [ok |-> TRUE, last |-> NONE]
    ELSE IF find_vma(m, start) = NONE THEN [ok |-> FALSE, last |-> NONE]
    ELSE IF (IF write THEN "W" ELSE "R") \notin find_vma(m, start).vm_flags
            \/ (write /\ stack_bottom(find_vma(m, start), start))
    THEN [ok |-> FALSE, last |-> find_vma(m, start)]
    ELSE [ok |-> next.ok, last |-> IF next.last = NONE THEN find_vma(m, start) ELSE next.last]

\* g[start] is the result of the round at start, for start from a on.
Walk(g, m, stop, write, a) ==
    \A start \in a..UserTop : g[start] = Verdict(m, stop, write, start, g[find_vma(m, start).vm_end])

\* A round goes up, but not beyond the top.
LEMMA RoundGoesUp ==
    ASSUME NEW m, Sound(m), NEW start \in Nat, find_vma(m, start) # NONE
    PROVE  /\ find_vma(m, start).vm_end \in Nat /\ start < find_vma(m, start).vm_end
           /\ find_vma(m, start).vm_end <= UserTop
           /\ In(m.mmap_list, find_vma(m, start)) /\ find_vma(m, start) \in Vma
           /\ find_vma(m, start).vm_start <= start
<1> DEFINE v == find_vma(m, start)
<1>1. In(m.mmap_list, v) /\ Holds(v, start)
  BY FindVma DEF Sound
<1> HIDE DEF v
<1>2. VmasOK(m.mmap_list)
  BY DEF Sound
<1>3. v \in Vma /\ v.vm_start \in Nat /\ v.vm_end \in Nat /\ v.vm_end <= UserTop
  BY ONLY <1>1, <1>2, VmaFacts DEF In
<1>4. v.vm_start <= start /\ start < v.vm_end
  BY <1>1 DEF Holds
<1>5. QED
  BY <1>1, <1>3, <1>4 DEF v

LEMMA VerdictLocal ==
    ASSUME NEW m, NEW stop, NEW write, NEW start, NEW a, NEW b, find_vma(m, start) # NONE => a = b
    PROVE  Verdict(m, stop, write, start, a) = Verdict(m, stop, write, start, b)
<1>1. CASE find_vma(m, start) = NONE
  BY <1>1 DEF Verdict
<1>2. CASE find_vma(m, start) # NONE
  BY <1>2
<1>3. QED
  BY <1>1, <1>2

\* The rounds exist: each one rests on rounds further up.
LEMMA WalkExists ==
    ASSUME NEW m, Sound(m), NEW stop, NEW write
    PROVE  \E g : Walk(g, m, stop, write, 0) /\ History(g, UserTop)
<1> DEFINE U == UserTop
           S == {d \in 0..U : \E g : Walk(g, m, stop, write, U - d) /\ History(g, U)}
<1>0. U \in Nat
  BY Numbers
<1> HIDE DEF U
<1>1. 0 \in S
  <2> DEFINE x == Verdict(m, stop, write, U, 0)
             g == [d \in 0..U |-> x]
  <2>0. find_vma(m, U) = NONE
    BY <1>0, RoundGoesUp DEF U
  <2>1. g[U] = Verdict(m, stop, write, U, g[find_vma(m, U).vm_end])
    <3>1. g[U] = x
      BY <1>0
    <3> HIDE DEF g
    <3>2. QED
      BY ONLY <2>0, <3>1, VerdictLocal
  <2>2. History(g, U)
    BY DEF History
  <2> HIDE DEF g
  <2>3. U - 0 = U /\ \A start \in U..U : start = U
    BY <1>0
  <2>4. Walk(g, m, stop, write, U - 0)
    BY ONLY <2>1, <2>3 DEF Walk, U
  <2>5. QED
    BY <1>0, <2>2, <2>4
<1>2. ASSUME NEW d \in 0..(U - 1), d \in S PROVE d + 1 \in S
  <2> DEFINE a == U - d
             b == U - (d + 1)
  <2>0. a \in 0..U /\ b \in 0..U /\ b < a /\ a = b + 1 /\ d + 1 \in 0..U
    BY <1>0
  <2>1. PICK g : Walk(g, m, stop, write, a)
    BY <1>2
  <2>2. b = U - (d + 1)
    OBVIOUS
  <2> HIDE DEF a, b
  <2> DEFINE x == Verdict(m, stop, write, b, g[find_vma(m, b).vm_end])
             h == [k \in 0..U |-> IF k = b THEN x ELSE g[k]]
  <2>3. h[b] = x /\ \A k \in a..U : h[k] = g[k]
    BY ONLY <1>0, <2>0
  <2>4. History(h, U)
    BY DEF History
  <2> HIDE DEF h
  <2>5. \A start \in b..U : find_vma(m, start) # NONE => find_vma(m, start).vm_end \in a..U
    <3> TAKE start \in b..U
    <3> HAVE find_vma(m, start) # NONE
    <3> DEFINE e == find_vma(m, start).vm_end
    <3>1. start \in Nat
      BY <1>0, <2>0
    <3>2. e \in Nat /\ start < e /\ e <= U
      BY <3>1, RoundGoesUp DEF U
    <3> HIDE DEF e
    <3>3. e \in a..U
      BY ONLY <1>0, <2>0, <3>1, <3>2, start \in b..U
    <3>4. QED
      BY <3>3 DEF e
  <2>6. \A start \in b..U : find_vma(m, start) # NONE => h[find_vma(m, start).vm_end] = g[find_vma(m, start).vm_end]
    BY ONLY <2>3, <2>5
  <2>7. ASSUME NEW start \in b..U
        PROVE  h[start] = Verdict(m, stop, write, start, h[find_vma(m, start).vm_end])
    <3>1. Verdict(m, stop, write, start, h[find_vma(m, start).vm_end])
            = Verdict(m, stop, write, start, g[find_vma(m, start).vm_end])
      BY ONLY <2>6, start \in b..U, VerdictLocal
    <3>2. CASE start = b
      BY ONLY <2>3, <3>1, <3>2
    <3>3. CASE start # b
      <4>1. start \in a..U
        BY ONLY <1>0, <2>0, <3>3, start \in b..U
      <4>2. g[start] = Verdict(m, stop, write, start, g[find_vma(m, start).vm_end])
        BY ONLY <2>1, <4>1 DEF Walk, U
      <4>3. QED
        BY ONLY <2>3, <3>1, <4>1, <4>2
    <3>4. QED
      BY <3>2, <3>3
  <2>8. Walk(h, m, stop, write, b)
    BY ONLY <2>7 DEF Walk, U
  <2>9. QED
    BY <2>0, <2>2, <2>4, <2>8
<1> HIDE DEF S
<1>3. U \in S
  <2>1. \A d \in 0..U : d \in S
    BY ONLY <1>0, <1>1, <1>2, IntervalInduction
  <2>2. QED
    BY <1>0, <2>1
<1>4. U - U = 0
  BY <1>0
<1>5. QED
  BY <1>3, <1>4 DEF S, U

LEMMA CheckRuns ==
    ASSUME NEW m, Sound(m), NEW addr \in Nat, NEW len \in Nat, NEW write
    PROVE  \E g : Walk(g, m, addr + len, write, 0) /\ check_rounds(m, addr, len, write) = g[addr]
<1> DEFINE P(h) == h = [start \in 0..UserTop |->
                LET vma == find_vma(m, start)
                    next == h[vma.vm_end]
                IN IF start >= addr + len THEN [ok |-> TRUE, last |-> NONE]
                   ELSE IF vma = NONE THEN [ok |-> FALSE, last |-> NONE]
                   ELSE IF (IF write THEN "W" ELSE "R") \notin vma.vm_flags
                           \/ (write /\ stack_bottom(vma, start))
                   THEN [ok |-> FALSE, last |-> vma]
                   ELSE [ok |-> next.ok, last |-> IF next.last = NONE THEN vma ELSE next.last]]
           at == CHOOSE h : P(h)
           Q(h) == h = [start \in 0..UserTop |-> Verdict(m, addr + len, write, start, h[find_vma(m, start).vm_end])]
<1>1. check_rounds(m, addr, len, write) = at[addr]
  BY DEF check_rounds
<1>2. ASSUME NEW h PROVE P(h) <=> Q(h)
  BY DEF Verdict
<1> HIDE DEF P
<1>3. PICK g : Walk(g, m, addr + len, write, 0) /\ History(g, UserTop)
  BY WalkExists
<1>4. Q(g)
  <2> DEFINE h == [start \in 0..UserTop |-> Verdict(m, addr + len, write, start, g[find_vma(m, start).vm_end])]
  <2>1. \A start \in 0..UserTop : g[start] = h[start]
    BY ONLY <1>3 DEF Walk
  <2>2. h = [start \in 0..UserTop |-> h[start]]
    OBVIOUS
  <2> HIDE DEF h
  <2>3. g = h
    BY ONLY <1>3, <2>1, <2>2 DEF History
  <2>4. QED
    BY ONLY <2>3 DEF h
<1>5. P(at)
  BY <1>2, <1>4
<1> HIDE DEF at
<1>6. Q(at)
  BY <1>2, <1>5
<1>7. Walk(at, m, addr + len, write, 0)
  BY <1>6 DEF Walk
<1>8. QED
  BY <1>1, <1>7

\* The page la may be accessed.
Allowed(list, write, la) ==
    \E v \in Range(list) :
        /\ la \in Pages(v)
        /\ (IF write THEN "W" ELSE "R") \in v.vm_flags
        /\ write /\ "STACK" \in v.vm_flags => la # v.vm_start

\* A page is in one vma only.
LEMMA OneVma ==
    ASSUME NEW list, VmasOK(list), NEW v, In(list, v), NEW w, In(list, w), NEW la \in Nat, Holds(v, la), Holds(w, la)
    PROVE  v = w
<1>1. PICK i \in DOMAIN list : list[i] = v
  BY DEF In
<1>2. PICK j \in DOMAIN list : list[j] = w
  BY DEF In
<1>3. v.vm_start \in Nat /\ v.vm_end \in Nat /\ w.vm_start \in Nat /\ w.vm_end \in Nat
      /\ i \in Nat /\ j \in Nat
  <2>1. DOMAIN list = 1..Len(list) /\ Len(list) \in Nat
    BY VmaFacts
  <2>2. v.vm_start \in Nat /\ v.vm_end \in Nat
    BY <1>1, VmaFacts
  <2>3. w.vm_start \in Nat /\ w.vm_end \in Nat
    BY <1>2, VmaFacts
  <2>4. QED
    BY <2>1, <2>2, <2>3
<1>4. i < j => v.vm_end <= w.vm_start
  BY ONLY <1>1, <1>2, VmasOK(list) DEF VmasOK
<1>5. j < i => w.vm_end <= v.vm_start
  BY ONLY <1>1, <1>2, VmasOK(list) DEF VmasOK
<1>6. ~(i < j) /\ ~(j < i)
  BY ONLY <1>3, <1>4, <1>5, la \in Nat, Holds(v, la), Holds(w, la) DEF Holds
<1>7. i = j
  BY ONLY <1>3, <1>6
<1>8. QED
  BY <1>1, <1>2, <1>7

\* The round at a says whether the pages from a to stop may be accessed.
Told(r, list, stop, write, a) ==
    /\ r.last = NONE \/ In(list, r.last)
    /\ r.ok <=> \A la \in a..(stop - 1) : Allowed(list, write, la)

LEMMA VerdictRight ==
    ASSUME NEW m, Sound(m), NEW stop \in Nat, NEW write \in BOOLEAN, NEW start \in Nat, NEW next,
           find_vma(m, start) # NONE => Told(next, m.mmap_list, stop, write, find_vma(m, start).vm_end),
           NEW r, r = Verdict(m, stop, write, start, next)
    PROVE  Told(r, m.mmap_list, stop, write, start)
<1> DEFINE list == m.mmap_list
           v == find_vma(m, start)
           flag == IF write THEN "W" ELSE "R"
<1>0. VmasOK(list)
  BY DEF Sound
<1>1. CASE start >= stop
  <2>1. r = [ok |-> TRUE, last |-> NONE]
    BY <1>1 DEF Verdict
  <2>2. start..(stop - 1) = {}
    BY <1>1
  <2>3. QED
    BY <2>1, <2>2 DEF Told
<1>2. CASE start < stop /\ v = NONE
  <2>1. r = [ok |-> FALSE, last |-> NONE]
    BY <1>2 DEF Verdict
  <2>2. \A i \in DOMAIN list : ~Holds(list[i], start) /\ list[i] \in Vma
    BY <1>0, <1>2, FindVma, VmaFacts DEF Sound
  <2>3. ~Allowed(list, write, start)
    BY ONLY <2>2, PageHeld DEF Allowed, Range
  <2>4. start \in start..(stop - 1)
    BY <1>2
  <2>5. QED
    BY <2>1, <2>3, <2>4 DEF Told
<1>3. CASE start < stop /\ v # NONE
  <2>1. /\ v.vm_end \in Nat /\ start < v.vm_end /\ In(list, v) /\ v \in Vma /\ v.vm_start <= start
    BY <1>3, RoundGoesUp
  <2>2. Told(next, list, stop, write, v.vm_end)
    BY <1>3
  <2>3. r = IF flag \notin v.vm_flags \/ (write /\ stack_bottom(v, start))
            THEN [ok |-> FALSE, last |-> v]
            ELSE [ok |-> next.ok, last |-> IF next.last = NONE THEN v ELSE next.last]
    BY <1>3 DEF Verdict
  <2>4. Holds(v, start) /\ v.vm_start \in Nat
    BY <2>1 DEF Holds, Vma
  <2>5. stack_bottom(v, start) <=> "STACK" \in v.vm_flags /\ start = v.vm_start
    BY <2>1, <2>4 DEF stack_bottom
  <2>6. ASSUME NEW w \in Range(list), start \in Pages(w) PROVE w = v
    <3>1. In(list, w)
      BY DEF In, Range
    <3>2. w \in Vma
      BY <1>0, <3>1, VmaFacts DEF In
    <3>3. Holds(w, start)
      BY <2>6, <3>2, PageHeld
    <3>4. QED
      BY ONLY <1>0, <2>1, <2>4, <3>1, <3>3, OneVma, start \in Nat
  <2> HIDE DEF v, list, flag
  <2>7. CASE flag \notin v.vm_flags \/ (write /\ stack_bottom(v, start))
    <3>1. r = [ok |-> FALSE, last |-> v]
      BY <2>3, <2>7
    <3>2. ~Allowed(list, write, start)
      <4> SUFFICES ASSUME Allowed(list, write, start) PROVE FALSE
        OBVIOUS
      <4>1. PICK w \in Range(list) : start \in Pages(w) /\ flag \in w.vm_flags
                                     /\ (write /\ "STACK" \in w.vm_flags => start # w.vm_start)
        BY DEF Allowed, flag
      <4>2. w = v
        BY <2>6, <4>1
      <4>3. QED
        BY ONLY <2>5, <2>7, <4>1, <4>2
    <3>3. start \in start..(stop - 1)
      BY <1>3
    <3>4. r.last = v /\ ~r.ok
      BY <3>1
    <3>5. QED
      BY ONLY <2>1, <3>2, <3>3, <3>4 DEF Told, list
  <2>8. CASE ~(flag \notin v.vm_flags \/ (write /\ stack_bottom(v, start)))
    <3>1. r = [ok |-> next.ok, last |-> IF next.last = NONE THEN v ELSE next.last]
      BY <2>3, <2>8
    <3>2. r.ok = next.ok /\ r.last = IF next.last = NONE THEN v ELSE next.last
      BY ONLY <3>1
    <3>3. r.last = NONE \/ In(list, r.last)
      BY ONLY <2>1, <2>2, <3>2 DEF Told
    <3>4. v \in Range(list)
      BY <2>1 DEF In, Range
    <3>5. \A la \in start..(v.vm_end - 1) : Allowed(list, write, la)
      <4> TAKE la \in start..(v.vm_end - 1)
      <4>1. la \in Pages(v)
        BY <2>1, <2>4 DEF Pages
      <4>2. flag \in v.vm_flags
        BY <2>8
      <4>3. write /\ "STACK" \in v.vm_flags => la # v.vm_start
        <5>1. la # start => la # v.vm_start
          BY <2>1, <2>4
        <5>2. QED
          BY <2>5, <2>8, <5>1
      <4>4. QED
        BY <3>4, <4>1, <4>2, <4>3 DEF Allowed, flag
    <3>6. \A la \in start..(stop - 1) : la \in start..(v.vm_end - 1) \/ la \in (v.vm_end)..(stop - 1)
      BY <2>1
    <3>7. \A la \in (v.vm_end)..(stop - 1) : la \in start..(stop - 1)
      BY <2>1
    <3>8. (\A la \in start..(stop - 1) : Allowed(list, write, la))
             <=> (\A la \in (v.vm_end)..(stop - 1) : Allowed(list, write, la))
      BY ONLY <3>5, <3>6, <3>7
    <3>9. QED
      BY ONLY <2>2, <3>2, <3>3, <3>8 DEF Told, list
  <2>9. QED
    BY <2>7, <2>8
<1>4. QED
  BY <1>1, <1>2, <1>3

LEMMA CheckRight ==
    ASSUME NEW m, Sound(m), NEW addr \in 0..UserTop, NEW len \in Nat, NEW write \in BOOLEAN
    PROVE  Told(check_rounds(m, addr, len, write), m.mmap_list, addr + len, write, addr)
<1> DEFINE U == UserTop
           stop == addr + len
           list == m.mmap_list
<1>0. U \in Nat /\ stop \in Nat /\ addr \in Nat
  BY Numbers
<1>1. PICK g : Walk(g, m, stop, write, 0) /\ check_rounds(m, addr, len, write) = g[addr]
  BY <1>0, CheckRuns
<1> HIDE DEF U, stop
<1> DEFINE S == {d \in 0..U : \A a \in (U - d)..U : Told(g[a], list, stop, write, a)}
<1>2. ASSUME NEW a \in 0..U, \A b \in (a + 1)..U : Told(g[b], list, stop, write, b)
      PROVE  Told(g[a], list, stop, write, a)
  <2>1. a \in Nat
    BY <1>0
  <2> DEFINE e == find_vma(m, a).vm_end
             next == g[e]
             r == g[a]
  <2>2. r = Verdict(m, stop, write, a, next)
    BY ONLY <1>1, a \in 0..U DEF Walk, U
  <2>3. find_vma(m, a) # NONE => e \in (a + 1)..U
    <3>1. find_vma(m, a) # NONE => e \in Nat /\ a < e /\ e <= U
      BY <2>1, RoundGoesUp DEF U
    <3> HIDE DEF e
    <3>2. QED
      BY ONLY <1>0, <2>1, <3>1
  <2>4. find_vma(m, a) # NONE => Told(next, list, stop, write, e)
    BY ONLY <1>2, <2>3
  <2> HIDE DEF next, r
  <2>5. Told(r, list, stop, write, a)
    BY <1>0, <2>1, <2>2, <2>4, VerdictRight
  <2>6. QED
    BY <2>5 DEF r
<1>3. 0 \in S
  <2>1. U \in 0..U /\ U - 0 = U /\ (\A b \in (U + 1)..U : FALSE) /\ \A a \in U..U : a = U
    BY <1>0
  <2>2. Told(g[U], list, stop, write, U)
    BY ONLY <1>2, <2>1
  <2>3. QED
    BY <1>0, <2>1, <2>2
<1>4. ASSUME NEW d \in 0..(U - 1), d \in S PROVE d + 1 \in S
  <2> DEFINE b == U - (d + 1)
  <2>0. b \in 0..U /\ U - d = b + 1 /\ d + 1 \in 0..U
    BY <1>0
  <2>1. \A a \in (b + 1)..U : Told(g[a], list, stop, write, a)
    BY <1>4, <2>0
  <2>2. \A a \in b..U : a = b \/ a \in (b + 1)..U
    BY <1>0, <2>0
  <2>3. Told(g[b], list, stop, write, b)
    <3> HIDE DEF b
    <3>1. QED
      BY ONLY <1>2, <2>0, <2>1
  <2>4. \A a \in b..U : Told(g[a], list, stop, write, a)
    <3> HIDE DEF b
    <3>1. QED
      BY ONLY <2>1, <2>2, <2>3
  <2>5. QED
    BY <2>0, <2>4
<1> HIDE DEF S
<1>5. U \in S
  <2>1. \A d \in 0..U : d \in S
    BY ONLY <1>0, <1>3, <1>4, IntervalInduction
  <2>2. QED
    BY <1>0, <2>1
<1>6. \A a \in 0..U : Told(g[a], list, stop, write, a)
  <2>1. U - U = 0
    BY <1>0
  <2>2. QED
    BY <1>5, <2>1 DEF S
<1>7. QED
  BY <1>1, <1>6 DEF U, stop, list

\* user_mem_check accepts exactly the buffers whose pages may be accessed.
LEMMA CheckExact ==
    ASSUME NEW m, Sound(m), NEW addr \in 0..UserTop, NEW len \in 0..UserTop, NEW write \in BOOLEAN
    PROVE  user_mem_check(m, addr, len, write) <=>
             /\ len > 0 /\ addr >= UserBase /\ addr + len <= UserTop
             /\ \A la \in addr..(addr + len - 1) : Allowed(m.mmap_list, write, la)
<1>1. UserTop \in Nat /\ UserBase \in Nat /\ len \in Nat /\ addr \in Nat
  BY Numbers
<1>2. Told(check_rounds(m, addr, len, write), m.mmap_list, addr + len, write, addr)
  BY <1>1, CheckRight
<1>3. USER_ACCESS(addr, addr + len) <=> len > 0 /\ addr >= UserBase /\ addr + len <= UserTop
  BY <1>1 DEF USER_ACCESS
<1>4. user_mem_check(m, addr, len, write) <=>
        USER_ACCESS(addr, addr + len) /\ check_rounds(m, addr, len, write).ok
  BY DEF user_mem_check
<1>5. QED
  BY ONLY <1>2, <1>3, <1>4 DEF Told
-----------------------------------------------------------------------------
(* The frames of all address spaces.                                       *)

Tagged(p, tag, S) == {<<p, tag, x>> : x \in S}

LEMMA TaggedSize ==
    ASSUME NEW p, NEW tag, NEW S, IsFiniteSet(S)
    PROVE  IsFiniteSet(Tagged(p, tag, S)) /\ Cardinality(Tagged(p, tag, S)) = Cardinality(S)
<1> DEFINE T == Tagged(p, tag, S)
           f == [x \in S |-> <<p, tag, x>>]
<1>1. f \in [S -> T] /\ \A x \in S : f[x] = <<p, tag, x>>
  BY DEF Tagged
<1>2. \A x, y \in S : f[x] = f[y] => x = y
  BY <1>1
<1>3. \A t \in T : \E x \in S : f[x] = t
  BY <1>1 DEF Tagged
<1> HIDE DEF f
<1>4. QED
  <2> HIDE DEF T
  <2>1. QED
    BY <1>1, <1>2, <1>3, OneToOne DEF T

LEMMA Together ==
    ASSUME NEW S, IsFiniteSet(S), NEW T, IsFiniteSet(T), \A x \in S : x \notin T
    PROVE  IsFiniteSet(S \cup T) /\ Cardinality(S \cup T) = Cardinality(S) + Cardinality(T)
<1>1. S \cap T = {}
  OBVIOUS
<1>2. IsFiniteSet(S \cup T) /\ Cardinality(S \cup T) = Cardinality(S) + Cardinality(T) - Cardinality(S \cap T)
  BY FS_Union
<1>3. Cardinality(S \cap T) = 0 /\ Cardinality(S) \in Nat /\ Cardinality(T) \in Nat
  BY <1>1, FS_EmptySet, FS_CardinalityType
<1>4. QED
  BY <1>2, <1>3

LEMMA FramesSize ==
    ASSUME NEW p, NEW m, Finite(m)
    PROVE  IsFiniteSet(Frames(p, m)) /\ Cardinality(Frames(p, m)) = Size(m) /\ \A x \in Frames(p, m) : x[1] = p
<1> DEFINE A == {<<p, "pgdir", 0>>}
           B == Tagged(p, "pd0", m.pd0)
           C == Tagged(p, "pt", m.pt)
           D == Tagged(p, "page", m.pages)
<1>1. Frames(p, m) = ((A \cup B) \cup C) \cup D
  BY DEF Frames, Tagged
<1>2. IsFiniteSet(A) /\ Cardinality(A) = 1
  BY FS_Singleton
<1>3. IsFiniteSet(B) /\ Cardinality(B) = Cardinality(m.pd0)
  BY TaggedSize DEF Finite
<1>4. IsFiniteSet(C) /\ Cardinality(C) = Cardinality(m.pt)
  BY TaggedSize DEF Finite
<1>5. IsFiniteSet(D) /\ Cardinality(D) = Cardinality(m.pages)
  BY TaggedSize DEF Finite
<1>6. \A x \in A : x[1] = p /\ x[2] = "pgdir"
  OBVIOUS
<1>7. \A x \in B : x[1] = p /\ x[2] = "pd0"
  BY DEF Tagged
<1>8. \A x \in C : x[1] = p /\ x[2] = "pt"
  BY DEF Tagged
<1>9. \A x \in D : x[1] = p /\ x[2] = "page"
  BY DEF Tagged
<1> HIDE DEF A, B, C, D
<1> DEFINE E == A \cup B
           F == E \cup C
<1>10. \A x \in A : x \notin B
  BY ONLY <1>6, <1>7
<1>11. \A x \in E : x \notin C
  BY ONLY <1>6, <1>7, <1>8
<1>12. \A x \in F : x \notin D
  BY ONLY <1>6, <1>7, <1>8, <1>9
<1>13. IsFiniteSet(E) /\ Cardinality(E) = Cardinality(A) + Cardinality(B)
  BY ONLY <1>2, <1>3, <1>10, Together
<1> HIDE DEF E
<1>14. IsFiniteSet(F) /\ Cardinality(F) = Cardinality(E) + Cardinality(C)
  BY ONLY <1>4, <1>11, <1>13, Together
<1> HIDE DEF F
<1>15. IsFiniteSet(F \cup D) /\ Cardinality(F \cup D) = Cardinality(F) + Cardinality(D)
  BY ONLY <1>5, <1>12, <1>14, Together
<1>16. Frames(p, m) = F \cup D
  BY <1>1 DEF E, F
<1>17. Cardinality(Frames(p, m)) = Size(m)
  BY ONLY <1>2, <1>3, <1>4, <1>5, <1>13, <1>14, <1>15, <1>16 DEF Size
<1>18. \A x \in Frames(p, m) : x[1] = p
  BY ONLY <1>6, <1>7, <1>8, <1>9, <1>16 DEF F, E
<1>19. QED
  BY <1>15, <1>16, <1>17, <1>18

\* The frames of every process that has an address space, and of those other than p.
Held(f) == UNION {Frames(q, f[q]) : q \in {r \in Procs : f[r] # NONE}}
Rest(f, p) == UNION {Frames(q, f[q]) : q \in {r \in Procs : r # p /\ f[r] # NONE}}

SizeOf(m) == IF m = NONE THEN 0 ELSE Size(m)

LEMMA HeldSplit ==
    ASSUME NEW f, \A q \in Procs : f[q] # NONE => Finite(f[q]), NEW p \in Procs, IsFiniteSet(Rest(f, p))
    PROVE  IsFiniteSet(Held(f)) /\ Cardinality(Held(f)) = Cardinality(Rest(f, p)) + SizeOf(f[p])
<1>0. Cardinality(Rest(f, p)) \in Nat
  BY FS_CardinalityType
<1>1. CASE f[p] = NONE
  <2>1. Held(f) = Rest(f, p)
    BY <1>1 DEF Held, Rest
  <2>2. SizeOf(f[p]) = 0
    BY <1>1 DEF SizeOf
  <2>3. QED
    BY <1>0, <2>1, <2>2
<1>2. CASE f[p] # NONE
  <2> DEFINE A == Frames(p, f[p])
             B == Rest(f, p)
  <2>1. Held(f) = B \cup A
    BY <1>2 DEF Held, Rest
  <2>2. IsFiniteSet(A) /\ Cardinality(A) = Size(f[p]) /\ \A x \in A : x[1] = p
    BY <1>2, FramesSize
  <2>3. \A x \in B : x[1] # p
    <3> TAKE x \in B
    <3>1. PICK q \in Procs : q # p /\ f[q] # NONE /\ x \in Frames(q, f[q])
      BY DEF Rest
    <3>2. x[1] = q
      BY <3>1, FramesSize
    <3>3. QED
      BY <3>1, <3>2
  <2>4. \A x \in B : x \notin A
    BY ONLY <2>2, <2>3
  <2>5. IsFiniteSet(B)
    OBVIOUS
  <2> HIDE DEF A, B
  <2>6. IsFiniteSet(B \cup A) /\ Cardinality(B \cup A) = Cardinality(B) + Cardinality(A)
    BY ONLY <2>2, <2>4, <2>5, Together
  <2>7. SizeOf(f[p]) = Size(f[p])
    BY <1>2 DEF SizeOf
  <2>8. QED
    BY <2>1, <2>2, <2>6, <2>7 DEF B
<1>3. QED
  BY <1>1, <1>2

Counted(f) ==
    /\ f \in [Procs -> Mm \cup {NONE}] /\ \A q \in Procs : f[q] # NONE => Finite(f[q])
    /\ IsFiniteSet(Held(f))

Replaced(f, p, m) == [f EXCEPT ![p] = m]

\* One address space is replaced.
LEMMA Balance ==
    ASSUME NEW f, Counted(f), NEW p \in Procs, NEW m, m = NONE \/ Finite(m), NEW h, h = Replaced(f, p, m)
    PROVE  /\ IsFiniteSet(Held(h)) /\ Cardinality(Held(h)) \in Nat /\ Cardinality(Held(f)) \in Nat
           /\ SizeOf(m) \in Nat /\ SizeOf(f[p]) \in Nat
           /\ Cardinality(Held(h)) + SizeOf(f[p]) = Cardinality(Held(f)) + SizeOf(m)
<1>0. f \in [Procs -> Mm \cup {NONE}] /\ (\A q \in Procs : f[q] # NONE => Finite(f[q])) /\ IsFiniteSet(Held(f))
  BY DEF Counted
<1>1. h[p] = m /\ \A q \in Procs : q # p => h[q] = f[q]
  BY <1>0 DEF Replaced
<1>2. Rest(f, p) \in SUBSET Held(f)
  BY DEF Rest, Held
<1>3. IsFiniteSet(Rest(f, p))
  BY <1>0, <1>2, FS_Subset
<1>4. Rest(h, p) = Rest(f, p)
  BY ONLY <1>1 DEF Rest
<1>5. \A q \in Procs : h[q] # NONE => Finite(h[q])
  BY <1>0, <1>1
<1>6. IsFiniteSet(Held(f)) /\ Cardinality(Held(f)) = Cardinality(Rest(f, p)) + SizeOf(f[p])
  BY <1>0, <1>3, HeldSplit
<1>7. IsFiniteSet(Held(h)) /\ Cardinality(Held(h)) = Cardinality(Rest(h, p)) + SizeOf(h[p])
  BY ONLY <1>3, <1>4, <1>5, HeldSplit, p \in Procs
<1>8. Cardinality(Rest(f, p)) \in Nat /\ Cardinality(Held(f)) \in Nat /\ Cardinality(Held(h)) \in Nat
  BY <1>3, <1>6, <1>7, FS_CardinalityType
<1>9. SizeOf(m) \in Nat
  BY SizeType DEF SizeOf
<1>10. SizeOf(f[p]) \in Nat
  BY <1>0, SizeType DEF SizeOf
<1>11. QED
  BY ONLY <1>1, <1>4, <1>6, <1>7, <1>8, <1>9, <1>10
-----------------------------------------------------------------------------
(* The invariant.                                                          *)

\* What holds of every address space while the kernel runs.
Settled ==
    /\ mm \in [Procs -> Mm \cup {NONE}] /\ nr_free \in Int /\ lost \in Nat
    /\ \A p \in Procs : mm[p] # NONE => p \in alive /\ Sound(mm[p]) /\ (Spread(mm[p]) => spread)
    /\ IsFiniteSet(Held(mm)) /\ nr_free + lost + Cardinality(Held(mm)) = NFrames

VmmInv ==
    /\ spread \in BOOLEAN /\ (lost > 0 => spread)
    /\ fate = "overlap" => Asked(prog)
    /\ fate = "ok" => Settled

LEMMA InitInv == Init => VmmInv
<1> SUFFICES ASSUME Init PROVE VmmInv
  OBVIOUS
<1>1. /\ mm = [p \in Procs |-> NONE] /\ nr_free = NFrames /\ fate = "ok" /\ lost = 0 /\ spread = FALSE
  BY DEF Init
<1>2. Held(mm) = {} /\ \A p \in Procs : mm[p] = NONE
  BY <1>1 DEF Held
<1>3. IsFiniteSet(Held(mm)) /\ Cardinality(Held(mm)) = 0
  BY <1>2, FS_EmptySet
<1>4. nr_free + lost + Cardinality(Held(mm)) = NFrames /\ nr_free \in Int /\ lost \in Nat
  BY <1>1, <1>3, Numbers
<1>5. mm \in [Procs -> Mm \cup {NONE}]
  BY <1>1
<1>6. Settled
  BY ONLY <1>2, <1>3, <1>4, <1>5 DEF Settled
<1>7. ~(lost > 0)
  <2>1. lost = 0
    BY <1>1
  <2>2. QED
    BY ONLY <2>1
<1>8. fate # "overlap"
  <2>1. fate = "ok"
    BY <1>1
  <2>2. QED
    BY ONLY <2>1
<1>9. spread \in BOOLEAN
  BY <1>1
<1>10. QED
  BY ONLY <1>6, <1>7, <1>8, <1>9 DEF VmmInv

\* A step that replaces the address space of p by s.m and keeps the frames together.
Replaces(p, s) ==
    /\ s.free \in Int /\ s.lost \in Nat /\ Set(s) /\ mm' = [mm EXCEPT ![p] = s.m]
    /\ spread' \in BOOLEAN /\ (spread => spread')
    /\ s.lost = lost \/ spread'
    /\ s.fate = "overlap" => Asked(prog')
    /\ s.fate = "ok" =>
          /\ s.m = NONE \/ (Sound(s.m) /\ p \in alive')
          /\ Spread(s.m) => spread'
          /\ s.free + s.lost + SizeOf(s.m) = nr_free + lost + SizeOf(mm[p])
          /\ \A q \in alive : q # p => q \in alive'

LEMMA SoundFinite ==
    ASSUME NEW m, Sound(m)
    PROVE  Finite(m) /\ m \in Mm /\ m # NONE
  BY VmmAssumption DEF Sound, Tables

LEMMA ReplaceStep ==
    ASSUME VmmInv, fate = "ok", NEW p \in Procs, NEW s, Replaces(p, s)
    PROVE  VmmInv'
<1>0. Settled /\ spread \in BOOLEAN /\ (lost > 0 => spread)
  BY DEF VmmInv
<1>1. nr_free' = s.free /\ lost' = s.lost /\ fate' = s.fate /\ mm' = [mm EXCEPT ![p] = s.m]
      /\ spread' \in BOOLEAN /\ (spread => spread')
  BY DEF Replaces, Set
<1>2. lost' > 0 => spread'
  BY <1>0, <1>1 DEF Replaces
<1>3. fate' = "overlap" => Asked(prog')
  BY <1>1 DEF Replaces
<1>4. ASSUME fate' = "ok" PROVE Settled'
  <2>1. /\ s.m = NONE \/ (Sound(s.m) /\ p \in alive')
        /\ Spread(s.m) => spread'
        /\ s.free + s.lost + SizeOf(s.m) = nr_free + lost + SizeOf(mm[p])
        /\ \A q \in alive : q # p => q \in alive'
        /\ s.free \in Int /\ s.lost \in Nat
    BY <1>1, <1>4 DEF Replaces
  <2>2. mm \in [Procs -> Mm \cup {NONE}] /\ nr_free \in Int /\ lost \in Nat
        /\ (\A q \in Procs : mm[q] # NONE => q \in alive /\ Sound(mm[q]) /\ (Spread(mm[q]) => spread))
        /\ IsFiniteSet(Held(mm)) /\ nr_free + lost + Cardinality(Held(mm)) = NFrames
    BY <1>0 DEF Settled
  <2>3. s.m = NONE \/ (Finite(s.m) /\ s.m \in Mm)
    BY ONLY <2>1, SoundFinite
  <2>4. \A q \in Procs : mm[q] # NONE => Finite(mm[q])
    BY ONLY <2>2, SoundFinite
  <2> DEFINE m == s.m
             h == [mm EXCEPT ![p] = m]
  <2>5. /\ IsFiniteSet(Held(h)) /\ Cardinality(Held(h)) \in Nat /\ Cardinality(Held(mm)) \in Nat
        /\ SizeOf(m) \in Nat /\ SizeOf(mm[p]) \in Nat
        /\ Cardinality(Held(h)) + SizeOf(mm[p]) = Cardinality(Held(mm)) + SizeOf(m)
    <3> HIDE DEF m, h
    <3>1. m = NONE \/ Finite(m)
      BY <2>3 DEF m
    <3>2. h = Replaced(mm, p, m)
      BY DEF h, Replaced
    <3>3. Counted(mm)
      BY ONLY <2>2, <2>4 DEF Counted
    <3>4. QED
      BY ONLY <3>1, <3>2, <3>3, p \in Procs, Balance
  <2>6. h \in [Procs -> Mm \cup {NONE}] /\ h[p] = m /\ \A q \in Procs : q # p => h[q] = mm[q]
    BY ONLY <2>2, <2>3, p \in Procs
  <2>7. mm' = h
    BY <1>1
  <2> HIDE DEF h, m
  <2>8. \A q \in Procs : h[q] # NONE => q \in alive' /\ Sound(h[q]) /\ (Spread(h[q]) => spread')
    <3> SUFFICES ASSUME NEW q \in Procs, h[q] # NONE
                 PROVE  q \in alive' /\ Sound(h[q]) /\ (Spread(h[q]) => spread')
      OBVIOUS
    <3>1. CASE q = p
      BY <2>1, <2>6, <3>1 DEF m
    <3>2. CASE q # p
      BY <1>1, <2>1, <2>2, <2>6, <3>2
    <3>3. QED
      BY <3>1, <3>2
  <2>9. s.free + s.lost + Cardinality(Held(h)) = NFrames
    <3>1. s.free + s.lost + SizeOf(m) = nr_free + lost + SizeOf(mm[p])
      BY <2>1 DEF m
    <3>2. s.free \in Int /\ s.lost \in Int /\ nr_free \in Int /\ lost \in Int
      BY ONLY <2>1, <2>2
    <3>3. nr_free + lost + Cardinality(Held(mm)) = NFrames
      BY ONLY <2>2
    <3> DEFINE a == Cardinality(Held(h))
               b == Cardinality(Held(mm))
               c == SizeOf(m)
               d == SizeOf(mm[p])
    <3>4. a \in Int /\ b \in Int /\ c \in Int /\ d \in Int /\ a + d = b + c
      BY ONLY <2>5
    <3> HIDE DEF a, b, c, d
    <3>5. s.free + s.lost + c = nr_free + lost + d /\ nr_free + lost + b = NFrames
      BY ONLY <3>1, <3>3 DEF b, c, d
    <3>6. s.free + s.lost + a = NFrames
      BY ONLY <3>2, <3>4, <3>5
    <3>7. QED
      BY ONLY <3>6 DEF a
  <2>10. Held(mm)' = Held(h)
    BY <2>7 DEF Held
  <2>11. QED
    BY <1>1, <2>1, <2>5, <2>6, <2>7, <2>8, <2>9, <2>10 DEF Settled
<1>5. QED
  BY <1>1, <1>2, <1>3, <1>4 DEF VmmInv

\* The state the functions start from.
LEMMA WorkGood ==
    ASSUME Settled, fate = "ok", NEW m
    PROVE  /\ Work(m).m = m /\ Work(m).free = nr_free /\ Work(m).lost = lost
           /\ Work(m).fate = "ok" /\ Work(m).ret = "OK"
           /\ m \in Mm => Work(m) \in WorkType
           /\ m = NONE => Work(m) \in NoMm
           /\ m # NONE => Total(Work(m)) = nr_free + lost + SizeOf(m)
<1> DEFINE w == Work(m)
<1>1. nr_free \in Int /\ lost \in Nat
  BY DEF Settled
<1>2. w.m = m /\ w.free = nr_free /\ w.lost = lost /\ w.fate = "ok" /\ w.ret = "OK"
  BY DEF Work
<1>3. m \in Mm => w \in WorkType
  BY <1>1 DEF Work, WorkType, Fates, Results
<1>4. m = NONE => w \in NoMm
  BY <1>1 DEF Work, NoMm, Fates, Results
<1> HIDE DEF w
<1>5. m # NONE => Total(w) = nr_free + lost + SizeOf(m)
  BY ONLY <1>2 DEF Total, SizeOf
<1>6. QED
  BY <1>2, <1>3, <1>4, <1>5 DEF w
-----------------------------------------------------------------------------
(* One lemma per action.                                                   *)

LEMMA ExitStep ==
    ASSUME VmmInv, NEW p \in Procs, do_exit(p)
    PROVE  VmmInv'
<1> DEFINE m == mm[p]
           w == Work(m)
           s == put_mm(w)
<1>1. fate = "ok" /\ m # NONE /\ Set(s) /\ mm' = [mm EXCEPT ![p] = NONE] /\ alive' = alive \ {p} /\ spread' = spread
  BY DEF do_exit
<1>2. Settled /\ spread \in BOOLEAN
  BY <1>1 DEF VmmInv
<1>3. Sound(m) /\ (Spread(m) => spread) /\ m \in Mm
  BY <1>1, <1>2, SoundFinite DEF Settled
<1>4. /\ w.m = m /\ w.lost = lost /\ w.fate = "ok" /\ w \in WorkType
      /\ Total(w) = nr_free + lost + SizeOf(m)
  BY <1>1, <1>2, <1>3, WorkGood
<1> HIDE DEF w, m
<1>5. Gone(w, s)
  BY ONLY <1>3, <1>4, PutMm
<1> HIDE DEF s
<1>6. /\ s.m = NONE /\ s.free \in Int /\ s.lost \in Nat /\ s.fate = "ok"
      /\ s.free + s.lost = nr_free + lost + SizeOf(m) /\ (~Spread(m) => s.lost = lost)
  BY ONLY <1>4, <1>5 DEF Gone
<1>7. s.free + s.lost + SizeOf(s.m) = nr_free + lost + SizeOf(m)
  BY ONLY <1>6 DEF SizeOf
<1>8. ~Spread(s.m)
  BY ONLY <1>6 DEF Spread
<1>9. Replaces(p, s)
  BY ONLY <1>1, <1>2, <1>3, <1>6, <1>7, <1>8 DEF Replaces, m
<1>10. QED
  BY ONLY <1>1, <1>9, VmmInv, p \in Procs, ReplaceStep

LEMMA ExecStep ==
    ASSUME VmmInv, NEW p \in Procs, NEW segs \in Programs, do_execve(p, segs)
    PROVE  VmmInv'
<1> DEFINE m == mm[p]
           w == Work(m)
           g == IF m = NONE THEN Work(NONE) ELSE put_mm(w)
           s == load_icode(g, segs)
<1>1. /\ fate = "ok" /\ p \in alive /\ Set(s) /\ mm' = [mm EXCEPT ![p] = s.m]
      /\ alive' = IF s.ret # "OK" /\ s.fate = "ok" THEN alive \ {p} ELSE alive
      /\ spread' = (spread \/ Spread(s.m) \/ (s.ret # "OK" /\ Spread(before_cleanup(g, segs))))
      /\ prog' = segs
  BY DEF do_execve
<1>2. Settled /\ spread \in BOOLEAN
  BY <1>1 DEF VmmInv
<1>3. segs \in Seq(Segment)
  BY VmmAssumption DEF Segment
<1>4. /\ g \in NoMm /\ g.fate = "ok" /\ g.ret = "OK" /\ g.free + g.lost = nr_free + lost + SizeOf(m)
      /\ g.lost = lost \/ spread
  <2>1. CASE m = NONE
    <3>1. g = Work(NONE) /\ SizeOf(m) = 0
      BY <2>1 DEF SizeOf
    <3>2. g \in NoMm /\ g.fate = "ok" /\ g.ret = "OK" /\ g.free = nr_free /\ g.lost = lost
      BY <1>1, <1>2, <3>1, WorkGood
    <3>3. nr_free \in Int /\ lost \in Nat
      BY <1>2 DEF Settled
    <3> HIDE DEF g, m
    <3>4. QED
      BY ONLY <3>1, <3>2, <3>3
  <2>2. CASE m # NONE
    <3>1. g = put_mm(w)
      BY <2>2
    <3>2. Sound(m) /\ (Spread(m) => spread) /\ m \in Mm
      BY <1>2, <2>2, SoundFinite DEF Settled
    <3>3. /\ w.m = m /\ w.lost = lost /\ w.fate = "ok" /\ w.ret = "OK" /\ w \in WorkType
          /\ Total(w) = nr_free + lost + SizeOf(m)
      BY <1>1, <1>2, <2>2, <3>2, WorkGood
    <3> HIDE DEF g, m, w
    <3>4. Gone(w, g)
      BY ONLY <3>1, <3>2, <3>3, PutMm
    <3>5. QED
      BY ONLY <3>2, <3>3, <3>4 DEF Gone, NoMm
  <2>3. QED
    BY <2>1, <2>2
<1> HIDE DEF g, m
<1>5. Outcome(g, segs, s)
  BY ONLY <1>3, <1>4, LoadIcode
<1> HIDE DEF s
<1>6. s.free \in Int /\ s.lost \in Nat /\ (s.fate = "overlap" => Asked(segs))
      /\ (s.lost = g.lost \/ (s.ret # "OK" /\ Spread(before_cleanup(g, segs))))
  BY ONLY <1>5 DEF Outcome
<1>7. s.fate = "ok" => /\ s.m = NONE \/ (Sound(s.m) /\ p \in alive')
                       /\ s.free + s.lost + SizeOf(s.m) = nr_free + lost + SizeOf(m)
                       /\ \A q \in alive : q # p => q \in alive'
  <2> SUFFICES ASSUME s.fate = "ok"
               PROVE  /\ s.m = NONE \/ (Sound(s.m) /\ p \in alive')
                      /\ s.free + s.lost + SizeOf(s.m) = nr_free + lost + SizeOf(m)
                      /\ \A q \in alive : q # p => q \in alive'
    OBVIOUS
  <2>1. CASE s.ret = "OK"
    <3>1. s \in WorkType /\ Sound(s.m) /\ Total(s) = g.free + g.lost
      BY ONLY <1>5, <2>1, s.fate = "ok" DEF Outcome
    <3>2. s.m # NONE
      BY ONLY <3>1, SoundFinite
    <3>3. Total(s) = s.free + s.lost + SizeOf(s.m)
      BY ONLY <3>2 DEF Total, SizeOf
    <3>4. alive' = alive
      BY <1>1, <2>1
    <3>5. QED
      BY ONLY <1>1, <1>4, <3>1, <3>3, <3>4
  <2>2. CASE s.ret # "OK"
    <3>1. s.m = NONE /\ s.free + s.lost = g.free + g.lost
      BY ONLY <1>5, <2>2, s.fate = "ok" DEF Outcome
    <3>2. s.free + s.lost + SizeOf(s.m) = g.free + g.lost
      BY ONLY <1>6, <3>1 DEF SizeOf
    <3>3. \A q \in alive : q # p => q \in alive'
      BY ONLY <1>1
    <3>4. QED
      BY ONLY <1>4, <3>1, <3>2, <3>3
  <2>3. QED
    BY <2>1, <2>2
<1>8. spread' \in BOOLEAN /\ (spread => spread') /\ (Spread(s.m) => spread')
      /\ (s.ret # "OK" /\ Spread(before_cleanup(g, segs)) => spread')
  BY <1>1
<1>9. s.lost = lost \/ spread'
  BY ONLY <1>4, <1>6, <1>8
<1>10. s.fate = "overlap" => Asked(prog')
  BY <1>1, <1>6
<1>11. Replaces(p, s)
  BY ONLY <1>1, <1>6, <1>7, <1>8, <1>9, <1>10 DEF Replaces, m
<1>12. QED
  BY ONLY <1>1, <1>11, VmmInv, p \in Procs, ReplaceStep

LEMMA ForkStep ==
    ASSUME VmmInv, NEW p \in Procs, NEW c \in Procs, do_fork(p, c)
    PROVE  VmmInv'
<1> DEFINE m == mm[p]
           w == Work(NONE)
           a == Fresh(w)
           s == dup_mmap(a, m)
           N == Len(m.mmap_list)
<1>1. /\ fate = "ok" /\ m # NONE /\ c \notin alive /\ Set(s) /\ mm' = [mm EXCEPT ![c] = s.m]
      /\ alive' = alive \cup {c} /\ spread' = spread
  BY DEF do_fork, Fresh
<1>2. Settled /\ spread \in BOOLEAN
  BY <1>1 DEF VmmInv
<1>3. Sound(m) /\ (Spread(m) => spread) /\ mm[c] = NONE
  BY <1>1, <1>2 DEF Settled
<1>4. w \in NoMm /\ w.fate = "ok" /\ w.free = nr_free /\ w.lost = lost
  BY <1>1, <1>2, WorkGood
<1>5. nr_free \in Int /\ lost \in Nat
  BY <1>2 DEF Settled
<1> HIDE DEF w, m
<1>6. /\ a \in WorkType /\ a.m = mm_create /\ a.lost = lost /\ a.fate \in {"ok", "swap_out"}
      /\ a.fate = "ok" => Total(a) = nr_free + lost
  BY ONLY <1>4, FreshGood
<1> HIDE DEF a
<1>7. VmasOK(m.mmap_list) /\ N \in Nat
  BY ONLY <1>3 DEF Sound, VmasOK
<1>8. Copied(m.mmap_list, 0, a, a)
  <2>1. Sound(a.m) /\ a.m.mmap_list = <<>>
    BY ONLY <1>6, NewMm
  <2>2. DOMAIN a.m.mmap_list = {}
    BY ONLY <2>1
  <2>3. QED
    BY ONLY <1>6, <2>1, <2>2 DEF Copied
<1>9. Copied(m.mmap_list, N, a, s)
  BY ONLY <1>7, <1>8, DupMmap
<1> HIDE DEF s
<1>10. s \in WorkType /\ s.lost = a.lost /\ s.fate \in {"ok", "swap_out"}
       /\ (s.fate = "ok" => a.fate = "ok" /\ Sound(s.m) /\ Total(s) = Total(a))
  BY ONLY <1>9 DEF Copied
<1>11. s.free \in Int /\ s.lost \in Nat /\ s.lost = lost
  BY ONLY <1>5, <1>6, <1>10 DEF WorkType
<1>12. s.fate = "ok" /\ Spread(s.m) => spread
  <2> SUFFICES ASSUME s.fate = "ok", Spread(s.m) PROVE Spread(m)
    BY <1>3
  <2>1. N - N + 1 = 1 /\ DOMAIN m.mmap_list = 1..N
    BY ONLY <1>7 DEF VmasOK
  <2>2. \A i \in DOMAIN s.m.mmap_list : \E j \in DOMAIN m.mmap_list : s.m.mmap_list[i] = m.mmap_list[j]
    BY ONLY <1>9, <2>1, s.fate = "ok" DEF Copied
  <2>3. QED
    BY ONLY <1>1, <2>2, Spread(s.m) DEF Spread
<1>13. s.fate = "ok" => s.free + s.lost + SizeOf(s.m) = nr_free + lost + SizeOf(mm[c])
  <2> SUFFICES ASSUME s.fate = "ok" PROVE s.free + s.lost + SizeOf(s.m) = nr_free + lost + SizeOf(mm[c])
    OBVIOUS
  <2>1. Total(s) = nr_free + lost /\ s.m # NONE
    BY ONLY <1>6, <1>10, SoundFinite, s.fate = "ok"
  <2>2. Total(s) = s.free + s.lost + SizeOf(s.m)
    BY ONLY <2>1 DEF Total, SizeOf
  <2>3. SizeOf(mm[c]) = 0
    BY ONLY <1>3 DEF SizeOf
  <2>4. QED
    BY ONLY <1>5, <2>1, <2>2, <2>3
<1>14. Replaces(c, s)
  BY ONLY <1>1, <1>2, <1>10, <1>11, <1>12, <1>13 DEF Replaces
<1>15. QED
  BY ONLY <1>1, <1>14, VmmInv, c \in Procs, ReplaceStep

\* The vma that was found goes into the cache.
LEMMA CachedGood ==
    ASSUME NEW m, Sound(m), NEW v, v = NONE \/ In(m.mmap_list, v), NEW c, c = cache(m, v)
    PROVE  /\ Sound(c) /\ SizeOf(c) = SizeOf(m) /\ (Spread(c) => Spread(m))
           /\ c.mmap_list = m.mmap_list /\ c.pages = m.pages
<1>1. Sound(c) /\ Size(c) = Size(m) /\ c.mmap_list = m.mmap_list /\ c.pages = m.pages
  BY CacheGood
<1>2. c # NONE /\ m # NONE
  BY <1>1, SoundFinite
<1>3. Spread(c) => Spread(m)
  BY ONLY <1>1, <1>2 DEF Spread
<1>4. SizeOf(c) = SizeOf(m)
  BY ONLY <1>1, <1>2 DEF SizeOf
<1>5. QED
  BY <1>1, <1>3, <1>4

LEMMA PgfaultStep ==
    ASSUME VmmInv, NEW p \in Procs, NEW la \in 0..UserTop, NEW write \in BOOLEAN, do_pgfault(p, la, write)
    PROVE  VmmInv'
<1> DEFINE m == mm[p]
           vma == find_vma(m, la)
           c == cache(m, vma)
           w == Work(c)
           s == get_pte(w, la)
           x == [Work(m) EXCEPT !.fate = "pgfault"]
           y == [s EXCEPT !.fate = "swap_in"]
           z == pgdir_alloc_page(s, la)
           t == IF vma = NONE THEN x ELSE IF s.fate # "ok" THEN s ELSE IF la \in m.pages THEN y ELSE z
<1>1. /\ fate = "ok" /\ p \in alive /\ m # NONE /\ Set(t) /\ mm' = [mm EXCEPT ![p] = t.m]
      /\ alive' = alive /\ spread' = spread
  BY DEF do_pgfault
<1>2. Settled /\ spread \in BOOLEAN
  BY <1>1 DEF VmmInv
<1>3. Sound(m) /\ (Spread(m) => spread) /\ m \in Mm
  BY <1>1, <1>2, SoundFinite DEF Settled
<1>4. nr_free \in Int /\ lost \in Nat
  BY <1>2 DEF Settled
<1>5. /\ t.free \in Int /\ t.lost \in Nat /\ t.lost = lost /\ t.fate # "overlap"
      /\ t.fate = "ok" => /\ Sound(t.m) /\ (Spread(t.m) => spread)
                          /\ t.free + t.lost + SizeOf(t.m) = nr_free + lost + SizeOf(m)
  <2>1. CASE vma = NONE
    <3> DEFINE o == Work(m)
    <3>1. o \in WorkType /\ o.lost = lost
      BY <1>1, <1>2, <1>3, WorkGood
    <3> HIDE DEF o
    <3>2. t = [o EXCEPT !.fate = "pgfault"]
      BY <2>1 DEF o
    <3> HIDE DEF t
    <3>3. QED
      BY ONLY <3>1, <3>2 DEF WorkType
  <2>2. CASE vma # NONE
    <3>1. t = IF s.fate # "ok" THEN s ELSE IF la \in m.pages THEN y ELSE z
      BY <2>2
    <3>2. In(m.mmap_list, vma) /\ Holds(vma, la)
      BY <1>3, <2>2, FindVma DEF Sound
    <3> HIDE DEF vma, m
    <3>3. /\ Sound(c) /\ SizeOf(c) = SizeOf(m) /\ (Spread(c) => Spread(m))
          /\ c.mmap_list = m.mmap_list /\ c.pages = m.pages
      BY ONLY <1>3, <3>2, CachedGood
    <3> HIDE DEF c
    <3>4. c \in Mm /\ c # NONE
      BY ONLY <3>3, SoundFinite
    <3>5. /\ w.m = c /\ w.lost = lost /\ w.fate = "ok" /\ w \in WorkType
          /\ Total(w) = nr_free + lost + SizeOf(c)
      BY ONLY <1>1, <1>2, <3>4, WorkGood
    <3> HIDE DEF w
    <3> DEFINE cov == Covered(c.mmap_list)
    <3>6. cov \in SUBSET Nat /\ Tables(cov, w.m) /\ VmasOK(c.mmap_list)
      BY ONLY <3>3, <3>5, CoveredFacts DEF Sound
    <3>7. la \in cov
      <4>1. PICK i \in DOMAIN c.mmap_list : c.mmap_list[i] = vma
        BY ONLY <3>2, <3>3 DEF In
      <4>2. c.mmap_list[i] \in Vma /\ Pages(c.mmap_list[i]) \subseteq cov
        BY ONLY <3>6, i \in DOMAIN c.mmap_list, VmaFacts, CoveredFacts
      <4>3. la \in Nat
        BY Numbers
      <4>4. QED
        BY ONLY <3>2, <4>1, <4>2, <4>3, PageHeld
    <3> HIDE DEF cov
    <3>8. Grown(cov, w, s) /\ s.fate \in {"ok", "swap_out"} /\ s.m.pages = w.m.pages
      BY ONLY <3>5, <3>6, <3>7, GetPte
    <3> HIDE DEF s
    <3>9. s \in WorkType /\ s.lost = lost
      BY ONLY <3>5, <3>8 DEF Grown, Same
    <3>10. CASE s.fate # "ok"
      <4>1. t = s
        BY ONLY <3>1, <3>10
      <4> HIDE DEF t
      <4>2. QED
        BY ONLY <3>8, <3>9, <3>10, <4>1 DEF WorkType
    <3>11. CASE s.fate = "ok" /\ la \in m.pages
      <4>1. t = [s EXCEPT !.fate = "swap_in"]
        BY ONLY <3>1, <3>11
      <4> HIDE DEF t
      <4>2. QED
        BY ONLY <3>9, <4>1 DEF WorkType
    <3>12. CASE s.fate = "ok" /\ la \notin m.pages
      <4>1. t = z
        BY ONLY <3>1, <3>12
      <4>2. la \notin s.m.pages /\ Tables(cov, s.m)
        BY ONLY <3>3, <3>5, <3>8, <3>12 DEF Grown
      <4>3. Grown(cov, s, z)
        BY ONLY <3>6, <3>7, <3>9, <4>2, PgdirAllocPage
      <4> HIDE DEF t, z
      <4>4. Grown(cov, w, t)
        BY ONLY <3>8, <4>1, <4>3, GrownChain
      <4>5. (t.fate = "ok" => Sound(t.m)) /\ t.m.mmap_list = c.mmap_list
        BY ONLY <3>3, <3>5, <4>4, GrownSound DEF cov
      <4>6. t \in WorkType /\ t.lost = lost /\ t.fate \in {"ok", "swap_out"} /\ (t.fate = "ok" => Total(t) = Total(w))
        BY ONLY <3>5, <4>4 DEF Grown, Same
      <4>7. t.fate = "ok" => (Spread(t.m) => spread)
        BY ONLY <1>3, <3>3, <3>4, <4>5 DEF Spread
      <4>8. t.fate = "ok" => Total(t) = t.free + t.lost + SizeOf(t.m)
        <5>1. t.fate = "ok" => t.m # NONE
          BY ONLY <4>5, SoundFinite
        <5>2. QED
          BY ONLY <5>1 DEF Total, SizeOf
      <4>9. t.fate = "ok" => t.free + t.lost + SizeOf(t.m) = nr_free + lost + SizeOf(m)
        BY ONLY <3>3, <3>5, <4>6, <4>8
      <4>10. t.free \in Int /\ t.lost \in Nat
        BY ONLY <4>6 DEF WorkType
      <4>11. QED
        BY ONLY <4>5, <4>6, <4>7, <4>9, <4>10
    <3>13. QED
      BY ONLY <3>10, <3>11, <3>12
  <2>3. QED
    BY <2>1, <2>2
<1> HIDE DEF t
<1>6. Replaces(p, t)
  BY ONLY <1>1, <1>2, <1>5 DEF Replaces, m
<1>7. QED
  BY ONLY <1>1, <1>6, VmmInv, p \in Procs, ReplaceStep

LEMMA CopyUserStep ==
    ASSUME VmmInv, NEW p \in Procs, NEW addr \in UserBase..UserTop, NEW len \in UserBase..UserTop,
           NEW write \in BOOLEAN, copy_user(p, addr, len, write)
    PROVE  VmmInv'
<1> DEFINE m == mm[p]
           v == check_rounds(m, addr, len, write).last
           c == cache(m, v)
           w == Work(c)
<1>1. /\ fate = "ok" /\ p \in alive /\ m # NONE /\ mm' = [mm EXCEPT ![p] = cache(@, check_rounds(@, addr, len, write).last)]
      /\ nr_free' = nr_free /\ lost' = lost /\ fate' = fate /\ alive' = alive /\ spread' = spread
  BY DEF copy_user
<1>2. Settled /\ spread \in BOOLEAN
  BY <1>1 DEF VmmInv
<1>3. Sound(m) /\ (Spread(m) => spread)
  BY <1>1, <1>2 DEF Settled
<1>4. nr_free \in Int /\ lost \in Nat /\ mm \in [Procs -> Mm \cup {NONE}]
  BY <1>2 DEF Settled
<1>5. mm' = [mm EXCEPT ![p] = c]
  BY <1>1, <1>4
<1>6. v = NONE \/ In(m.mmap_list, v)
  <2>1. addr \in 0..UserTop /\ len \in Nat
    BY Numbers
  <2>2. QED
    BY <1>3, <2>1, CheckRight DEF Told
<1> HIDE DEF v, m
<1>7. Sound(c) /\ SizeOf(c) = SizeOf(m) /\ (Spread(c) => Spread(m))
  BY ONLY <1>3, <1>6, CachedGood
<1> HIDE DEF c
<1>8. w.m = c /\ w.free = nr_free /\ w.lost = lost /\ w.fate = "ok"
  BY ONLY <1>1, <1>2, WorkGood
<1> HIDE DEF w
<1>9. Replaces(p, w)
  <2>1. w.free + w.lost + SizeOf(w.m) = nr_free + lost + SizeOf(mm[p])
    BY ONLY <1>7, <1>8 DEF m
  <2>2. Set(w)
    BY ONLY <1>1, <1>8 DEF Set
  <2>3. QED
    BY ONLY <1>1, <1>2, <1>3, <1>4, <1>5, <1>7, <1>8, <2>1, <2>2 DEF Replaces
<1>10. QED
  BY ONLY <1>1, <1>9, VmmInv, p \in Procs, ReplaceStep

LEMMA NextInv == VmmInv /\ [Next]_vars => VmmInv'
<1> SUFFICES ASSUME VmmInv, [Next]_vars PROVE VmmInv'
  OBVIOUS
<1>1. CASE Next
  <2>1. PICK p \in Procs :
           \/ \E segs \in Programs : do_execve(p, segs)
           \/ do_exit(p)
           \/ \E c \in Procs : do_fork(p, c)
           \/ \E la \in 0..UserTop, write \in BOOLEAN : do_pgfault(p, la, write)
           \/ \E addr, len \in UserBase..UserTop, write \in BOOLEAN : copy_user(p, addr, len, write)
    BY <1>1 DEF Next
  <2>2. CASE \E segs \in Programs : do_execve(p, segs)
    BY ONLY <2>2, VmmInv, p \in Procs, ExecStep
  <2>3. CASE do_exit(p)
    BY ONLY <2>3, VmmInv, p \in Procs, ExitStep
  <2>4. CASE \E c \in Procs : do_fork(p, c)
    BY ONLY <2>4, VmmInv, p \in Procs, ForkStep
  <2>5. CASE \E la \in 0..UserTop, write \in BOOLEAN : do_pgfault(p, la, write)
    BY ONLY <2>5, VmmInv, p \in Procs, PgfaultStep
  <2>6. CASE \E addr, len \in UserBase..UserTop, write \in BOOLEAN : copy_user(p, addr, len, write)
    BY ONLY <2>6, VmmInv, p \in Procs, CopyUserStep
  <2>7. QED
    BY <2>1, <2>2, <2>3, <2>4, <2>5, <2>6
<1>2. CASE UNCHANGED vars
  BY <1>2 DEF vars, VmmInv, Settled, Held, Asked
<1>3. QED
  BY <1>1, <1>2

LEMMA VmmInvariant == Spec => []VmmInv
  BY InitInv, NextInv, PTL DEF Spec
-----------------------------------------------------------------------------
(* The properties.                                                         *)

\* Through fork, exec, page faults and exit every list of vmas stays sorted and
\* disjoint within the user's range and holds the cached vma and every mapped page,
\* and every page hangs off a table and a directory.
THEOREM MmStaysSound == Spec => []MmSound
<1>1. VmmInv => MmSound
  <2> SUFFICES ASSUME VmmInv, fate = "ok", NEW p \in Live
               PROVE  LET m == mm[p]
                          V == Range(m.mmap_list)
                      IN /\ \A v \in V : USER_ACCESS(v.vm_start, v.vm_end)
                         /\ \A i, j \in DOMAIN m.mmap_list :
                               i < j => m.mmap_list[i].vm_end <= m.mmap_list[j].vm_start
                         /\ m.mmap_cache \in V \cup {NONE}
                         /\ m.pages \subseteq UNION {Pages(v) : v \in V}
                         /\ {PDX0(la) : la \in m.pages} \subseteq m.pt
                         /\ {t \div PdN : t \in m.pt} \subseteq m.pd0
    BY DEF MmSound
  <2> DEFINE m == mm[p]
             V == Range(m.mmap_list)
  <2>1. Sound(m)
    BY DEF VmmInv, Settled, Live
  <2> HIDE DEF m
  <2>2. VmasOK(m.mmap_list) /\ (m.mmap_cache = NONE \/ In(m.mmap_list, m.mmap_cache))
        /\ Tables(Covered(m.mmap_list), m)
    BY ONLY <2>1 DEF Sound
  <2>3. \A v \in V : USER_ACCESS(v.vm_start, v.vm_end)
    BY ONLY <2>2 DEF VmasOK, Range
  <2>4. \A i, j \in DOMAIN m.mmap_list : i < j => m.mmap_list[i].vm_end <= m.mmap_list[j].vm_start
    BY ONLY <2>2 DEF VmasOK
  <2>5. m.mmap_cache \in V \cup {NONE}
    BY ONLY <2>2 DEF In, Range
  <2>6. m.pages \subseteq UNION {Pages(v) : v \in V}
    BY ONLY <2>2 DEF Tables, Covered, Range
  <2>7. {PDX0(la) : la \in m.pages} \subseteq m.pt
    BY ONLY <2>2 DEF Tables
  <2>8. {t \div PdN : t \in m.pt} \subseteq m.pd0
    BY ONLY <2>2 DEF Tables
  <2>9. QED
    BY ONLY <2>3, <2>4, <2>5, <2>6, <2>7, <2>8 DEF m
<1>2. QED
  BY <1>1, VmmInvariant, PTL

\* No frame is freed twice or forgotten: those that are free, those of the address
\* spaces and the tables that exit_range loses add up, and it loses tables only where
\* one directory served two page tables.
THEOREM FramesAddUp == Spec => []FramesAccounted
<1>1. VmmInv => FramesAccounted
  <2> SUFFICES ASSUME VmmInv PROVE FramesAccounted
    OBVIOUS
  <2>1. Held(mm) = UNION {Frames(p, mm[p]) : p \in Live}
    BY DEF Held, Live
  <2>2. fate = "ok" => nr_free + lost + Cardinality(Held(mm)) = NFrames
    BY DEF VmmInv, Settled
  <2>3. lost > 0 => spread
    BY DEF VmmInv
  <2>4. QED
    BY ONLY <2>1, <2>2, <2>3 DEF FramesAccounted
<1>2. QED
  BY <1>1, VmmInvariant, PTL

\* The assertion in insert_vma_struct fails only for a program whose segments overlap
\* each other or the stack: never in fork, and never because of what ran before.
THEOREM OverlapAsked == Spec => []OverlapOnlyIfAsked
<1>1. VmmInv => OverlapOnlyIfAsked
  BY DEF VmmInv, OverlapOnlyIfAsked, Asked
<1>2. QED
  BY <1>1, VmmInvariant, PTL

\* user_mem_check accepts a buffer exactly when every page of it is in a vma that
\* allows the access and none that is written is the bottom page of the stack.
THEOREM UserMemCheckIsExact == Spec => []UserMemCheckExact
<1>1. VmmInv => UserMemCheckExact
  <2> SUFFICES ASSUME VmmInv, fate = "ok", NEW p \in Live, NEW addr \in 0..UserTop, NEW len \in 0..UserTop,
                      NEW write \in BOOLEAN
               PROVE  user_mem_check(mm[p], addr, len, write) <=>
                        /\ len > 0 /\ addr >= UserBase /\ addr + len <= UserTop
                        /\ \A la \in addr..(addr + len - 1) : \E v \in Range(mm[p].mmap_list) :
                              /\ la \in Pages(v)
                              /\ (IF write THEN "W" ELSE "R") \in v.vm_flags
                              /\ write /\ "STACK" \in v.vm_flags => la # v.vm_start
    BY DEF UserMemCheckExact
  <2>1. Sound(mm[p])
    BY DEF VmmInv, Settled, Live
  <2>2. user_mem_check(mm[p], addr, len, write) <=>
             /\ len > 0 /\ addr >= UserBase /\ addr + len <= UserTop
             /\ \A la \in addr..(addr + len - 1) : Allowed(mm[p].mmap_list, write, la)
    BY <2>1, CheckExact
  <2>3. QED
    BY ONLY <2>2 DEF Allowed
<1>2. QED
  BY <1>1, VmmInvariant, PTL
=============================================================================
