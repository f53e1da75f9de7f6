----------------------------- MODULE DefaultPmm -----------------------------
(***************************************************************************)
(* The first-fit manager of physical pages, kern/mm/default_pmm.c: a list  *)
(* of free blocks, each represented by its first page.  Callers hold the   *)
(* blocks they were given and return each one whole, as pmm.c, kmalloc.c   *)
(* and proc.c do.  Every operation runs with interrupts disabled (pmm.c).  *)
(***************************************************************************)
EXTENDS Integers, Sequences, SequencesExt, FiniteSetsExt

CONSTANTS
    NPAGE,  \* the pages of the one region page_init hands over
    NULL    \* no page; an integer outside 0..NPAGE-1

ASSUME NPAGEAssumption == NPAGE \in Nat \ {0} /\ NULL \in Int \ (0..(NPAGE - 1))

VARIABLES
    free_list,    \* the first pages of the free blocks, in list order
    property,     \* page->property of those (it is not read for other pages: 0 here)
    PG_property,  \* the pages whose flag PG_property is set
    nr_free,
    blocks,       \* the callers' blocks: <<first page, number of pages>>
    result        \* what the last default_alloc_pages returned

vars == <<free_list, property, PG_property, nr_free, blocks, result>>

Page == 0..(NPAGE - 1)

\* default_init, then default_init_memmap of the whole region
Init ==
    /\ free_list = <<0>>
    /\ property = [p \in Page |-> IF p = 0 THEN NPAGE ELSE 0]
    /\ PG_property = {0}
    /\ nr_free = NPAGE
    /\ blocks = {}
    /\ result = NULL

\* Mutant: last fit.
first_fit_last(n) ==
    {i \in 1..Len(free_list) :
        /\ property[free_list[i]] >= n
        /\ \A j \in 1..Len(free_list) : property[free_list[j]] >= n => j <= i}

\* The search of default_alloc_pages: the first block that is large enough.
first_fit(n) ==
    {i \in 1..Len(free_list) :
        /\ property[free_list[i]] >= n
        /\ \A j \in 1..(i - 1) : property[free_list[j]] < n}

\* The size of what remains of a block.
rest(page, n) == property[page] - n

\* default_alloc_pages: take n pages from the front of the block; the rest, if
\* any, takes its place in the list.
default_alloc_pages(n) ==
    /\ n <= nr_free
    /\ \E i \in first_fit(n) :
          LET page == free_list[i]
              p == page + n
          IN  /\ IF property[page] > n
                   THEN /\ free_list' = [free_list EXCEPT ![i] = p]
                        /\ property' = [property EXCEPT ![page] = 0, ![p] = rest(page, n)]
                        /\ PG_property' = (PG_property \ {page}) \cup {p}
                   ELSE /\ free_list' = RemoveAt(free_list, i)
                        /\ property' = [property EXCEPT ![page] = 0]
                        /\ PG_property' = PG_property \ {page}
              /\ nr_free' = nr_free - n
              /\ blocks' = blocks \cup {<<page, n>>}
              /\ result' = page

\* default_alloc_pages returns NULL: too few pages, or no block with enough.
default_alloc_pages_fail(n) ==
    /\ n > nr_free \/ first_fit(n) = {}
    /\ result' = NULL
    /\ UNCHANGED <<free_list, property, PG_property, nr_free, blocks>>

\* Where the loop of default_free_pages links base: before the first block
\* behind it, at the end if there is none.
place(base) ==
    Min({Len(free_list) + 1} \cup {i \in 1..Len(free_list) : base < free_list[i]})

\* Mutant: joined, but the flag stays.
absorb_flagged(a, i) ==
    IF i \in 1..(Len(a.list) - 1) /\ a.list[i] + a.prop[a.list[i]] = a.list[i + 1]
      THEN [list |-> RemoveAt(a.list, i + 1),
            prop |-> [a.prop EXCEPT ![a.list[i]] = @ + a.prop[a.list[i + 1]],
                                    ![a.list[i + 1]] = 0],
            flag |-> a.flag]
      ELSE a

\* Join the i-th block with the one behind it if they touch.
absorb(a, i) ==
    IF i \in 1..(Len(a.list) - 1) /\ a.list[i] + a.prop[a.list[i]] = a.list[i + 1]
      THEN [list |-> RemoveAt(a.list, i + 1),
            prop |-> [a.prop EXCEPT ![a.list[i]] = @ + a.prop[a.list[i + 1]],
                                    ![a.list[i + 1]] = 0],
            flag |-> a.flag \ {a.list[i + 1]}]
      ELSE a

\* default_free_pages: link the block in address order, join it with the block
\* before it and the result with the block behind it.
default_free_pages(base, n) ==
    /\ <<base, n>> \in blocks
    /\ LET i == place(base)
           linked == [list |-> InsertAt(free_list, i, base),
                      prop |-> [property EXCEPT ![base] = n],
                      flag |-> PG_property \cup {base}]
           prev == absorb(linked, i - 1)
           area == absorb(prev, IF prev = linked THEN i ELSE i - 1)
       IN  /\ free_list' = area.list
           /\ property' = area.prop
           /\ PG_property' = area.flag
    /\ nr_free' = nr_free + n
    /\ blocks' = blocks \ {<<base, n>>}
    /\ UNCHANGED result

\* a request for NPAGE + 1 pages stands for all that are larger
Next ==
    \/ \E n \in 1..NPAGE : default_alloc_pages(n) \/ \E base \in Page : default_free_pages(base, n)
    \/ \E n \in 1..(NPAGE + 1) : default_alloc_pages_fail(n)

Spec == Init /\ [][Next]_vars
-----------------------------------------------------------------------------
Extent(base, n) == base..(base + n - 1)
FreeBlocks == {<<free_list[i], property[free_list[i]]>> : i \in 1..Len(free_list)}
FreePages == UNION {Extent(b[1], b[2]) : b \in FreeBlocks}

\* Every page is in exactly one block, free or a caller's: no page is given out
\* twice and none is lost, through any sequence of splits and joins.  The list is in
\* address order with a gap behind every block: default_free_pages has joined
\* everything it could, although it looks at each side only once.  What is kept
\* beside the list agrees with it: nr_free, which an allocation consults first, and
\* PG_property, which the assertion of default_free_pages looks at.
BlocksSound ==
    /\ \A a, b \in FreeBlocks \cup blocks :
          a # b => Extent(a[1], a[2]) \cap Extent(b[1], b[2]) = {}
    /\ FreeBlocks \cap blocks = {}
    /\ UNION {Extent(b[1], b[2]) : b \in FreeBlocks \cup blocks} = Page
    /\ \A i \in 1..(Len(free_list) - 1) :
          free_list[i] + property[free_list[i]] < free_list[i + 1]
    /\ nr_free = Cardinality(FreePages)
    /\ PG_property = {free_list[i] : i \in 1..Len(free_list)}

\* The list implements first fit over a set of pages; in particular an
\* allocation fails only if there is no run of that many free pages.
Abstract == INSTANCE PmmSpec WITH free <- FreePages
ImplementsPmmSpec == Abstract!Spec
=============================================================================
