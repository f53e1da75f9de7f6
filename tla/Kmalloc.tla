------------------------------ MODULE Kmalloc ------------------------------
(***************************************************************************)
(* The kernel heap, kern/mm/kmalloc.c, on the page manager: blocks of      *)
(* units cut from pages and kept on a circular list (SLOB), and requests   *)
(* of a page or more served by whole pages that a list of headers records. *)
(* The heap never returns the pages it cuts up.  Other users of alloc_pages *)
(* (page tables, kernel stacks) take and return pages meanwhile.           *)
(*                                                                         *)
(* Addresses are units: page p starts at p * PageUnits.  No call sleeps,   *)
(* so while a request for pages is half done (pending) nothing else runs.  *)
(***************************************************************************)
EXTENDS DefaultPmm

CONSTANTS
    SLOB_UNIT,  \* bytes of a unit
    PageUnits,  \* units of a page
    BigUnits,   \* SLOB_UNITS(sizeof(bigblock_t))
    Sizes,      \* bound: what kmalloc is called with
    OtherSizes  \* bound: the pages other users ask for

PAGE_SIZE == PageUnits * SLOB_UNIT

\* Any sizes but these: a size from PAGE_SIZE - 2 * SLOB_UNIT on, but short of the limit
\* of __kmalloc, fails the assertion of slob_alloc; nothing at all could be served by
\* the arena; and what is no int would be cut off by find_order.  The callers in this
\* tree ask for less than that gap or for whole pages, up to four in sfs_do_mount
\* (sfs_fs.c:200) and disk0_device_init (dev_disk0.c:126).
ASSUME KmallocAssumption ==
    /\ {SLOB_UNIT, PageUnits, BigUnits} \subseteq Nat \ {0} /\ 1 < BigUnits /\ BigUnits < PageUnits
    /\ OtherSizes \subseteq 1..NPAGE /\ Sizes \subseteq Nat \ {0}
    /\ \A size \in Sizes : size \div 2^30 < 2  \* an int
    /\ \A size \in Sizes : size + 2 * SLOB_UNIT < PAGE_SIZE \/ size >= PAGE_SIZE - SLOB_UNIT

VARIABLES
    slob,       \* the free blocks: <<address, units>>, the arena among them
    slobfree,   \* where the next search starts
    heap,       \* blocks given out: <<address, units, bytes asked for>>
    slob_pages, \* pages that were cut up
    bigblocks,  \* [pages, n (1 << order), bb (the header's address), size]
    pending,    \* [bb, size] of a request for pages between its two allocations, or {}
    fate        \* "ok", or "swap_out" when a single page is not to be had

heapvars == <<slob, slobfree, heap, slob_pages, bigblocks, pending, fate>>
kvars == <<vars, heapvars>>

\* the static block arena, below all pages and next to none
ARENA == -2

KInit ==
    /\ Init
    /\ slob = {<<ARENA, 1>>} /\ slobfree = ARENA
    /\ heap = {} /\ slob_pages = {} /\ bigblocks = {} /\ pending = {} /\ fate = "ok"

Ready == fate = "ok" /\ pending = {}
SLOB_UNITS(size) == (size + SLOB_UNIT - 1) \div SLOB_UNIT
-----------------------------------------------------------------------------
(* h is the list: [free |-> the blocks, at |-> slobfree].                  *)
List == [free |-> slob, at |-> slobfree]
units(h, addr) == (CHOOSE b \in h.free : b[1] = addr)[2]
before(h, addr) == Max({b[1] : b \in {c \in h.free : c[1] < addr}})

\* the search of slob_alloc: round the list, from behind slobfree to slobfree
fits(h, n) == {b[1] : b \in {c \in h.free : c[2] >= n}}
next_fit(h, n) ==
    LET behind == {a \in fits(h, n) : a > h.at}
    IN IF behind # {} THEN Min(behind) ELSE Min(fits(h, n))

\* Mutant: the fragment keeps a unit too many.
cut_short(h, addr, n) ==
    (h.free \ {<<addr, units(h, addr)>>})
        \cup (IF units(h, addr) = n THEN {} ELSE {<<addr + n - 1, units(h, addr) - n + 1>>})

\* exact fit or fragment
cut(h, addr, n) ==
    (h.free \ {<<addr, units(h, addr)>>})
        \cup (IF units(h, addr) = n THEN {} ELSE {<<addr + n, units(h, addr) - n>>})

\* slob_alloc once a block fits
take(h, n) == [free |-> cut(h, next_fit(h, n), n), at |-> before(h, next_fit(h, n))]

\* slob_free: the block goes between its neighbours and is joined with those it touches
slob_free(h, addr, n) ==
    LET cur == before(h, addr)
        next == {b \in h.free : b[1] = addr + n}
        b == <<addr, n + (IF next = {} THEN 0 ELSE units(h, addr + n))>>
        others == h.free \ next
    IN [at |-> cur,
        free |-> IF cur + units(h, cur) # addr THEN others \cup {b}
                 ELSE (others \ {<<cur, units(h, cur)>>}) \cup {<<cur, units(h, cur) + b[2]>>}]

\* the list in which slob_alloc finds n units: as it is or with a page more, if there is one
grown(n) ==
    IF fits(List, n) # {} THEN {List}
    ELSE {slob_free(List, free_list[i] * PageUnits, PageUnits) : i \in first_fit(1)}

\* slob_alloc(n units) from the list h; it hands back next_fit(h, n)
slob_alloc(n, h) ==
    /\ \/ fits(List, n) # {} /\ UNCHANGED <<vars, slob_pages>>
       \/ /\ fits(List, n) = {} /\ default_alloc_pages(1)
          /\ slob_pages' = slob_pages \cup {result'}
    /\ slob' = take(h, n).free /\ slobfree' = take(h, n).at
    /\ UNCHANGED fate

\* ... and there is no page: alloc_pages does not refuse, it turns to swap_out and fails
slob_alloc_no_page(n) ==
    /\ fits(List, n) = {} /\ nr_free = 0 /\ fate' = "swap_out"
    /\ UNCHANGED <<vars, slob, slobfree, heap, slob_pages, bigblocks, pending>>

\* The loop of find_order: the size is halved, and its last bit lost, until it fits in a
\* page.  Beside it goes 1 << order, the only use of the order.
halve[s \in Nat \X Nat] == IF s[1] <= PAGE_SIZE THEN s ELSE halve[<<s[1] \div 2, 2 * s[2]>>]

\* Mutant: one halving is not counted.
order_pages_late(size) == halve[<<size \div 2, 1>>][2]

\* 1 << find_order(size)
order_pages(size) == halve[<<size, 1>>][2]

\* __kmalloc of less than a page: a header of one unit and the bytes
kmalloc_small(size) ==
    /\ Ready /\ size < PAGE_SIZE - SLOB_UNIT
    /\ LET n == SLOB_UNITS(size + SLOB_UNIT)
       IN \/ \E h \in grown(n) :
                /\ slob_alloc(n, h)
                /\ heap' = heap \cup {<<next_fit(h, n), n, size>>}
                /\ UNCHANGED <<bigblocks, pending>>
          \/ slob_alloc_no_page(n)

\* __kmalloc of a page or more: first the header
kmalloc_header(size) ==
    /\ Ready /\ size >= PAGE_SIZE - SLOB_UNIT
    /\ \/ \E h \in grown(BigUnits) :
             /\ slob_alloc(BigUnits, h)
             /\ pending' = {[bb |-> next_fit(h, BigUnits), size |-> size]}
             /\ UNCHANGED <<heap, bigblocks>>
       \/ slob_alloc_no_page(BigUnits)

\* ... then the pages
kmalloc_pages ==
    /\ fate = "ok"
    /\ \E r \in pending :
          /\ default_alloc_pages(order_pages(r.size))
          /\ bigblocks' = bigblocks \cup {[pages |-> result', n |-> order_pages(r.size),
                                           bb |-> r.bb, size |-> r.size]}
    /\ pending' = {}
    /\ UNCHANGED <<slob, slobfree, heap, slob_pages, fate>>

\* ... or there are none: the header goes back and kmalloc returns NULL
kmalloc_no_pages ==
    /\ fate = "ok"
    /\ \E r \in pending :
          /\ order_pages(r.size) > 1 /\ default_alloc_pages_fail(order_pages(r.size))
          /\ LET h == slob_free(List, r.bb, BigUnits)
             IN slob' = h.free /\ slobfree' = h.at
    /\ pending' = {}
    /\ UNCHANGED <<heap, slob_pages, bigblocks, fate>>

\* ... but a single page is not refused: alloc_pages turns to swap_out, which fails
kmalloc_no_page ==
    /\ fate = "ok" /\ nr_free = 0
    /\ \E r \in pending : order_pages(r.size) = 1
    /\ fate' = "swap_out"
    /\ UNCHANGED <<vars, slob, slobfree, heap, slob_pages, bigblocks, pending>>

\* kfree: an address at the start of a page may be that of a big block
kfree(addr) ==
    /\ Ready
    /\ \/ \E b \in bigblocks :
             /\ b.pages * PageUnits = addr
             /\ default_free_pages(b.pages, b.n)
             /\ bigblocks' = bigblocks \ {b}
             /\ LET h == slob_free(List, b.bb, BigUnits)
                IN slob' = h.free /\ slobfree' = h.at
             /\ UNCHANGED heap
       \/ /\ ~\E b \in bigblocks : b.pages * PageUnits = addr
          /\ \E b \in heap :
                /\ b[1] + 1 = addr
                /\ heap' = heap \ {b}
                /\ LET h == slob_free(List, b[1], b[2])
                   IN slob' = h.free /\ slobfree' = h.at
          /\ UNCHANGED <<vars, bigblocks>>
    /\ UNCHANGED <<slob_pages, pending, fate>>

\* the other users of the page manager
alloc_pages(n) ==
    /\ Ready
    /\ default_alloc_pages(n) \/ (n > 1 /\ default_alloc_pages_fail(n))
    /\ UNCHANGED heapvars

free_pages(base, n) ==
    /\ Ready
    /\ base \notin slob_pages \cup {b.pages : b \in bigblocks}
    /\ default_free_pages(base, n)
    /\ UNCHANGED heapvars

KNext ==
    \/ \E size \in Sizes : kmalloc_small(size) \/ kmalloc_header(size)
    \/ kmalloc_pages \/ kmalloc_no_pages \/ kmalloc_no_page
    \/ \E addr \in 0..(NPAGE * PageUnits) : kfree(addr)
    \/ \E n \in OtherSizes : alloc_pages(n) \/ \E base \in Page : free_pages(base, n)

KSpec == KInit /\ [][KNext]_kvars
-----------------------------------------------------------------------------
Units(b) == b[1]..(b[1] + b[2] - 1)
FreeUnits == slob \ {<<ARENA, 1>>}
Headers == {<<b.bb, BigUnits>> : b \in bigblocks \cup pending}
Given == {<<b[1], b[2]>> : b \in heap} \cup Headers

\* The units of the pages that were cut up are partitioned into free blocks, blocks
\* given out and headers, and free blocks are joined wherever they touch, across
\* pages too; the pages of a big block are its own; slobfree stays on the list.
HeapSound ==
    /\ \A a, b \in FreeUnits \cup Given : a # b => Units(a) \cap Units(b) = {}
    /\ Cardinality(Headers) = Cardinality(bigblocks \cup pending)
    /\ Cardinality(Given) = Cardinality(heap) + Cardinality(Headers)
    /\ UNION {Units(b) : b \in FreeUnits \cup Given}
         = UNION {(p * PageUnits)..(p * PageUnits + PageUnits - 1) : p \in slob_pages}
    /\ \A a, b \in FreeUnits : a[1] + a[2] # b[1]
    /\ \A b \in bigblocks : <<b.pages, b.n>> \in blocks
    /\ \E b \in slob : b[1] = slobfree

\* Sizes for which the bits lost by halving do not matter: up to two pages, and whole
\* pages; PAGE_SIZE \div 2 of them (8 MB) are more than any caller asks for.
WholePages == {k * PAGE_SIZE : k \in 1..(PAGE_SIZE \div 2)}
RoundedUp(size) == size <= 2 * PAGE_SIZE \/ size \in WholePages

\* A block holds what was asked for, in units with the header or in pages; of another
\* size above two pages it may lack bytes, but fewer than it has pages.
BlocksLargeEnough ==
    /\ \A b \in heap : b[2] * SLOB_UNIT >= b[3] + SLOB_UNIT
    /\ \A b \in bigblocks : /\ RoundedUp(b.size) => PAGE_SIZE * b.n >= b.size
                            /\ PAGE_SIZE * b.n + b.n > b.size
=============================================================================
