------------------------------ MODULE PmmSpec ------------------------------
(***************************************************************************)
(* What a physical memory manager promises (struct pmm_manager of          *)
(* kern/mm/pmm.h, first fit as in the comment of default_pmm.c): it keeps  *)
(* a set of free pages.  A request for n pages takes the lowest run of n   *)
(* free pages and fails only if there is none.                             *)
(***************************************************************************)
EXTENDS Integers

CONSTANTS NPAGE, NULL

VARIABLES
    free,    \* the free pages
    result   \* what the last alloc_pages returned

Run(b, n) == b..(b + n - 1)

Init == free = 0..(NPAGE - 1) /\ result = NULL

Fits(n) == {b \in 0..(NPAGE - n) : Run(b, n) \subseteq free}

Alloc(n) ==
    \E b \in Fits(n) :
        /\ \A c \in Fits(n) : b <= c
        /\ free' = free \ Run(b, n)
        /\ result' = b

AllocFails(n) ==
    /\ Fits(n) = {}
    /\ result' = NULL
    /\ UNCHANGED free

Free(b, n) ==
    /\ Run(b, n) \cap free = {}
    /\ free' = free \cup Run(b, n)
    /\ UNCHANGED result

\* a request for NPAGE + 1 pages stands for all that are larger
Next ==
    \/ \E n \in 1..NPAGE : Alloc(n) \/ \E b \in 0..(NPAGE - n) : Free(b, n)
    \/ \E n \in 1..(NPAGE + 1) : AllocFails(n)

Spec == Init /\ [][Next]_<<free, result>>
=============================================================================
