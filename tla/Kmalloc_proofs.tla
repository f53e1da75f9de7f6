--------------------------- MODULE Kmalloc_proofs ---------------------------
(***************************************************************************)
(* Proofs about DefaultPmm and about Kmalloc, which extends it.            *)
(*                                                                         *)
(* First the pages, for any number of them: the list of free blocks stays  *)
(* sound through splits and joins, and implements first fit over a set of  *)
(* pages.  While default_free_pages works, blocks of the list may touch.   *)
(* So what is proved of a list, its sizes and its flags (an area, as in    *)
(* absorb) is split into what always holds (AreaOK) and where blocks touch *)
(* (Touches); the steps of an operation are lemmas about areas.  In the    *)
(* invariant no two blocks touch, and then a run of free pages lies within *)
(* one block.                                                              *)
(*                                                                         *)
(* Then the heap, for pages of any size: the units of the pages that were  *)
(* cut up stay partitioned, blocks are large enough, and the heap uses the *)
(* page manager as DefaultPmm supposes.  Sound relates a list of free      *)
(* blocks, the blocks given out and the pages cut up.  The three things    *)
(* that happen to the heap (a block is taken, a block returns, a page is   *)
(* added) are lemmas about Sound.                                          *)
(***************************************************************************)
EXTENDS Kmalloc, ListLemmas

End(a, k) == a.list[k] + a.prop[a.list[k]]

\* Nonempty blocks within the region, in address order, no two overlapping.
AreaOK(a) ==
    /\ a.list \in Seq(Page) /\ a.prop \in [Page -> Nat]
    /\ a.flag = {a.list[k] : k \in 1..Len(a.list)}
    /\ \A k \in 1..Len(a.list) : a.list[k] < End(a, k) /\ End(a, k) <= NPAGE
    /\ \A k, l \in 1..Len(a.list) : k < l => End(a, k) <= a.list[l]

Touches(a) == {k \in 1..(Len(a.list) - 1) : End(a, k) = a.list[k + 1]}

Covered(a) == {p \in Page : \E k \in 1..Len(a.list) : a.list[k] <= p /\ p < End(a, k)}

Area == [list |-> free_list, prop |-> property, flag |-> PG_property]

BlocksTyped == \A b \in blocks : b \in Page \X (1..NPAGE) /\ b[1] + b[2] <= NPAGE

\* The pages of a set of blocks.
Owned(B) == UNION {Extent(b[1], b[2]) : b \in B}

PmmInv ==
    /\ AreaOK(Area) /\ Touches(Area) = {}
    /\ nr_free = Cardinality(Covered(Area))
    /\ BlocksTyped
    /\ \A a, b \in blocks : a # b => Extent(a[1], a[2]) \cap Extent(b[1], b[2]) = {}
    /\ Owned(blocks) = Page \ Covered(Area)
-----------------------------------------------------------------------------
(* Areas.                                                                  *)

\* The blocks of a list differ, and every number below is an integer.
LEMMA AreaFacts ==
    ASSUME NEW a, AreaOK(a)
    PROVE  /\ Len(a.list) \in Nat
           /\ \A k \in 1..Len(a.list) :
                 /\ a.list[k] \in Page /\ a.list[k] \in Int /\ a.prop[a.list[k]] \in Nat
                 /\ End(a, k) \in Int /\ End(a, k) = a.list[k] + a.prop[a.list[k]]
           /\ \A k, l \in 1..Len(a.list) : k # l => a.list[k] # a.list[l]
<1>1. Len(a.list) \in Nat /\ \A k \in 1..Len(a.list) : a.list[k] \in Page
  BY DEF AreaOK
<1>2. \A k \in 1..Len(a.list) :
                 /\ a.list[k] \in Page /\ a.list[k] \in Int /\ a.prop[a.list[k]] \in Nat
                 /\ End(a, k) \in Int /\ End(a, k) = a.list[k] + a.prop[a.list[k]]
  <2> TAKE k \in 1..Len(a.list)
  <2>1. a.list[k] \in Page /\ a.prop \in [Page -> Nat]
    BY <1>1 DEF AreaOK
  <2>2. a.list[k] \in Int /\ a.prop[a.list[k]] \in Nat
    BY ONLY <2>1, NPAGEAssumption DEF Page
  <2>3. QED
    BY ONLY <2>1, <2>2 DEF End
<1>3. \A k, l \in 1..Len(a.list) : k < l => a.list[k] # a.list[l]
  <2> TAKE k, l \in 1..Len(a.list)
  <2>1. a.list[k] \in Int /\ a.list[l] \in Int /\ End(a, k) \in Int
    BY ONLY <1>2, k \in 1..Len(a.list), l \in 1..Len(a.list)
  <2>2. a.list[k] < End(a, k) /\ (k < l => End(a, k) <= a.list[l])
    BY DEF AreaOK
  <2>3. QED
    BY ONLY <2>1, <2>2
<1>4. QED
  BY <1>1, <1>2, <1>3

LEMMA AreaBlocks ==
    ASSUME NEW a, AreaOK(a)
    PROVE  /\ a.list \in Seq(Page) /\ a.prop \in [Page -> Nat]
           /\ a.flag = {a.list[j] : j \in 1..Len(a.list)}
           /\ \A j \in 1..Len(a.list) :
                 /\ a.list[j] \in Page /\ a.list[j] \in Int /\ End(a, j) \in Int
                 /\ a.list[j] < End(a, j) /\ End(a, j) <= NPAGE
                 /\ End(a, j) = a.list[j] + a.prop[a.list[j]] /\ a.prop[a.list[j]] \in Nat
           /\ \A j, l \in 1..Len(a.list) : j < l => End(a, j) <= a.list[l]
           /\ Len(a.list) \in Nat /\ NPAGE \in Int
<1>1. /\ a.list \in Seq(Page) /\ a.prop \in [Page -> Nat]
      /\ a.flag = {a.list[j] : j \in 1..Len(a.list)}
      /\ \A j \in 1..Len(a.list) : a.list[j] < End(a, j) /\ End(a, j) <= NPAGE
      /\ \A j, l \in 1..Len(a.list) : j < l => End(a, j) <= a.list[l]
  BY DEF AreaOK
<1>2. Len(a.list) \in Nat /\ NPAGE \in Int
  BY ONLY <1>1, NPAGEAssumption
<1>3. \A j \in 1..Len(a.list) :
         /\ a.list[j] \in Page /\ a.list[j] \in Int /\ End(a, j) \in Int
         /\ End(a, j) = a.list[j] + a.prop[a.list[j]] /\ a.prop[a.list[j]] \in Nat
  BY AreaFacts
<1>4. QED
  BY ONLY <1>1, <1>2, <1>3

LEMMA SameArea ==
    ASSUME NEW a, NEW b, b.list = a.list, b.prop = a.prop, b.flag = a.flag
    PROVE  (AreaOK(a) => AreaOK(b)) /\ Touches(b) = Touches(a) /\ Covered(b) = Covered(a)
  BY DEF AreaOK, Touches, Covered, End

\* Two entries of the property table assigned in one step.
LEMMA ExceptTwice ==
    ASSUME NEW S, NEW f \in [S -> Nat], NEW x \in S, NEW y \in S, NEW v \in Nat, NEW w \in Nat,
           NEW g, g = [f EXCEPT ![x] = v, ![y] = w]
    PROVE  /\ g \in [S -> Nat]
           /\ \A p \in S : g[p] = IF p = y THEN w ELSE IF p = x THEN v ELSE f[p]
<1> DEFINE h == [f EXCEPT ![x] = v]
<1>2. h \in [S -> Nat] /\ \A p \in S : h[p] = IF p = x THEN v ELSE f[p]
  OBVIOUS
<1>3. g = [h EXCEPT ![y] = w]
  OBVIOUS
<1> HIDE DEF h
<1>4. g \in [S -> Nat] /\ \A p \in S : g[p] = IF p = y THEN w ELSE h[p]
  BY ONLY <1>2, <1>3, y \in S, w \in Nat
<1>5. QED
  BY ONLY <1>2, <1>4

\* absorb of two blocks that touch: the pages stay, and so do the other gaps.
LEMMA AbsorbJoins ==
    ASSUME NEW a, AreaOK(a), NEW k \in Touches(a)
    PROVE  /\ AreaOK(absorb(a, k)) /\ Covered(absorb(a, k)) = Covered(a)
           /\ absorb(a, k) # a
           /\ \A t \in Touches(absorb(a, k)) : IF t < k THEN t \in Touches(a) ELSE t + 1 \in Touches(a)
<1> DEFINE b == absorb(a, k)
           x == a.list[k]
           y == a.list[k + 1]
<1>0. /\ Len(a.list) \in Nat /\ k \in Int /\ 1 <= k /\ k < Len(a.list)
      /\ k \in 1..Len(a.list) /\ k + 1 \in 1..Len(a.list) /\ k \in 1..(Len(a.list) - 1)
      /\ x \in Page /\ y \in Page /\ x # y /\ End(a, k) = y
  BY AreaFacts DEF Touches
<1>1. /\ b = [list |-> RemoveAt(a.list, k + 1),
              prop |-> [a.prop EXCEPT ![x] = @ + a.prop[y], ![y] = 0],
              flag |-> a.flag \ {y}]
  BY <1>0 DEF absorb, End
<1>2. /\ b.list = RemoveAt(a.list, k + 1)
      /\ b.prop = [a.prop EXCEPT ![x] = @ + a.prop[y], ![y] = 0]
      /\ b.flag = a.flag \ {y}
  BY <1>1
<1> HIDE DEF b
<1>3. /\ b.list \in Seq(Page) /\ Len(b.list) = Len(a.list) - 1
      /\ \A j \in 1..(Len(a.list) - 1) :
            b.list[j] = IF j < k + 1 THEN a.list[j] ELSE a.list[j + 1]
  <2>1. a.list \in Seq(Page)
    BY DEF AreaOK
  <2>2. k + 1 \in 1..Len(a.list)
    BY <1>0
  <2>3. /\ RemoveAt(a.list, k + 1) \in Seq(Page) /\ Len(RemoveAt(a.list, k + 1)) = Len(a.list) - 1
        /\ \A j \in 1..(Len(a.list) - 1) :
              RemoveAt(a.list, k + 1)[j] = IF j < k + 1 THEN a.list[j] ELSE a.list[j + 1]
    BY ONLY <2>1, <2>2, RemoveAtProperties, Zenon
  <2>4. QED
    BY ONLY <1>2, <2>3
<1>4. /\ b.prop \in [Page -> Nat]
      /\ \A p \in Page : b.prop[p] = IF p = y THEN 0 ELSE IF p = x THEN a.prop[x] + a.prop[y] ELSE a.prop[p]
  <2>1. a.prop \in [Page -> Nat]
    BY DEF AreaOK
  <2> DEFINE v == a.prop[x] + a.prop[y]
  <2>2. v \in Nat /\ x \in Page /\ y \in Page /\ 0 \in Nat
    BY <1>0, <2>1
  <2>3. b.prop = [a.prop EXCEPT ![x] = v, ![y] = 0]
    BY ONLY <1>2
  <2> HIDE DEF v, x, y
  <2>4. /\ b.prop \in [Page -> Nat]
        /\ \A p \in Page : b.prop[p] = IF p = y THEN 0 ELSE IF p = x THEN v ELSE a.prop[p]
    BY ONLY <2>1, <2>2, <2>3, ExceptTwice
  <2>5. QED
    BY ONLY <2>4 DEF v
<1> DEFINE N == Len(a.list)
<1>5. \A j \in 1..(N - 1) : /\ j <= k => b.list[j] = a.list[j]
                            /\ j > k => b.list[j] = a.list[j + 1]
                            /\ j \in 1..N /\ j + 1 \in 1..N /\ j \in Int
  BY <1>0, <1>3
<1>6. \A j \in 1..(N - 1) : /\ j < k => End(b, j) = End(a, j)
                            /\ j >= k => End(b, j) = End(a, j + 1)
  <2> SUFFICES ASSUME NEW j \in 1..(N - 1)
               PROVE  (j < k => End(b, j) = End(a, j)) /\ (j >= k => End(b, j) = End(a, j + 1))
    OBVIOUS
  <2>1. CASE j < k
    <3>0. j \in 1..N /\ j # k /\ j # k + 1 /\ j <= k
      BY <1>0, <2>1
    <3>1. b.list[j] = a.list[j] /\ a.list[j] # x /\ a.list[j] # y /\ a.list[j] \in Page
      BY <1>0, <1>5, <3>0, AreaFacts
    <3>2. QED
      BY <1>0, <1>4, <2>1, <3>1 DEF End
  <2>2. CASE j = k
    <3>1. b.list[j] = x /\ b.prop[x] = a.prop[x] + a.prop[y]
      BY <1>0, <1>4, <1>5, <2>2
    <3>2. x + a.prop[x] = y /\ x \in Int /\ y \in Int /\ a.prop[x] \in Int /\ a.prop[y] \in Int
      <4>1. \A l \in 1..Len(a.list) : /\ a.list[l] \in Int /\ a.prop[a.list[l]] \in Nat
                                     /\ End(a, l) = a.list[l] + a.prop[a.list[l]]
        BY AreaFacts
      <4>2. QED
        BY ONLY <1>0, <4>1
    <3>3. End(b, j) = x + (a.prop[x] + a.prop[y]) /\ End(a, j + 1) = y + a.prop[y]
      BY ONLY <2>2, <3>1 DEF End
    <3>4. End(b, j) = End(a, j + 1)
      BY ONLY <3>2, <3>3
    <3>5. QED
      BY <1>0, <2>2, <3>4
  <2>3. CASE j > k
    <3>1. j + 1 \in 1..N /\ j + 1 # k /\ j + 1 # k + 1
      BY <1>0, <2>3
    <3>2. b.list[j] = a.list[j + 1] /\ a.list[j + 1] # x /\ a.list[j + 1] # y /\ a.list[j + 1] \in Page
      BY <1>0, <1>5, <2>3, <3>1, AreaFacts
    <3>3. QED
      BY <1>0, <1>4, <2>3, <3>2 DEF End
  <2>4. QED
    BY <1>0, <2>1, <2>2, <2>3
<1>7. /\ \A j \in 1..N : a.list[j] \in Int /\ End(a, j) \in Int /\ a.list[j] < End(a, j) /\ End(a, j) <= NPAGE
      /\ \A j, l \in 1..N : j < l => End(a, j) <= a.list[l]
  BY AreaFacts DEF AreaOK
<1> HIDE DEF N, x, y
<1>8. b.flag = {b.list[j] : j \in 1..Len(b.list)}
  <2>1. a.flag = {a.list[j] : j \in 1..N} /\ Len(b.list) = N - 1
    BY <1>3 DEF AreaOK, N
  <2>2. ASSUME NEW j \in 1..N, a.list[j] # y PROVE \E i \in 1..(N - 1) : b.list[i] = a.list[j]
    <3>1. j # k + 1
      BY <2>2 DEF y
    <3>2. CASE j <= k
      <4>1. j \in 1..(N - 1)
        BY <1>0, <3>2 DEF N
      <4>2. QED
        BY ONLY <1>5, <3>2, <4>1
    <3>3. CASE j > k + 1
      <4>1. j - 1 \in 1..(N - 1) /\ j - 1 > k /\ (j - 1) + 1 = j
        BY <1>0, <3>3 DEF N
      <4>2. QED
        BY <1>5, <4>1
    <3>4. QED
      BY <1>0, <3>1, <3>2, <3>3 DEF N
  <2>3. ASSUME NEW j \in 1..(N - 1) PROVE b.list[j] # y /\ \E i \in 1..N : b.list[j] = a.list[i]
    <3>1. CASE j <= k
      BY <1>0, <1>5, <3>1, AreaFacts DEF N, y
    <3>2. CASE j > k
      BY <1>0, <1>5, <3>2, AreaFacts DEF N, y
    <3>3. QED
      BY <1>0, <3>1, <3>2 DEF N
  <2>4. QED
    BY <1>2, <2>1, <2>2, <2>3
<1>9. /\ \A j \in 1..(N - 1) : b.list[j] < End(b, j) /\ End(b, j) <= NPAGE
      /\ \A j, l \in 1..(N - 1) : j < l => End(b, j) <= b.list[l]
  <2>0. NPAGE \in Int
    BY NPAGEAssumption
  <2>1. ASSUME NEW j \in 1..(N - 1) PROVE b.list[j] < End(b, j) /\ End(b, j) <= NPAGE
    <3>0. j \in 1..N /\ j + 1 \in 1..N /\ j \in Int
      BY <1>5
    <3>1. CASE j < k
      <4>1. b.list[j] = a.list[j] /\ End(b, j) = End(a, j)
        BY <1>0, <1>5, <1>6, <3>0, <3>1
      <4>2. QED
        BY <1>7, <3>0, <4>1
    <3>2. CASE j = k
      <4>1. b.list[j] = a.list[j] /\ End(b, j) = End(a, j + 1) /\ j < j + 1
        BY <1>0, <1>5, <1>6, <3>0, <3>2
      <4>2. a.list[j] < End(a, j) /\ End(a, j) <= a.list[j + 1] /\ a.list[j + 1] < End(a, j + 1)
        BY <1>7, <3>0, <4>1
      <4>3. QED
        BY <1>7, <2>0, <3>0, <4>1, <4>2
    <3>3. CASE j > k
      <4>1. b.list[j] = a.list[j + 1] /\ End(b, j) = End(a, j + 1)
        BY <1>0, <1>5, <1>6, <3>0, <3>3
      <4>2. QED
        BY <1>7, <3>0, <4>1
    <3>4. QED
      BY <1>0, <3>0, <3>1, <3>2, <3>3
  <2>2. ASSUME NEW j \in 1..(N - 1), NEW l \in 1..(N - 1), j < l PROVE End(b, j) <= b.list[l]
    <3>0. j \in 1..N /\ j + 1 \in 1..N /\ j \in Int /\ l \in 1..N /\ l + 1 \in 1..N /\ l \in Int
      BY <1>5
    <3>1. CASE l <= k
      <4>1. b.list[l] = a.list[l] /\ End(b, j) = End(a, j)
        BY <1>0, <1>5, <1>6, <2>2, <3>0, <3>1
      <4>2. QED
        BY <1>7, <2>2, <3>0, <4>1
    <3>2. CASE l > k /\ j < k
      <4>1. b.list[l] = a.list[l + 1] /\ End(b, j) = End(a, j) /\ j < l + 1
        BY <1>0, <1>5, <1>6, <2>2, <3>0, <3>2
      <4>2. QED
        BY <1>7, <3>0, <4>1
    <3>3. CASE j >= k
      <4>1. b.list[l] = a.list[l + 1] /\ End(b, j) = End(a, j + 1) /\ j + 1 < l + 1
        BY <1>0, <1>5, <1>6, <2>2, <3>0, <3>3
      <4>2. QED
        BY <1>7, <3>0, <4>1
    <3>4. QED
      BY <1>0, <3>0, <3>1, <3>2, <3>3
  <2>3. QED
    BY <2>1, <2>2
<1>10. AreaOK(b)
  BY <1>3, <1>4, <1>8, <1>9 DEF AreaOK, N
<1>11. Covered(b) = Covered(a)
  <2>1. ASSUME NEW p \in Page, NEW j \in 1..(N - 1), b.list[j] <= p, p < End(b, j)
        PROVE  \E i \in 1..N : a.list[i] <= p /\ p < End(a, i)
    <3>1. CASE j < k
      <4>1. b.list[j] = a.list[j] /\ End(b, j) = End(a, j) /\ j \in 1..N
        BY <1>0, <1>5, <1>6, <3>1
      <4>2. QED
        BY <2>1, <4>1
    <3>2. CASE j = k
      <4>1. b.list[j] = a.list[k] /\ End(b, j) = End(a, k + 1) /\ p \in Int /\ a.list[k + 1] = End(a, k)
        BY <1>0, <1>5, <1>6, <3>2, NPAGEAssumption DEF N, Page, y
      <4>2. QED
        BY <1>0, <1>7, <2>1, <4>1 DEF N
    <3>3. CASE j > k
      <4>1. b.list[j] = a.list[j + 1] /\ End(b, j) = End(a, j + 1) /\ j + 1 \in 1..N
        BY <1>0, <1>5, <1>6, <3>3
      <4>2. QED
        BY <2>1, <4>1
    <3>4. QED
      BY <1>0, <3>1, <3>2, <3>3 DEF N
  <2>2. ASSUME NEW p \in Page, NEW i \in 1..N, a.list[i] <= p, p < End(a, i)
        PROVE  \E j \in 1..(N - 1) : b.list[j] <= p /\ p < End(b, j)
    <3>0. p \in Int
      BY NPAGEAssumption DEF Page
    <3>1. CASE i < k
      <4>0. i \in 1..(N - 1) /\ i <= k
        BY ONLY <1>0, <2>2, <3>1 DEF N
      <4>1. b.list[i] = a.list[i]
        BY ONLY <1>5, <4>0
      <4>2. End(b, i) = End(a, i)
        BY ONLY <1>6, <3>1, <4>0
      <4>3. QED
        BY ONLY <2>2, <4>0, <4>1, <4>2
    <3>2. CASE i \in {k, k + 1}
      <4>0. k \in 1..(N - 1) /\ k <= k /\ k >= k
        BY ONLY <1>0 DEF N
      <4>1. k \in 1..(N - 1) /\ b.list[k] = a.list[k] /\ End(b, k) = End(a, k + 1)
        BY ONLY <1>5, <1>6, <4>0
      <4>2. a.list[k] <= a.list[k + 1] /\ End(a, k) <= End(a, k + 1)
        BY <1>0, <1>7 DEF N, y
      <4>3. /\ a.list[k] \in Int /\ a.list[k + 1] \in Int /\ End(a, k) \in Int
            /\ End(a, k + 1) \in Int
        BY ONLY <1>0, <1>7 DEF N
      <4>4. a.list[k] <= p /\ p < End(a, k + 1)
        BY ONLY <2>2, <3>0, <3>2, <4>2, <4>3
      <4>5. QED
        BY ONLY <4>1, <4>4
    <3>3. CASE i > k + 1
      <4>1. i - 1 \in 1..(N - 1) /\ i - 1 > k /\ (i - 1) + 1 = i
        BY <1>0, <3>3 DEF N
      <4>2. QED
        BY <1>0, <1>5, <1>6, <2>2, <4>1
    <3>4. QED
      BY <1>0, <3>1, <3>2, <3>3 DEF N
  <2>3. QED
    BY <1>3, <2>1, <2>2 DEF Covered, N
<1>12. b # a
  BY <1>0, <1>3
<1>13. ASSUME NEW t \in Touches(b)
       PROVE  IF t < k THEN t \in Touches(a) ELSE t + 1 \in Touches(a)
  <2>1. t \in 1..(N - 2) /\ End(b, t) = b.list[t + 1] /\ t + 1 \in 1..(N - 1) /\ t \in 1..(N - 1)
    BY <1>0, <1>3 DEF Touches, N
  <2>2. CASE t < k
    BY <1>0, <1>5, <1>6, <2>1, <2>2 DEF Touches, N
  <2>3. CASE t >= k
    BY <1>0, <1>5, <1>6, <2>1, <2>3 DEF Touches, N
  <2>4. QED
    BY <1>0, <2>1, <2>2, <2>3 DEF N
<1>14. QED
  BY <1>10, <1>11, <1>12, <1>13 DEF b

\* The first loop of default_free_pages: a block that was not free goes where the
\* addresses say, and may touch its two neighbours.
LEMMA LinkBlock ==
    ASSUME NEW a, AreaOK(a), Touches(a) = {},
           NEW base \in Page, NEW n \in 1..NPAGE, base + n <= NPAGE,
           Extent(base, n) \cap Covered(a) = {},
           NEW i \in 1..(Len(a.list) + 1),
           \A j \in 1..(i - 1) : a.list[j] <= base, \A j \in i..Len(a.list) : base < a.list[j],
           NEW b, b = [list |-> InsertAt(a.list, i, base),
                       prop |-> [a.prop EXCEPT ![base] = n],
                       flag |-> a.flag \cup {base}]
    PROVE  /\ AreaOK(b) /\ Covered(b) = Covered(a) \cup Extent(base, n)
           /\ Touches(b) \subseteq {i - 1, i} /\ Len(b.list) = Len(a.list) + 1
<1> DEFINE N == Len(a.list)
<1>0. /\ N \in Nat /\ i \in Int /\ base \in Int /\ n \in Int /\ 1 <= n /\ 0 <= base /\ NPAGE \in Int
      /\ 1 <= i /\ i <= N + 1
  BY AreaFacts, NPAGEAssumption DEF Page
<1>1. /\ b.list = InsertAt(a.list, i, base) /\ b.prop = [a.prop EXCEPT ![base] = n]
      /\ b.flag = a.flag \cup {base}
  OBVIOUS
<1>2. /\ a.list \in Seq(Page) /\ a.prop \in [Page -> Nat] /\ a.flag = {a.list[j] : j \in 1..N}
      /\ \A j \in 1..N : /\ a.list[j] \in Page /\ a.list[j] \in Int /\ End(a, j) \in Int
                         /\ a.list[j] < End(a, j) /\ End(a, j) <= NPAGE
      /\ \A j, l \in 1..N : j < l => End(a, j) <= a.list[l]
  BY AreaFacts DEF AreaOK
<1>3. /\ b.list \in Seq(Page) /\ Len(b.list) = N + 1
      /\ \A j \in 1..(i - 1) : b.list[j] = a.list[j]
      /\ b.list[i] = base
      /\ \A j \in (i + 1)..(N + 1) : b.list[j] = a.list[j - 1]
  <2>1. a.list \in Seq(Page) /\ i \in 1..(Len(a.list) + 1) /\ base \in Page
    BY <1>2
  <2>2. /\ InsertAt(a.list, i, base) \in Seq(Page) /\ Len(InsertAt(a.list, i, base)) = Len(a.list) + 1
        /\ \A j \in 1..(i - 1) : InsertAt(a.list, i, base)[j] = a.list[j]
        /\ InsertAt(a.list, i, base)[i] = base
        /\ \A j \in (i + 1)..(Len(a.list) + 1) : InsertAt(a.list, i, base)[j] = a.list[j - 1]
    <3> DEFINE s == a.list
    <3>1. s \in Seq(Page) /\ i \in 1..(Len(s) + 1) /\ base \in Page
      BY <2>1
    <3> HIDE DEF s
    <3>2. InsertAt(s, i, base) \in Seq(Page) /\ Len(InsertAt(s, i, base)) = Len(s) + 1
      BY ONLY <3>1, InsertAtProperties
    <3>3. \A j \in 1..(i - 1) : InsertAt(s, i, base)[j] = s[j]
      BY ONLY <3>1, InsertAtProperties
    <3>4. InsertAt(s, i, base)[i] = base
      BY ONLY <3>1, InsertAtProperties
    <3>5. \A j \in (i + 1)..(Len(s) + 1) : InsertAt(s, i, base)[j] = s[j - 1]
      BY ONLY <3>1, InsertAtProperties
    <3>6. QED
      BY ONLY <3>2, <3>3, <3>4, <3>5 DEF s
  <2>3. QED
    BY ONLY <1>1, <2>2 DEF N
<1>4. ASSUME NEW j \in 1..N PROVE (j < i => End(a, j) <= base) /\ (j >= i => base + n <= a.list[j])
  <2>1. ASSUME j < i, base < End(a, j) PROVE FALSE
    <3>1. a.list[j] <= base
      BY <1>0, <2>1
    <3>2. base \in Covered(a)
      BY <2>1, <3>1 DEF Covered
    <3>3. base \in Extent(base, n)
      BY <1>0 DEF Extent
    <3>4. QED
      BY <3>2, <3>3
  <2>2. ASSUME j >= i, a.list[j] < base + n PROVE FALSE
    <3>1. base < a.list[j]
      BY <1>0, <2>2
    <3>2. a.list[j] \in Extent(base, n)
      BY <1>0, <1>2, <2>2, <3>1 DEF Extent
    <3>3. a.list[j] \in Covered(a)
      BY <1>2 DEF Covered
    <3>4. QED
      BY <3>2, <3>3
  <2>3. QED
    BY <1>0, <1>2, <2>1, <2>2
<1>5. \A j \in 1..N : a.list[j] # base
  BY <1>0, <1>2, <1>4
<1>6. /\ b.prop \in [Page -> Nat] /\ b.prop[base] = n
      /\ \A j \in 1..N : b.prop[a.list[j]] = a.prop[a.list[j]]
  BY <1>0, <1>1, <1>2, <1>5
<1> HIDE DEF N
<1>7. /\ i \in 1..(N + 1) /\ b.list[i] = base /\ End(b, i) = base + n
      /\ \A j \in 1..(i - 1) : j \in 1..N /\ b.list[j] = a.list[j] /\ End(b, j) = End(a, j)
      /\ \A j \in (i + 1)..(N + 1) :
            j - 1 \in 1..N /\ b.list[j] = a.list[j - 1] /\ End(b, j) = End(a, j - 1)
  <2>1. \A j \in 1..(i - 1) : j \in 1..N
    BY <1>0
  <2>2. \A j \in (i + 1)..(N + 1) : j - 1 \in 1..N
    BY <1>0
  <2>3. i \in 1..(N + 1)
    BY <1>0
  <2>4. QED
    BY <1>3, <1>6, <2>1, <2>2, <2>3 DEF End
<1>8. ASSUME NEW j \in 1..(N + 1)
      PROVE  /\ j \in 1..(i - 1) \/ j = i \/ j \in (i + 1)..(N + 1)
             /\ j \in Int /\ b.list[j] \in Int /\ End(b, j) \in Int
             /\ b.list[j] < End(b, j) /\ End(b, j) <= NPAGE
  <2>1. j \in 1..(i - 1) \/ j = i \/ j \in (i + 1)..(N + 1)
    BY <1>0
  <2>2. CASE j \in 1..(i - 1)
    <3>1. j \in 1..N /\ b.list[j] = a.list[j] /\ End(b, j) = End(a, j)
      BY <1>7, <2>2
    <3>2. QED
      BY <1>2, <2>1, <3>1
  <2>3. CASE j = i
    BY <1>0, <1>7, <2>3
  <2>4. CASE j \in (i + 1)..(N + 1)
    <3>1. j - 1 \in 1..N /\ b.list[j] = a.list[j - 1] /\ End(b, j) = End(a, j - 1)
      BY <1>7, <2>4
    <3>2. QED
      BY <1>2, <2>1, <3>1
  <2>5. QED
    BY <2>1, <2>2, <2>3, <2>4
<1>9. ASSUME NEW j \in 1..(N + 1), NEW l \in 1..(N + 1), j < l
      PROVE  End(b, j) <= b.list[l]
  <2>1. CASE j \in 1..(i - 1) /\ l \in 1..(i - 1)
    BY <1>2, <1>7, <1>9, <2>1
  <2>2. CASE j \in 1..(i - 1) /\ l = i
    <3>1. j \in 1..N /\ j < i
      BY <1>0, <1>7, <2>2
    <3>2. QED
      BY <1>4, <1>7, <2>2, <3>1
  <2>3. CASE j \in 1..(i - 1) /\ l \in (i + 1)..(N + 1)
    <3>1. j \in 1..N /\ l - 1 \in 1..N /\ j < l - 1
      BY <1>0, <1>7, <2>3
    <3>2. QED
      BY <1>2, <1>7, <2>3, <3>1
  <2>4. CASE j = i /\ l \in (i + 1)..(N + 1)
    <3>1. l - 1 \in 1..N /\ l - 1 >= i
      BY <1>0, <1>7, <2>4
    <3>2. QED
      BY <1>4, <1>7, <2>4, <3>1
  <2>5. CASE j \in (i + 1)..(N + 1) /\ l \in (i + 1)..(N + 1)
    <3>1. j - 1 \in 1..N /\ l - 1 \in 1..N /\ j - 1 < l - 1
      BY <1>0, <1>7, <1>9, <2>5
    <3>2. QED
      BY <1>2, <1>7, <2>5, <3>1
  <2>6. QED
    <3>1. ~(l <= j)
      BY <1>8, <1>9
    <3>2. ~(j = i /\ l \in 1..i) /\ ~(j \in (i + 1)..(N + 1) /\ l \in 1..i)
      BY <1>0, <3>1
    <3>3. (l \in 1..(i - 1) \/ l = i) => l \in 1..i
      BY <1>0
    <3>4. QED
      BY <1>8, <2>1, <2>2, <2>3, <2>4, <2>5, <3>2, <3>3
<1>10. b.flag = {b.list[j] : j \in 1..Len(b.list)}
  <2>1. ASSUME NEW j \in 1..N PROVE \E l \in 1..(N + 1) : b.list[l] = a.list[j]
    <3>1. CASE j < i
      <4>1. j \in 1..(i - 1) /\ j \in 1..(N + 1)
        BY <1>0, <3>1
      <4>2. QED
        BY <1>7, <4>1
    <3>2. CASE j >= i
      <4>1. j + 1 \in (i + 1)..(N + 1) /\ j + 1 \in 1..(N + 1) /\ (j + 1) - 1 = j
        BY <1>0, <3>2
      <4>2. QED
        BY <1>7, <4>1
    <3>3. QED
      BY <1>0, <3>1, <3>2
  <2>2. ASSUME NEW l \in 1..(N + 1) PROVE b.list[l] = base \/ \E j \in 1..N : b.list[l] = a.list[j]
    BY <1>7, <1>8
  <2>3. base \in {b.list[l] : l \in 1..(N + 1)}
    BY <1>7
  <2>4. a.flag \subseteq {b.list[l] : l \in 1..(N + 1)}
    BY <1>2, <2>1
  <2>5. {b.list[l] : l \in 1..(N + 1)} \subseteq a.flag \cup {base}
    BY <1>2, <2>2
  <2>6. QED
    BY <1>1, <1>3, <2>3, <2>4, <2>5
<1>11. AreaOK(b)
  BY <1>3, <1>6, <1>8, <1>9, <1>10 DEF AreaOK
<1>12. Covered(b) = Covered(a) \cup Extent(base, n)
  <2>1. ASSUME NEW p \in Page, NEW l \in 1..(N + 1), b.list[l] <= p, p < End(b, l)
        PROVE  p \in Covered(a) \cup Extent(base, n)
    <3>0. p \in Int
      BY NPAGEAssumption DEF Page
    <3>1. CASE l = i
      BY <1>0, <1>7, <2>1, <3>0, <3>1 DEF Extent
    <3>2. CASE l \in 1..(i - 1)
      BY <1>7, <2>1, <3>2 DEF Covered, N
    <3>3. CASE l \in (i + 1)..(N + 1)
      BY <1>7, <2>1, <3>3 DEF Covered, N
    <3>4. QED
      BY <1>8, <3>1, <3>2, <3>3
  <2>2. ASSUME NEW p \in Covered(a) PROVE p \in Covered(b)
    <3>1. PICK j \in 1..N : a.list[j] <= p /\ p < End(a, j)
      BY DEF Covered, N
    <3>2. CASE j < i
      <4>1. j \in 1..(i - 1) /\ j \in 1..(N + 1)
        BY <1>0, <3>2
      <4>2. QED
        BY <1>3, <1>7, <3>1, <4>1 DEF Covered
    <3>3. CASE j >= i
      <4>1. j + 1 \in (i + 1)..(N + 1) /\ j + 1 \in 1..(N + 1) /\ (j + 1) - 1 = j
        BY <1>0, <3>3
      <4>2. b.list[j + 1] = a.list[j] /\ End(b, j + 1) = End(a, j)
        BY <1>7, <4>1
      <4>3. QED
        BY <1>3, <3>1, <4>1, <4>2 DEF Covered
    <3>4. QED
      BY <1>0, <3>2, <3>3
  <2>3. ASSUME NEW p \in Extent(base, n) PROVE p \in Covered(b)
    <3>1. p \in Int /\ base <= p /\ p < base + n
      BY <1>0 DEF Extent
    <3>2. p \in Page
      BY <1>0, <3>1 DEF Page
    <3>3. QED
      BY <1>3, <1>7, <3>1, <3>2 DEF Covered
  <2>4. QED
    BY <1>3, <2>1, <2>2, <2>3 DEF Covered
<1>13. Touches(b) \subseteq {i - 1, i}
  <2> SUFFICES ASSUME NEW t \in Touches(b), t # i - 1, t # i PROVE FALSE
    OBVIOUS
  <2>1. t \in 1..N /\ t \in Int /\ End(b, t) = b.list[t + 1]
    BY <1>0, <1>3 DEF Touches
  <2>2. CASE t < i - 1
    <3>1. t \in 1..(i - 1) /\ t + 1 \in 1..(i - 1) /\ t \in 1..(N - 1)
      BY <1>0, <2>1, <2>2
    <3>2. End(a, t) = a.list[t + 1]
      BY <1>7, <2>1, <3>1
    <3>3. QED
      BY <3>1, <3>2 DEF Touches, N
  <2>3. CASE t > i
    <3>0. t <= N
      BY <1>0, <2>1
    <3>1. t \in (i + 1)..(N + 1) /\ t + 1 \in (i + 1)..(N + 1)
      BY <1>0, <2>1, <2>3, <3>0
    <3>2. t - 1 \in 1..(N - 1) /\ (t + 1) - 1 = (t - 1) + 1
      BY <1>0, <2>1, <2>3, <3>0
    <3>3. End(a, t - 1) = a.list[(t + 1) - 1]
      BY <1>7, <2>1, <3>1
    <3>4. QED
      BY <3>2, <3>3 DEF Touches, N
  <2>4. QED
    BY <1>0, <2>1, <2>2, <2>3
<1>14. QED
  BY <1>3, <1>11, <1>12, <1>13 DEF N

\* The free pages of b are those of a without the n pages from base.
CoveredLess(b, a, base, n) == Covered(b) = Covered(a) \ Extent(base, n)

\* default_alloc_pages takes the front of a block: the rest takes its place.
LEMMA TakeFront ==
    ASSUME NEW a, AreaOK(a), Touches(a) = {},
           NEW i \in 1..Len(a.list), NEW n \in Nat \ {0}, n < a.prop[a.list[i]],
           NEW b, b = [list |-> [a.list EXCEPT ![i] = a.list[i] + n],
                       prop |-> [a.prop EXCEPT ![a.list[i]] = 0,
                                               ![a.list[i] + n] = a.prop[a.list[i]] - n],
                       flag |-> (a.flag \ {a.list[i]}) \cup {a.list[i] + n}]
    PROVE  AreaOK(b) /\ Touches(b) = {} /\ CoveredLess(b, a, a.list[i], n)
<1> DEFINE N == Len(a.list)
           x == a.list[i]
           p == x + n
<1>1. /\ b.list = [a.list EXCEPT ![i] = p] /\ b.prop = [a.prop EXCEPT ![x] = 0, ![p] = a.prop[x] - n]
      /\ b.flag = (a.flag \ {x}) \cup {p}
  OBVIOUS
<1>2. /\ a.list \in Seq(Page) /\ a.prop \in [Page -> Nat] /\ a.flag = {a.list[j] : j \in 1..N}
      /\ \A j \in 1..N : /\ a.list[j] \in Page /\ a.list[j] \in Int /\ End(a, j) \in Int
                         /\ a.list[j] < End(a, j) /\ End(a, j) <= NPAGE
                         /\ End(a, j) = a.list[j] + a.prop[a.list[j]] /\ a.prop[a.list[j]] \in Nat
      /\ \A j, l \in 1..N : j < l => End(a, j) <= a.list[l]
      /\ N \in Nat /\ NPAGE \in Int
  BY AreaBlocks
<1>3. x \in Int /\ p \in Int /\ x < p /\ p < End(a, i) /\ p \in Page /\ x \in Page /\ x >= 0
  <2>1. /\ x \in Page /\ x \in Int /\ End(a, i) \in Int /\ End(a, i) <= NPAGE
        /\ End(a, i) = x + a.prop[x] /\ a.prop[x] \in Nat /\ n \in Nat /\ n # 0 /\ n < a.prop[x]
    BY <1>2
  <2>2. x >= 0
    BY ONLY <2>1, NPAGEAssumption DEF Page
  <2>3. p \in Int /\ x < p /\ p < End(a, i)
    BY ONLY <2>1
  <2>4. p \in Page
    BY ONLY <2>1, <2>2, <2>3, NPAGEAssumption DEF Page
  <2>5. QED
    BY ONLY <2>1, <2>2, <2>3, <2>4
<1>4. \A j \in 1..N : j # i => a.list[j] # x /\ a.list[j] # p
  <2> SUFFICES ASSUME NEW j \in 1..N, j # i PROVE a.list[j] # x /\ a.list[j] # p
    OBVIOUS
  <2>1. CASE j < i
    <3>1. End(a, j) <= x
      BY <1>2, <2>1
    <3>2. a.list[j] < End(a, j) /\ a.list[j] \in Int /\ End(a, j) \in Int
      BY <1>2
    <3>3. QED
      BY ONLY <1>3, <3>1, <3>2
  <2>2. CASE i < j
    <3>1. End(a, i) <= a.list[j]
      BY <1>2, <2>2
    <3>2. a.list[j] \in Int /\ End(a, i) \in Int
      BY <1>2
    <3>3. QED
      BY ONLY <1>3, <3>1, <3>2
  <2>3. QED
    BY <2>1, <2>2
<1> HIDE DEF x, p, N
<1>5. /\ b.list \in Seq(Page) /\ Len(b.list) = N /\ b.list[i] = p
      /\ \A j \in 1..N : j # i => b.list[j] = a.list[j]
  <2>1. i \in 1..Len(a.list) /\ DOMAIN a.list = 1..Len(a.list)
    BY <1>2
  <2>2. b.list \in Seq(Page) /\ Len(b.list) = Len(a.list)
    BY <1>1, <1>2, <1>3, <2>1, ExceptSeq
  <2>3. QED
    BY <1>1, <1>2, <2>1, <2>2 DEF N
<1>6. /\ b.prop \in [Page -> Nat] /\ b.prop[p] = a.prop[x] - n
      /\ \A j \in 1..N : j # i => b.prop[a.list[j]] = a.prop[a.list[j]]
  <2>0. a.prop[x] \in Nat /\ n \in Nat /\ n < a.prop[x]
    BY <1>2 DEF x, N
  <2>1. a.prop[x] - n \in Nat
    BY ONLY <2>0
  <2>2. QED
    BY <1>1, <1>2, <1>3, <1>4, <2>1
<1>7. /\ End(b, i) = End(a, i)
      /\ \A j \in 1..N : j # i => End(b, j) = End(a, j)
  <2>1. End(b, i) = p + (a.prop[x] - n)
    BY <1>5, <1>6 DEF End
  <2>2. End(a, i) = x + a.prop[x] /\ a.prop[x] \in Nat
    BY <1>2 DEF x, N
  <2>3. End(b, i) = End(a, i)
    BY <1>3, <2>1, <2>2 DEF p
  <2>4. QED
    BY <1>5, <1>6, <2>3 DEF End
<1>8. i \in 1..N /\ i \in Int
  BY <1>2 DEF N
<1>9. b.flag = {b.list[j] : j \in 1..Len(b.list)}
  <2>1. \A j \in 1..N : a.list[j] # x => j # i
    BY DEF x
  <2>2. (a.flag \ {x}) \cup {p} \subseteq {b.list[j] : j \in 1..N}
    BY ONLY <1>2, <1>5, <1>8, <2>1
  <2>3. {b.list[j] : j \in 1..N} \subseteq (a.flag \ {x}) \cup {p}
    BY ONLY <1>2, <1>4, <1>5, <1>8
  <2>4. QED
    BY <1>1, <1>5, <2>2, <2>3
<1>10. \A j \in 1..N : b.list[j] < End(b, j) /\ End(b, j) <= NPAGE
  BY <1>2, <1>3, <1>5, <1>7, <1>8
<1>11. ASSUME NEW j \in 1..N, NEW l \in 1..N, j < l PROVE End(b, j) <= b.list[l]
  <2>1. End(b, j) = End(a, j) /\ End(a, j) <= a.list[l]
    BY <1>2, <1>7, <1>11
  <2>2. CASE l = i
    <3>1. a.list[l] = x /\ b.list[l] = p
      BY <1>5, <2>2 DEF x
    <3>2. End(a, j) \in Int
      BY ONLY <1>2, <1>11
    <3>3. QED
      BY ONLY <1>3, <2>1, <3>1, <3>2
  <2>3. CASE l # i
    BY <1>5, <2>1, <2>3
  <2>4. QED
    BY <2>2, <2>3
<1>12. AreaOK(b)
  BY <1>5, <1>6, <1>9, <1>10, <1>11 DEF AreaOK
<1>13. Touches(b) = {}
  <2> SUFFICES ASSUME NEW t \in 1..(N - 1), End(b, t) = b.list[t + 1] PROVE FALSE
    BY <1>5 DEF Touches
  <2>0. N \in Nat
    BY ONLY <1>2
  <2>1. t \in 1..N /\ t + 1 \in 1..N /\ t < t + 1
    BY ONLY <2>0, t \in 1..(N - 1)
  <2>2. End(b, t) = End(a, t) /\ End(a, t) <= a.list[t + 1] /\ End(a, t) # a.list[t + 1]
    BY <1>2, <1>7, <2>1 DEF Touches, N
  <2>3. CASE t + 1 = i
    <3>1. a.list[t + 1] = x /\ b.list[t + 1] = p
      BY <1>5, <2>3 DEF x
    <3>2. QED
      BY <1>2, <1>3, <2>1, <2>2, <3>1
  <2>4. CASE t + 1 # i
    BY <1>5, <2>1, <2>2, <2>4
  <2>5. QED
    BY <2>3, <2>4
<1>14. Covered(b) = Covered(a) \ Extent(x, n)
  <2>0. \A q \in Page : q \in Int
    BY NPAGEAssumption DEF Page
  <2>1. ASSUME NEW q \in Page, NEW j \in 1..N, b.list[j] <= q, q < End(b, j)
        PROVE  q \in Covered(a) \ Extent(x, n)
    <3>1. CASE j = i
      <4>1. p <= q /\ q < End(a, i)
        BY <1>5, <1>7, <2>1, <3>1
      <4>2. x <= q /\ ~(q <= x + n - 1)
        BY <1>3, <2>0, <4>1 DEF p
      <4>3. q \in Covered(a) /\ q \notin Extent(x, n)
        BY <1>8, <2>0, <4>1, <4>2 DEF Covered, Extent, x, N
      <4>4. QED
        BY <4>3
    <3>2. CASE j # i
      <4>1. a.list[j] <= q /\ q < End(a, j)
        BY <1>5, <1>7, <2>1, <3>2
      <4>2. CASE j < i
        <5>1. End(a, j) <= x
          BY <1>2, <1>8, <4>2 DEF x
        <5>2. q < x
          BY <1>2, <1>3, <2>0, <4>1, <5>1
        <5>3. QED
          BY <1>3, <2>0, <4>1, <5>2 DEF Covered, Extent, N
      <4>3. CASE i < j
        <5>1. End(a, i) <= a.list[j]
          BY <1>2, <1>8, <4>3
        <5>0. End(a, i) \in Int /\ a.list[j] \in Int /\ q \in Int
          BY ONLY <1>2, <1>8, <2>0, j \in 1..N, q \in Page
        <5>2. p < q
          BY ONLY <1>3, <4>1, <5>0, <5>1
        <5>3. ~(q <= x + n - 1)
          BY <1>3, <2>0, <5>2 DEF p
        <5>4. QED
          BY <1>3, <2>0, <4>1, <5>3 DEF Covered, Extent, N
      <4>4. QED
        BY <1>8, <3>2, <4>2, <4>3
    <3>3. QED
      BY <3>1, <3>2
  <2>2. ASSUME NEW q \in Covered(a), q \notin Extent(x, n) PROVE q \in Covered(b)
    <3>1. PICK j \in 1..N : a.list[j] <= q /\ q < End(a, j)
      BY DEF Covered, N
    <3>2. q \in Page /\ q \in Int
      BY <2>0 DEF Covered
    <3>3. CASE j = i
      <4>1. x <= q /\ ~(q <= x + n - 1)
        BY <1>3, <2>2, <3>1, <3>2, <3>3 DEF Extent, x
      <4>2. p <= q
        BY <1>3, <3>2, <4>1 DEF p
      <4>3. QED
        BY <1>5, <1>7, <1>8, <3>1, <3>2, <3>3, <4>2 DEF Covered
    <3>4. CASE j # i
      BY <1>5, <1>7, <3>1, <3>2, <3>4 DEF Covered
    <3>5. QED
      BY <3>3, <3>4
  <2>3. QED
    BY <1>5, <2>1, <2>2 DEF Covered
<1>15. QED
  BY <1>12, <1>13, <1>14 DEF x, CoveredLess

\* default_alloc_pages takes a whole block.
LEMMA TakeWhole ==
    ASSUME NEW a, AreaOK(a), Touches(a) = {},
           NEW i \in 1..Len(a.list), NEW n \in Nat \ {0}, n = a.prop[a.list[i]],
           NEW b, b = [list |-> RemoveAt(a.list, i),
                       prop |-> [a.prop EXCEPT ![a.list[i]] = 0],
                       flag |-> a.flag \ {a.list[i]}]
    PROVE  AreaOK(b) /\ Touches(b) = {} /\ CoveredLess(b, a, a.list[i], n)
<1> DEFINE N == Len(a.list)
           x == a.list[i]
<1>1. /\ b.list = RemoveAt(a.list, i) /\ b.prop = [a.prop EXCEPT ![x] = 0]
      /\ b.flag = a.flag \ {x}
  OBVIOUS
<1>2. /\ a.list \in Seq(Page) /\ a.prop \in [Page -> Nat] /\ a.flag = {a.list[j] : j \in 1..N}
      /\ \A j \in 1..N : /\ a.list[j] \in Page /\ a.list[j] \in Int /\ End(a, j) \in Int
                         /\ a.list[j] < End(a, j) /\ End(a, j) <= NPAGE
                         /\ End(a, j) = a.list[j] + a.prop[a.list[j]] /\ a.prop[a.list[j]] \in Nat
      /\ \A j, l \in 1..N : j < l => End(a, j) <= a.list[l]
      /\ N \in Nat /\ NPAGE \in Int
  BY AreaBlocks
<1>3. i \in 1..N /\ i \in Int /\ x \in Page /\ x \in Int /\ End(a, i) = x + n /\ n \in Int /\ 0 < n
  BY <1>2
<1>4. /\ b.list \in Seq(Page) /\ Len(b.list) = N - 1
      /\ \A j \in 1..(N - 1) : b.list[j] = IF j < i THEN a.list[j] ELSE a.list[j + 1]
  <2>1. /\ RemoveAt(a.list, i) \in Seq(Page) /\ Len(RemoveAt(a.list, i)) = Len(a.list) - 1
        /\ \A j \in 1..(Len(a.list) - 1) :
              RemoveAt(a.list, i)[j] = IF j < i THEN a.list[j] ELSE a.list[j + 1]
    <3>1. a.list \in Seq(Page) /\ i \in 1..Len(a.list)
      BY <1>2, <1>3
    <3>2. QED
      BY ONLY <3>1, RemoveAtProperties, Zenon
  <2>2. QED
    BY ONLY <1>1, <2>1 DEF N
<1>5. /\ b.prop \in [Page -> Nat]
      /\ \A j \in 1..N : j # i => a.list[j] # x /\ b.prop[a.list[j]] = a.prop[a.list[j]]
  <2>1. \A j \in 1..N : j # i => a.list[j] # x
    BY <1>3, AreaFacts
  <2>2. QED
    BY <1>1, <1>2, <1>3, <2>1
<1> HIDE DEF x, N
<1>6. \A j \in 1..(N - 1) :
         /\ j \in Int /\ j \in 1..N /\ j + 1 \in 1..N
         /\ j < i => j # i /\ b.list[j] = a.list[j] /\ End(b, j) = End(a, j)
         /\ ~(j < i) => j + 1 # i /\ b.list[j] = a.list[j + 1] /\ End(b, j) = End(a, j + 1)
  <2>1. \A j \in 1..(N - 1) : /\ j \in Int /\ j \in 1..N /\ j + 1 \in 1..N
                              /\ (j < i => j # i) /\ (~(j < i) => j + 1 # i)
    BY ONLY <1>2, <1>3
  <2>2. QED
    BY ONLY <1>4, <1>5, <2>1 DEF End
<1>7. \A j \in 1..N :
         j # i => \E l \in 1..(N - 1) : b.list[l] = a.list[j] /\ End(b, l) = End(a, j)
  <2> SUFFICES ASSUME NEW j \in 1..N, j # i
               PROVE  \E l \in 1..(N - 1) : b.list[l] = a.list[j] /\ End(b, l) = End(a, j)
    OBVIOUS
  <2>1. CASE j < i
    <3>1. j \in 1..(N - 1)
      BY ONLY <1>2, <1>3, <2>1, j \in 1..N
    <3>2. QED
      BY <1>6, <2>1, <3>1
  <2>2. CASE i < j
    <3>0. N \in Nat /\ i \in Int /\ 1 <= i
      BY ONLY <1>2, <1>3
    <3>1. j - 1 \in 1..(N - 1) /\ ~(j - 1 < i) /\ (j - 1) + 1 = j
      BY ONLY <3>0, <2>2, j \in 1..N
    <3>2. b.list[j - 1] = a.list[j] /\ End(b, j - 1) = End(a, j)
      BY <1>6, <3>1
    <3>3. QED
      BY <3>1, <3>2
  <2>3. j < i \/ i < j
    BY ONLY <1>2, <1>3, j \in 1..N, j # i
  <2>4. QED
    BY <2>1, <2>2, <2>3
<1>8. \A l \in 1..(N - 1) :
         \E j \in 1..N : j # i /\ b.list[l] = a.list[j] /\ End(b, l) = End(a, j)
  BY ONLY <1>6
<1>9. b.flag = {b.list[l] : l \in 1..Len(b.list)}
  <2>1. \A j \in 1..N : a.list[j] # x => j # i
    BY DEF x
  <2>2. a.flag \ {x} \subseteq {b.list[l] : l \in 1..(N - 1)}
    BY ONLY <1>2, <1>7, <2>1
  <2>3. {b.list[l] : l \in 1..(N - 1)} \subseteq a.flag \ {x}
    <3>1. ASSUME NEW l \in 1..(N - 1) PROVE b.list[l] \in a.flag \ {x}
      <4>1. PICK j \in 1..N : j # i /\ b.list[l] = a.list[j]
        BY <1>8
      <4>2. a.list[j] \in a.flag /\ a.list[j] # x
        BY <1>2, <1>5, <4>1
      <4>3. QED
        BY <4>1, <4>2
    <3>2. QED
      BY <3>1
  <2>4. QED
    BY <1>1, <1>4, <2>2, <2>3
<1>10. \A l \in 1..(N - 1) : b.list[l] < End(b, l) /\ End(b, l) <= NPAGE
  BY ONLY <1>2, <1>8
<1>11. ASSUME NEW j \in 1..(N - 1), NEW l \in 1..(N - 1), j < l PROVE End(b, j) <= b.list[l]
  <2>0. /\ j \in Int /\ j \in 1..N /\ j + 1 \in 1..N /\ l \in Int /\ l \in 1..N /\ l + 1 \in 1..N
    BY <1>6
  <2>1. CASE l < i
    <3>1. j < i /\ j < l
      BY ONLY <1>3, <1>11, <2>0, <2>1
    <3>2. End(b, j) = End(a, j) /\ b.list[l] = a.list[l]
      BY <1>6, <2>1, <3>1
    <3>3. QED
      BY <1>2, <2>0, <3>1, <3>2
  <2>2. CASE ~(l < i) /\ j < i
    <3>1. j < l + 1
      BY ONLY <1>11, <2>0
    <3>2. End(b, j) = End(a, j) /\ b.list[l] = a.list[l + 1]
      BY <1>6, <2>2
    <3>3. QED
      BY <1>2, <2>0, <3>1, <3>2
  <2>3. CASE ~(l < i) /\ ~(j < i)
    <3>1. j + 1 < l + 1
      BY ONLY <1>11, <2>0
    <3>2. End(b, j) = End(a, j + 1) /\ b.list[l] = a.list[l + 1]
      BY <1>6, <2>3
    <3>3. QED
      BY <1>2, <2>0, <3>1, <3>2
  <2>4. QED
    BY ONLY <1>3, <1>11, <2>0, <2>1, <2>2, <2>3
<1>12. AreaOK(b)
  BY <1>4, <1>5, <1>9, <1>10, <1>11 DEF AreaOK
<1>13. Touches(b) = {}
  <2>0. Len(b.list) - 1 = N - 2
    BY <1>2, <1>4
  <2> SUFFICES ASSUME NEW t \in 1..(N - 2), End(b, t) = b.list[t + 1] PROVE FALSE
    BY <2>0 DEF Touches
  <2>1. t \in Int /\ t \in 1..(N - 1) /\ t + 1 \in 1..(N - 1) /\ (t + 1) + 1 \in 1..N /\ t \in 1..N
    BY ONLY <1>2, t \in 1..(N - 2)
  <2>2. CASE t + 1 < i
    <3>1. t < i
      BY ONLY <1>3, <2>1, <2>2
    <3>2. End(a, t) = a.list[t + 1]
      BY <1>6, <2>1, <2>2, <3>1
    <3>3. QED
      BY <2>1, <3>2 DEF Touches, N
  <2>3. CASE t + 1 = i
    <3>0. t < i /\ ~(t + 1 < i) /\ i < (t + 1) + 1
      BY ONLY <1>3, <2>1, <2>3
    <3>1. End(b, t) = End(a, t) /\ b.list[t + 1] = a.list[(t + 1) + 1] /\ t < i /\ i < (t + 1) + 1
      BY <1>6, <2>1, <3>0
    <3>2. /\ End(a, t) <= a.list[i] /\ a.list[i] < End(a, i) /\ End(a, i) <= a.list[(t + 1) + 1]
          /\ {End(a, t), a.list[i], End(a, i), a.list[(t + 1) + 1]} \subseteq Int
      BY <1>2, <1>3, <2>1, <3>1
    <3>3. QED
      BY <3>1, <3>2
  <2>4. CASE i < t + 1
    <3>1. ~(t < i) /\ ~(t + 1 < i)
      BY ONLY <1>3, <2>1, <2>4
    <3>2. End(a, t + 1) = a.list[(t + 1) + 1]
      BY <1>6, <2>1, <3>1
    <3>3. QED
      BY <2>1, <3>2 DEF Touches, N
  <2>5. QED
    BY ONLY <1>3, <2>1, <2>2, <2>3, <2>4
<1>14. Covered(b) = Covered(a) \ Extent(x, n)
  <2>0. \A q \in Page : q \in Int
    BY NPAGEAssumption DEF Page
  <2>1. ASSUME NEW q \in Page, NEW l \in 1..(N - 1), b.list[l] <= q, q < End(b, l)
        PROVE  q \in Covered(a) \ Extent(x, n)
    <3>1. PICK j \in 1..N : j # i /\ a.list[j] <= q /\ q < End(a, j)
      BY <1>8, <2>1
    <3>2. q \in Covered(a)
      BY <3>1 DEF Covered, N
    <3>3. CASE j < i
      <4>1. End(a, j) <= x
        BY <1>2, <1>3, <3>3 DEF x
      <4>2. q < x
        BY <1>2, <1>3, <2>0, <3>1, <4>1
      <4>3. QED
        BY <1>3, <2>0, <3>2, <4>2 DEF Extent
    <3>4. CASE i < j
      <4>1. x + n <= a.list[j]
        BY <1>2, <1>3, <3>4
      <4>2. x + n <= q
        <5>1. a.list[j] \in Int /\ q \in Int /\ x + n \in Int
          BY <1>2, <1>3, <2>0
        <5>2. QED
          BY ONLY <3>1, <4>1, <5>1
      <4>3. x \in Int /\ n \in Int /\ q \in Int
        BY <1>3, <2>0
      <4>4. q \notin Extent(x, n)
        BY ONLY <4>2, <4>3 DEF Extent
      <4>5. QED
        BY ONLY <3>2, <4>4
    <3>5. QED
      BY <1>3, <3>1, <3>3, <3>4
  <2>2. ASSUME NEW q \in Covered(a), q \notin Extent(x, n) PROVE q \in Covered(b)
    <3>1. PICK j \in 1..N : a.list[j] <= q /\ q < End(a, j)
      BY DEF Covered, N
    <3>2. q \in Page /\ q \in Int
      BY <2>0 DEF Covered
    <3>3. j # i
      <4> SUFFICES ASSUME j = i PROVE FALSE
        OBVIOUS
      <4>1. x <= q /\ q < x + n
        BY <1>3, <3>1 DEF x
      <4>2. QED
        BY <1>3, <2>2, <3>2, <4>1 DEF Extent
    <3>4. PICK l \in 1..(N - 1) : b.list[l] = a.list[j] /\ End(b, l) = End(a, j)
      BY <1>7, <3>3
    <3>5. QED
      BY <1>4, <3>1, <3>2, <3>4 DEF Covered
  <2>3. QED
    BY <1>4, <2>1, <2>2 DEF Covered
<1>15. QED
  BY <1>12, <1>13, <1>14 DEF x, CoveredLess
-----------------------------------------------------------------------------
(* The invariant.                                                          *)

LEMMA OwnedMember ==
    ASSUME NEW B, NEW p
    PROVE  p \in Owned(B) <=> \E b \in B : p \in Extent(b[1], b[2])
  BY DEF Owned

LEMMA OwnedUnion ==
    ASSUME NEW B, NEW C
    PROVE  Owned(B \cup C) = Owned(B) \cup Owned(C)
  BY OwnedMember

LEMMA OwnedOne ==
    ASSUME NEW b
    PROVE  Owned({b}) = Extent(b[1], b[2])
<1> DEFINE E == Extent(b[1], b[2])
<1>1. \A p : p \in Owned({b}) <=> p \in E
  BY OwnedMember
<1> HIDE DEF E
<1>2. Owned({b}) = E
  BY ONLY <1>1
<1>3. QED
  BY <1>2 DEF E

LEMMA FreePagesCovered == AreaOK(Area) => FreePages = Covered(Area)
<1> SUFFICES ASSUME AreaOK(Area) PROVE FreePages = Covered(Area)
  OBVIOUS
<1> DEFINE N == Len(free_list)
<1>1. Area.list = free_list /\ Area.prop = property
  BY DEF Area
<1>2. \A k \in 1..N : /\ free_list[k] \in Int /\ property[free_list[k]] \in Nat /\ free_list[k] \in Page
                      /\ End(Area, k) = free_list[k] + property[free_list[k]] /\ End(Area, k) <= NPAGE
  BY <1>1, AreaBlocks
<1>3. NPAGE \in Int /\ \A p \in Page : p \in Int /\ 0 <= p
  BY NPAGEAssumption DEF Page
<1>4. ASSUME NEW k \in 1..N
      PROVE  Extent(free_list[k], property[free_list[k]]) =
                 {p \in Page : free_list[k] <= p /\ p < End(Area, k)}
  <2>1. /\ free_list[k] \in Int /\ property[free_list[k]] \in Nat /\ 0 <= free_list[k]
        /\ End(Area, k) = free_list[k] + property[free_list[k]] /\ End(Area, k) <= NPAGE
    BY <1>2, <1>3
  <2>2. QED
    BY ONLY <2>1, <1>3 DEF Extent, Page
<1>5. ASSUME NEW p PROVE p \in FreePages <=> \E k \in 1..N : p \in Extent(free_list[k], property[free_list[k]])
  <2>1. \A b \in FreeBlocks : \E k \in 1..N : b[1] = free_list[k] /\ b[2] = property[free_list[k]]
    BY DEF FreeBlocks
  <2>2. \A k \in 1..N : \E b \in FreeBlocks : b[1] = free_list[k] /\ b[2] = property[free_list[k]]
    <3> TAKE k \in 1..N
    <3>1. <<free_list[k], property[free_list[k]]>> \in FreeBlocks
      BY DEF FreeBlocks
    <3>2. QED
      BY <3>1
  <2>3. p \in FreePages <=> \E b \in FreeBlocks : p \in Extent(b[1], b[2])
    BY DEF FreePages
  <2>4. QED
    BY <2>1, <2>2, <2>3
<1>6. QED
  BY <1>1, <1>4, <1>5 DEF Covered

LEMMA PmmInit == Init => PmmInv
<1> SUFFICES ASSUME Init PROVE PmmInv
  OBVIOUS
<1> USE NPAGEAssumption DEF Init
<1>1. Area = [list |-> <<0>>, prop |-> [p \in Page |-> IF p = 0 THEN NPAGE ELSE 0], flag |-> {0}]
  BY DEF Area
<1>2. /\ Area.list = <<0>> /\ Area.prop = [p \in Page |-> IF p = 0 THEN NPAGE ELSE 0] /\ Area.flag = {0}
      /\ 0 \in Page
  BY <1>1 DEF Page
<1>3. Len(Area.list) = 1 /\ 1..1 = {1} /\ Area.list[1] = 0 /\ End(Area, 1) = NPAGE
  BY <1>2 DEF End
<1>4. AreaOK(Area)
  <2>1. Area.list \in Seq(Page) /\ Area.prop \in [Page -> Nat]
    BY <1>2
  <2>2. Area.flag = {Area.list[k] : k \in 1..Len(Area.list)}
    BY <1>2, <1>3
  <2>3. QED
    BY <1>3, <2>1, <2>2 DEF AreaOK
<1>5. Touches(Area) = {}
  BY <1>3 DEF Touches
<1>6. Covered(Area) = 0..(NPAGE - 1)
  BY <1>3 DEF Covered, Page
<1>7. Cardinality(0..(NPAGE - 1)) = NPAGE
  BY FS_Interval
<1>8. Owned({}) = {}
  BY OwnedMember
<1>9. QED
  BY <1>4, <1>5, <1>6, <1>7, <1>8 DEF PmmInv, BlocksTyped, Page

LEMMA CoveredFinite == IsFiniteSet(Covered(Area)) /\ Cardinality(Covered(Area)) \in Nat
<1>1. IsFiniteSet(Page)
  BY FS_Interval, NPAGEAssumption DEF Page
<1>2. Covered(Area) \in SUBSET Page
  BY DEF Covered
<1>3. QED
  BY <1>1, <1>2, FS_Subset, FS_CardinalityType

LEMMA ExtentSize ==
    ASSUME NEW base \in Page, NEW n \in 1..NPAGE
    PROVE  /\ IsFiniteSet(Extent(base, n)) /\ Cardinality(Extent(base, n)) = n
           /\ base \in Extent(base, n)
<1>1. base \in Int /\ n \in Int /\ 1 <= n
  BY NPAGEAssumption DEF Page
<1>2. /\ IsFiniteSet(base..(base + n - 1)) /\ base + n - 1 \in Int
      /\ Cardinality(base..(base + n - 1)) = IF base > base + n - 1 THEN 0 ELSE (base + n - 1) - base + 1
  BY <1>1, FS_Interval
<1>3. QED
  BY <1>1, <1>2 DEF Extent

\* The list after default_alloc_pages, and the pages that left it.
LEMMA AllocArea ==
    ASSUME AreaOK(Area), Touches(Area) = {}, NEW n \in 1..NPAGE, default_alloc_pages(n)
    PROVE  \E i \in first_fit(n) :
              /\ AreaOK(Area)' /\ Touches(Area)' = {}
              /\ Covered(Area)' = Covered(Area) \ Extent(free_list[i], n)
              /\ blocks' = blocks \cup {<<free_list[i], n>>} /\ result' = free_list[i]
<1>0. Area.list = free_list /\ Area.prop = property /\ Area.flag = PG_property /\ n \in Nat \ {0}
  BY NPAGEAssumption DEF Area
<1>1. PICK i \in first_fit(n) :
         /\ IF property[free_list[i]] > n
               THEN /\ free_list' = [free_list EXCEPT ![i] = free_list[i] + n]
                    /\ property' = [property EXCEPT ![free_list[i]] = 0,
                                                    ![free_list[i] + n] = property[free_list[i]] - n]
                    /\ PG_property' = (PG_property \ {free_list[i]}) \cup {free_list[i] + n}
               ELSE /\ free_list' = RemoveAt(free_list, i)
                    /\ property' = [property EXCEPT ![free_list[i]] = 0]
                    /\ PG_property' = PG_property \ {free_list[i]}
         /\ blocks' = blocks \cup {<<free_list[i], n>>} /\ result' = free_list[i]
  BY DEF default_alloc_pages, rest
<1>2. i \in 1..Len(free_list) /\ property[free_list[i]] >= n
  BY DEF first_fit
<1>3. property[free_list[i]] \in Nat
  BY <1>0, <1>2, AreaFacts
<1>4. /\ AreaOK(Area') /\ Touches(Area') = {}
      /\ Covered(Area') = Covered(Area) \ Extent(free_list[i], n)
  <2>1. CASE property[free_list[i]] > n
    <3>1. Area' = [list |-> [Area.list EXCEPT ![i] = Area.list[i] + n],
                   prop |-> [Area.prop EXCEPT ![Area.list[i]] = 0,
                                              ![Area.list[i] + n] = Area.prop[Area.list[i]] - n],
                   flag |-> (Area.flag \ {Area.list[i]}) \cup {Area.list[i] + n}]
      BY <1>0, <1>1, <2>1 DEF Area
    <3>2. i \in 1..Len(Area.list) /\ n < Area.prop[Area.list[i]]
      BY <1>0, <1>2, <1>3, <2>1
    <3>3. /\ AreaOK(Area') /\ Touches(Area') = {}
          /\ Covered(Area') = Covered(Area) \ Extent(Area.list[i], n)
      <4> DEFINE A == Area
                 B == Area'
      <4>1. /\ AreaOK(A) /\ Touches(A) = {} /\ n \in Nat \ {0}
            /\ i \in 1..Len(A.list) /\ n < A.prop[A.list[i]]
            /\ B = [list |-> [A.list EXCEPT ![i] = A.list[i] + n],
                    prop |-> [A.prop EXCEPT ![A.list[i]] = 0,
                                            ![A.list[i] + n] = A.prop[A.list[i]] - n],
                    flag |-> (A.flag \ {A.list[i]}) \cup {A.list[i] + n}]
        BY <1>0, <3>1, <3>2
      <4> HIDE DEF A, B
      <4>2. AreaOK(B)
        BY ONLY <4>1, TakeFront
      <4>3. Touches(B) = {}
        BY ONLY <4>1, TakeFront
      <4>4. CoveredLess(B, A, A.list[i], n)
        BY ONLY <4>1, TakeFront
      <4>5. QED
        BY ONLY <4>2, <4>3, <4>4 DEF A, B, CoveredLess
    <3>4. QED
      BY <1>0, <3>3
  <2>2. CASE ~(property[free_list[i]] > n)
    <3>1. Area' = [list |-> RemoveAt(Area.list, i),
                   prop |-> [Area.prop EXCEPT ![Area.list[i]] = 0],
                   flag |-> Area.flag \ {Area.list[i]}]
      BY <1>0, <1>1, <2>2 DEF Area
    <3>2. i \in 1..Len(Area.list) /\ n = Area.prop[Area.list[i]]
      BY <1>0, <1>2, <1>3, <2>2
    <3>3. /\ AreaOK(Area') /\ Touches(Area') = {}
          /\ Covered(Area') = Covered(Area) \ Extent(Area.list[i], n)
      <4> DEFINE A == Area
                 B == Area'
      <4>1. /\ AreaOK(A) /\ Touches(A) = {} /\ n \in Nat \ {0}
            /\ i \in 1..Len(A.list) /\ n = A.prop[A.list[i]]
            /\ B = [list |-> RemoveAt(A.list, i),
                    prop |-> [A.prop EXCEPT ![A.list[i]] = 0],
                    flag |-> A.flag \ {A.list[i]}]
        BY <1>0, <3>1, <3>2
      <4> HIDE DEF A, B
      <4>2. AreaOK(B)
        BY ONLY <4>1, TakeWhole
      <4>3. Touches(B) = {}
        BY ONLY <4>1, TakeWhole
      <4>4. CoveredLess(B, A, A.list[i], n)
        BY ONLY <4>1, TakeWhole
      <4>5. QED
        BY ONLY <4>2, <4>3, <4>4 DEF A, B, CoveredLess
    <3>4. QED
      BY <1>0, <3>3
  <2>3. QED
    BY <2>1, <2>2
<1>5. QED
  BY <1>1, <1>4

LEMMA AllocStep ==
    ASSUME PmmInv, NEW n \in 1..NPAGE, default_alloc_pages(n)
    PROVE  PmmInv'
<1> USE DEF PmmInv
<1>1. PICK i \in first_fit(n) :
         /\ AreaOK(Area)' /\ Touches(Area)' = {}
         /\ Covered(Area)' = Covered(Area) \ Extent(free_list[i], n)
         /\ blocks' = blocks \cup {<<free_list[i], n>>} /\ result' = free_list[i]
  BY AllocArea
<1> DEFINE page == free_list[i]
           new == <<page, n>>
<1>2. /\ i \in 1..Len(Area.list) /\ Area.list[i] = page /\ Area.prop[page] >= n
      /\ Area.list = free_list
  BY DEF first_fit, Area
<1>3. /\ page \in Page /\ page \in Int /\ n \in Int /\ 1 <= n /\ 0 <= page /\ NPAGE \in Int
      /\ page + n <= End(Area, i) /\ End(Area, i) <= NPAGE /\ page + n <= NPAGE /\ End(Area, i) \in Int
  <2>1. /\ page \in Page /\ page \in Int /\ End(Area, i) \in Int /\ End(Area, i) <= NPAGE
        /\ End(Area, i) = page + Area.prop[page] /\ Area.prop[page] \in Nat
    BY <1>2, AreaBlocks
  <2>2. n \in Int /\ 1 <= n /\ 0 <= page /\ NPAGE \in Int
    BY <2>1, NPAGEAssumption DEF Page
  <2>3. QED
    BY ONLY <1>2, <2>1, <2>2
<1>4. Extent(page, n) \subseteq Covered(Area)
  <2> SUFFICES ASSUME NEW p \in Extent(page, n) PROVE p \in Covered(Area)
    OBVIOUS
  <2>1. p \in Int /\ page <= p /\ p < page + n
    BY <1>3 DEF Extent
  <2>2. p \in Page /\ p < End(Area, i)
    BY <1>3, <2>1 DEF Page
  <2>3. QED
    BY <1>2, <2>1, <2>2 DEF Covered
<1>5. nr_free' = Cardinality(Covered(Area))'
  <2>1. nr_free' = nr_free - n
    BY DEF default_alloc_pages
  <2>2. Covered(Area) \cap Extent(page, n) = Extent(page, n)
    BY <1>4
  <2>3. Cardinality(Covered(Area) \ Extent(page, n)) = Cardinality(Covered(Area)) - n
    <3>1. Cardinality(Covered(Area) \ Extent(page, n)) =
              Cardinality(Covered(Area)) - Cardinality(Covered(Area) \cap Extent(page, n))
      BY CoveredFinite, FS_Difference
    <3>2. Cardinality(Extent(page, n)) = n
      BY <1>3, ExtentSize
    <3>3. QED
      BY <2>2, <3>1, <3>2
  <2>4. QED
    BY <1>1, <2>1, <2>3
<1>6. new \in Page \X (1..NPAGE) /\ new[1] = page /\ new[2] = n /\ blocks' = blocks \cup {new}
  BY <1>1, <1>3
<1> HIDE DEF new, page
<1>7. BlocksTyped'
  BY <1>3, <1>6 DEF BlocksTyped
<1>8. \A b \in blocks : Extent(b[1], b[2]) \cap Extent(page, n) = {}
  BY <1>4, OwnedMember
<1>9. (\A a, b \in blocks : a # b => Extent(a[1], a[2]) \cap Extent(b[1], b[2]) = {})'
  BY <1>6, <1>8
<1>10. (Owned(blocks) = Page \ Covered(Area))'
  <2>1. Owned(blocks') = Owned(blocks) \cup Extent(page, n)
    <3>1. Owned({new}) = Extent(page, n)
      BY <1>6, OwnedOne
    <3>2. QED
      BY <1>6, <3>1, OwnedUnion
  <2>2. Covered(Area) \subseteq Page
    BY DEF Covered
  <2>3. Owned(blocks') = Page \ Covered(Area)'
    BY <1>1, <1>4, <2>1, <2>2 DEF page
  <2>4. QED
    BY <2>3 DEF Owned
<1>11. QED
  BY <1>1, <1>5, <1>7, <1>9, <1>10

\* The last join leaves no two blocks that touch.
LEMMA AbsorbLast ==
    ASSUME NEW a, AreaOK(a), NEW k \in Nat, Touches(a) \subseteq {k}
    PROVE  /\ AreaOK(absorb(a, k)) /\ Touches(absorb(a, k)) = {}
           /\ Covered(absorb(a, k)) = Covered(a)
<1>1. CASE k \in Touches(a)
  <2>1. /\ AreaOK(absorb(a, k)) /\ Covered(absorb(a, k)) = Covered(a)
        /\ \A t \in Touches(absorb(a, k)) : IF t < k THEN t \in Touches(a) ELSE t + 1 \in Touches(a)
    BY <1>1, AbsorbJoins
  <2>2. \A t \in Touches(absorb(a, k)) : t \in Nat
    BY DEF Touches
  <2>3. QED
    BY <2>1, <2>2
<1>2. CASE k \notin Touches(a)
  <2>1. absorb(a, k) = a
    BY <1>2 DEF absorb, Touches, End
  <2>2. QED
    BY <1>2, <2>1
<1>3. QED
  BY <1>1, <1>2

\* Where the loop of default_free_pages stops.
LEMMA PlaceFound ==
    ASSUME AreaOK(Area), NEW base \in Page
    PROVE  /\ place(base) \in 1..(Len(free_list) + 1)
           /\ \A j \in 1..(place(base) - 1) : free_list[j] <= base
           /\ \A j \in place(base)..Len(free_list) : base < free_list[j]
<1> DEFINE N == Len(free_list)
           S == {N + 1} \cup {i \in 1..N : base < free_list[i]}
           m == place(base)
<1>0. /\ N \in Nat /\ base \in Int /\ \A j \in 1..N : free_list[j] \in Int
      /\ \A j, l \in 1..N : j < l => free_list[j] < free_list[l]
  <2>1. Area.list = free_list
    BY DEF Area
  <2>2. N \in Nat /\ \A j \in 1..N : free_list[j] \in Int /\ End(Area, j) \in Int /\ free_list[j] < End(Area, j)
    BY <2>1, AreaBlocks
  <2>3. \A j, l \in 1..N : j < l => End(Area, j) <= free_list[l]
    BY <2>1, AreaBlocks
  <2>4. base \in Int
    BY NPAGEAssumption DEF Page
  <2>5. QED
    BY ONLY <2>2, <2>3, <2>4
<1>1. m = Min(S) /\ S \in SUBSET Nat /\ N + 1 \in S
  BY <1>0 DEF place
<1>2. m \in S /\ \A x \in S : m <= x
  <2> HIDE DEF S, m
  <2>1. S \in SUBSET Nat /\ S # {}
    BY ONLY <1>1
  <2>2. Min(S) \in S
    BY ONLY <2>1, LeastElement
  <2>3. \A x \in S : Min(S) <= x
    BY ONLY <2>1, LeastElement
  <2>4. QED
    BY ONLY <1>1, <2>2, <2>3
<1> HIDE DEF m, N
<1>3. m \in 1..(N + 1) /\ m \in Int
  BY <1>0, <1>2
<1>4. ASSUME NEW j \in 1..(m - 1) PROVE free_list[j] <= base
  <2>1. j \in 1..N /\ ~(m <= j)
    BY <1>0, <1>3
  <2>2. j \notin S
    BY <1>2, <2>1
  <2>3. QED
    BY <1>0, <2>1, <2>2
<1>5. ASSUME NEW j \in m..N PROVE base < free_list[j]
  <2>1. m \in 1..N /\ j \in 1..N /\ m # N + 1 /\ m <= j
    BY <1>0, <1>3
  <2>2. base < free_list[m]
    BY <1>2, <2>1
  <2>3. CASE m = j
    BY <2>2, <2>3
  <2>4. CASE m < j
    <3>1. free_list[m] < free_list[j]
      BY <1>0, <2>1, <2>4
    <3>2. QED
      BY <1>0, <2>1, <2>2, <3>1
  <2>5. QED
    BY <1>3, <2>1, <2>3, <2>4
<1>6. QED
  BY <1>3, <1>4, <1>5 DEF m, N

\* The list after default_free_pages: linked, then joined at most twice.
LEMMA FreeArea ==
    ASSUME AreaOK(Area), Touches(Area) = {}, NEW base \in Page, NEW n \in 1..NPAGE,
           base + n <= NPAGE, Extent(base, n) \cap Covered(Area) = {}, default_free_pages(base, n)
    PROVE  /\ AreaOK(Area)' /\ Touches(Area)' = {}
           /\ Covered(Area)' = Covered(Area) \cup Extent(base, n)
<1> DEFINE i == place(base)
           linked == [list |-> InsertAt(free_list, i, base),
                      prop |-> [property EXCEPT ![base] = n],
                      flag |-> PG_property \cup {base}]
           prev == absorb(linked, i - 1)
           area == absorb(prev, IF prev = linked THEN i ELSE i - 1)
<1>0. Area.list = free_list /\ Area.prop = property /\ Area.flag = PG_property
  BY DEF Area
<1>1. Area'.list = area.list /\ Area'.prop = area.prop /\ Area'.flag = area.flag
  BY DEF default_free_pages, Area
<1>2. /\ i \in 1..(Len(Area.list) + 1)
      /\ \A j \in 1..(i - 1) : Area.list[j] <= base
      /\ \A j \in i..Len(Area.list) : base < Area.list[j]
  BY <1>0, PlaceFound
<1>3. linked = [list |-> InsertAt(Area.list, i, base),
                prop |-> [Area.prop EXCEPT ![base] = n],
                flag |-> Area.flag \cup {base}]
  BY <1>0
<1> HIDE DEF i, linked
<1>4. /\ AreaOK(linked) /\ Covered(linked) = Covered(Area) \cup Extent(base, n)
      /\ Touches(linked) \subseteq {i - 1, i}
  BY <1>2, <1>3, LinkBlock
<1>5. i \in Nat /\ i - 1 \in Nat
  BY <1>0, <1>2, AreaFacts
<1>6. CASE i - 1 \in Touches(linked)
  <2>1. /\ AreaOK(prev) /\ Covered(prev) = Covered(linked) /\ prev # linked
        /\ \A t \in Touches(prev) : IF t < i - 1 THEN t \in Touches(linked) ELSE t + 1 \in Touches(linked)
    BY <1>4, <1>6, AbsorbJoins
  <2>2. Touches(prev) \subseteq {i - 1}
    <3>1. \A t \in Touches(prev) : t \in Int
      BY DEF Touches
    <3>2. QED
      BY <1>4, <1>5, <2>1, <3>1
  <2> HIDE DEF prev
  <2>3. /\ AreaOK(absorb(prev, i - 1)) /\ Touches(absorb(prev, i - 1)) = {}
        /\ Covered(absorb(prev, i - 1)) = Covered(prev)
    BY <1>5, <2>1, <2>2, AbsorbLast
  <2>4. area = absorb(prev, i - 1)
    BY <2>1
  <2> HIDE DEF area
  <2>5. QED
    BY <1>1, <1>4, <2>1, <2>3, <2>4, SameArea
<1>7. CASE i - 1 \notin Touches(linked)
  <2>1. prev = linked
    BY <1>7 DEF absorb, Touches, End
  <2>2. Touches(linked) \subseteq {i}
    BY <1>4, <1>7
  <2>3. /\ AreaOK(absorb(linked, i)) /\ Touches(absorb(linked, i)) = {}
        /\ Covered(absorb(linked, i)) = Covered(linked)
    BY <1>4, <1>5, <2>2, AbsorbLast
  <2>4. area = absorb(linked, i)
    BY <2>1
  <2> HIDE DEF area
  <2>5. QED
    BY <1>1, <1>4, <2>3, <2>4, SameArea
<1>8. QED
  BY <1>6, <1>7

LEMMA FreeStep ==
    ASSUME PmmInv, NEW base \in Page, NEW n \in 1..NPAGE, default_free_pages(base, n)
    PROVE  /\ PmmInv' /\ Covered(Area)' = Covered(Area) \cup Extent(base, n)
           /\ Extent(base, n) \cap Covered(Area) = {} /\ base + n <= NPAGE
<1> USE DEF PmmInv
<1> DEFINE old == <<base, n>>
<1>0. /\ old \in blocks /\ old[1] = base /\ old[2] = n /\ base + n <= NPAGE
      /\ blocks' = blocks \ {old} /\ nr_free' = nr_free + n
  BY DEF default_free_pages, BlocksTyped
<1> HIDE DEF old
<1>1. \A p : p \in Page \ Covered(Area) <=> \E b \in blocks : p \in Extent(b[1], b[2])
  BY OwnedMember
<1>2. Extent(base, n) \cap Covered(Area) = {} /\ Extent(base, n) \subseteq Page
  BY <1>0, <1>1
<1>3. /\ AreaOK(Area)' /\ Touches(Area)' = {}
      /\ Covered(Area)' = Covered(Area) \cup Extent(base, n)
  BY <1>0, <1>2, FreeArea
<1>4. nr_free' = Cardinality(Covered(Area))'
  <2>1. IsFiniteSet(Extent(base, n)) /\ Cardinality(Extent(base, n)) = n
    BY ExtentSize
  <2>2. Cardinality(Covered(Area) \cup Extent(base, n)) =
           Cardinality(Covered(Area)) + Cardinality(Extent(base, n)) - Cardinality(Covered(Area) \cap Extent(base, n))
    BY <2>1, CoveredFinite, FS_Union
  <2>3. Cardinality(Covered(Area) \cap Extent(base, n)) = 0
    BY <1>2, FS_EmptySet
  <2>4. QED
    BY <1>0, <1>3, <2>1, <2>2, <2>3, CoveredFinite
<1>5. BlocksTyped' /\ (\A a, b \in blocks : a # b => Extent(a[1], a[2]) \cap Extent(b[1], b[2]) = {})'
  BY <1>0 DEF BlocksTyped
<1>6. (Owned(blocks) = Page \ Covered(Area))'
  <2>1. \A p : p \in Owned(blocks') <=> \E b \in blocks \ {old} : p \in Extent(b[1], b[2])
    BY <1>0, OwnedMember
  <2>2. \A b \in blocks \ {old} : Extent(b[1], b[2]) \cap Extent(base, n) = {}
    BY <1>0
  <2>3. \A p : (\E b \in blocks \ {old} : p \in Extent(b[1], b[2])) <=>
                   p \in Page \ (Covered(Area) \cup Extent(base, n))
    BY ONLY <1>0, <1>1, <2>2
  <2>4. Owned(blocks') = Page \ Covered(Area)'
    BY <1>3, <2>1, <2>3
  <2>5. QED
    BY <2>4 DEF Owned
<1>7. QED
  BY <1>0, <1>2, <1>3, <1>4, <1>5, <1>6

LEMMA PmmStep == PmmInv /\ [Next]_vars => PmmInv'
<1> SUFFICES ASSUME PmmInv, [Next]_vars PROVE PmmInv'
  OBVIOUS
<1>1. ASSUME NEW n \in 1..NPAGE, default_alloc_pages(n) PROVE PmmInv'
  BY <1>1, AllocStep
<1>2. ASSUME UNCHANGED <<free_list, property, PG_property, nr_free, blocks>> PROVE PmmInv'
  <2>1. Area' = Area
    BY <1>2 DEF Area
  <2>2. QED
    BY <1>2, <2>1 DEF PmmInv, BlocksTyped
<1>3. ASSUME NEW n \in 1..NPAGE, NEW base \in Page, default_free_pages(base, n) PROVE PmmInv'
  BY <1>3, FreeStep
<1>4. QED
  BY <1>1, <1>2, <1>3 DEF Next, default_alloc_pages_fail, vars
-----------------------------------------------------------------------------
(* What the invariant says.                                                *)

LEMMA PmmInvSound == PmmInv => BlocksSound
<1> SUFFICES ASSUME PmmInv PROVE BlocksSound
  OBVIOUS
<1> DEFINE N == Len(free_list)
<1>0. Area.list = free_list /\ Area.prop = property /\ Area.flag = PG_property
  BY DEF Area
<1>1. /\ N \in Nat /\ PG_property = {free_list[i] : i \in 1..N}
      /\ \A i \in 1..N : /\ free_list[i] \in Int /\ End(Area, i) \in Int /\ property[free_list[i]] \in Nat
                         /\ End(Area, i) = free_list[i] + property[free_list[i]]
                         /\ free_list[i] < End(Area, i) /\ free_list[i] \in Page
      /\ \A i, j \in 1..N : i < j => End(Area, i) <= free_list[j]
  <2>1. AreaOK(Area)
    BY DEF PmmInv
  <2>2. /\ Area.flag = {Area.list[i] : i \in 1..Len(Area.list)}
        /\ \A i \in 1..Len(Area.list) :
              /\ Area.list[i] \in Int /\ End(Area, i) \in Int /\ Area.prop[Area.list[i]] \in Nat
              /\ End(Area, i) = Area.list[i] + Area.prop[Area.list[i]]
              /\ Area.list[i] < End(Area, i) /\ Area.list[i] \in Page
        /\ \A i, j \in 1..Len(Area.list) : i < j => End(Area, i) <= Area.list[j]
        /\ Len(Area.list) \in Nat
    BY ONLY <2>1, AreaBlocks, Zenon
  <2>3. QED
    BY ONLY <1>0, <2>2, Zenon
<1>2. FreePages = Covered(Area)
  BY FreePagesCovered DEF PmmInv
<1>3. \A b \in FreeBlocks : \E i \in 1..N : b = <<free_list[i], property[free_list[i]]>>
                               /\ b[1] = free_list[i] /\ b[2] = property[free_list[i]]
  BY DEF FreeBlocks
<1>4. \A b \in FreeBlocks : Extent(b[1], b[2]) \subseteq Covered(Area)
  BY <1>2 DEF FreePages
<1>5. \A b \in blocks : Extent(b[1], b[2]) \cap Covered(Area) = {} /\ b[1] \in Extent(b[1], b[2])
  <2>1. \A b \in blocks : b \in Page \X (1..NPAGE)
    BY DEF PmmInv, BlocksTyped
  <2>2. \A b \in blocks : b[1] \in Page /\ b[2] \in 1..NPAGE
    BY <2>1
  <2>3. QED
    BY <2>2, ExtentSize, OwnedMember DEF PmmInv
<1>6. \A b \in FreeBlocks : b[1] \in Extent(b[1], b[2])
  <2> SUFFICES ASSUME NEW b \in FreeBlocks PROVE b[1] \in Extent(b[1], b[2])
    OBVIOUS
  <2>1. PICK i \in 1..N : b[1] = free_list[i] /\ b[2] = property[free_list[i]]
    BY <1>3
  <2>2. b[1] \in Int /\ b[2] \in Int /\ b[1] < b[1] + b[2]
    BY <1>1, <2>1
  <2>3. QED
    BY <2>2 DEF Extent
<1>7. ASSUME NEW a \in FreeBlocks, NEW b \in FreeBlocks, a # b
      PROVE  Extent(a[1], a[2]) \cap Extent(b[1], b[2]) = {}
  <2>1. PICK i \in 1..N : /\ a = <<free_list[i], property[free_list[i]]>>
                          /\ a[1] = free_list[i] /\ a[2] = property[free_list[i]]
    BY <1>3
  <2>2. PICK j \in 1..N : /\ b = <<free_list[j], property[free_list[j]]>>
                          /\ b[1] = free_list[j] /\ b[2] = property[free_list[j]]
    BY <1>3
  <2>3. i # j
    BY <1>7, <2>1, <2>2
  <2>4. a[1] \in Int /\ a[2] \in Int /\ b[1] \in Int /\ b[2] \in Int
    BY <1>1, <2>1, <2>2
  <2>5. CASE i < j
    <3>1. a[1] + a[2] <= b[1]
      BY <1>1, <2>1, <2>2, <2>5
    <3>2. QED
      BY ONLY <2>4, <3>1 DEF Extent
  <2>6. CASE j < i
    <3>1. b[1] + b[2] <= a[1]
      BY <1>1, <2>1, <2>2, <2>6
    <3>2. QED
      BY ONLY <2>4, <3>1 DEF Extent
  <2>7. QED
    BY <1>1, <2>3, <2>5, <2>6
<1>8. \A a, b \in FreeBlocks \cup blocks : a # b => Extent(a[1], a[2]) \cap Extent(b[1], b[2]) = {}
  BY <1>4, <1>5, <1>7 DEF PmmInv
<1>9. FreeBlocks \cap blocks = {}
  BY <1>4, <1>5, <1>6
<1>10. UNION {Extent(b[1], b[2]) : b \in FreeBlocks \cup blocks} = Page
  <2>1. Owned(FreeBlocks) = Covered(Area) /\ Covered(Area) \subseteq Page
    BY <1>2 DEF FreePages, Owned, Covered
  <2>2. Owned(FreeBlocks \cup blocks) = Page
    BY <2>1, OwnedUnion DEF PmmInv
  <2>3. QED
    BY <2>2 DEF Owned
<1>11. ASSUME NEW i \in 1..(N - 1) PROVE free_list[i] + property[free_list[i]] < free_list[i + 1]
  <2>1. i \in 1..N /\ i + 1 \in 1..N /\ i < i + 1
    BY <1>1
  <2>2. End(Area, i) <= free_list[i + 1] /\ End(Area, i) # free_list[i + 1]
    BY <1>0, <1>1, <2>1 DEF PmmInv, Touches
  <2>3. QED
    BY <1>1, <2>1, <2>2
<1>12. nr_free = Cardinality(FreePages)
  BY <1>2 DEF PmmInv
<1>13. QED
  BY <1>1, <1>8, <1>9, <1>10, <1>11, <1>12 DEF BlocksSound

\* For any number of pages and any sequence of default_alloc_pages and
\* default_free_pages: every page is in exactly one block, free or given out, blocks
\* that touch have been joined, and nr_free and PG_property agree with the list.
THEOREM BlocksCorrect == Spec => []BlocksSound
  BY PmmInit, PmmStep, PmmInvSound, PTL DEF Spec
-----------------------------------------------------------------------------
(* First fit over the list is first fit over the pages.                    *)

\* A run of free pages lies within one block: the page behind a block is not free.
LEMMA RunWithinBlock ==
    ASSUME PmmInv, NEW n \in 1..NPAGE, NEW c \in 0..(NPAGE - n), c..(c + n - 1) \subseteq Covered(Area)
    PROVE  \E j \in 1..Len(free_list) : free_list[j] <= c /\ c + n <= End(Area, j)
<1> DEFINE N == Len(free_list)
<1>0. Area.list = free_list /\ NPAGE \in Int /\ c \in Int /\ n \in Int /\ 1 <= n /\ 0 <= c /\ c + n <= NPAGE
  BY NPAGEAssumption DEF Area
<1>1. /\ N \in Nat
      /\ \A i \in 1..N : free_list[i] \in Int /\ End(Area, i) \in Int /\ free_list[i] < End(Area, i)
      /\ \A i, j \in 1..N : i < j => End(Area, i) <= free_list[j]
  BY <1>0, AreaBlocks DEF PmmInv
<1>2. c \in c..(c + n - 1)
  BY <1>0
<1>3. PICK j \in 1..N : free_list[j] <= c /\ c < End(Area, j)
  BY <1>0, <1>2 DEF Covered
<1>4. c + n <= End(Area, j)
  <2> SUFFICES ASSUME End(Area, j) < c + n PROVE FALSE
    BY <1>0, <1>1
  <2>1. End(Area, j) \in c..(c + n - 1)
    BY <1>0, <1>1, <1>3
  <2>2. PICK k \in 1..N : free_list[k] <= End(Area, j) /\ End(Area, j) < End(Area, k)
    BY <1>0, <2>1 DEF Covered
  <2>3. k # j
    BY <1>1, <2>2
  <2>4. CASE k < j
    <3>1. End(Area, k) <= free_list[j] /\ free_list[j] < End(Area, j)
      BY <1>1, <2>4
    <3>2. QED
      BY <1>1, <2>2, <3>1
  <2>5. CASE j < k
    <3>1. j \in 1..(N - 1) /\ j + 1 \in 1..N
      BY <1>1, <2>5
    <3>2. End(Area, j) # free_list[j + 1] /\ End(Area, j) <= free_list[j + 1]
      <4>1. End(Area, j) # free_list[j + 1]
        BY <1>0, <3>1 DEF PmmInv, Touches
      <4>2. j < j + 1
        BY <1>1
      <4>3. QED
        BY <1>1, <3>1, <4>1, <4>2
    <3>3. free_list[j + 1] <= free_list[k]
      <4>1. CASE j + 1 = k
        BY <1>1, <4>1
      <4>2. CASE j + 1 < k
        BY <1>1, <3>1, <4>2
      <4>3. QED
        BY <1>1, <2>5, <4>1, <4>2
    <3>4. QED
      BY <1>1, <2>2, <3>1, <3>2, <3>3
  <2>6. QED
    BY <1>1, <2>3, <2>4, <2>5
<1>5. QED
  BY <1>3, <1>4

MapOK == FreePages = Covered(Area)

LEMMA MapHolds == PmmInv => MapOK
  BY FreePagesCovered DEF PmmInv, MapOK

\* A block that first_fit finds is at the lowest run of n free pages.
LEMMA FirstFitLowest ==
    ASSUME PmmInv, NEW n \in 1..NPAGE, NEW i \in first_fit(n)
    PROVE  /\ free_list[i] \in 0..(NPAGE - n) /\ Extent(free_list[i], n) \subseteq Covered(Area)
           /\ \A c \in 0..(NPAGE - n) : Extent(c, n) \subseteq Covered(Area) => free_list[i] <= c
<1> DEFINE N == Len(free_list)
<1>0. /\ Area.list = free_list /\ Area.prop = property /\ NPAGE \in Int /\ n \in Int /\ 1 <= n
      /\ \A p \in Page : p \in Int /\ 0 <= p
  BY NPAGEAssumption DEF Area, Page
<1>1. AreaOK(Area)
  BY DEF PmmInv
<1>2. /\ N \in Nat
      /\ \A k \in 1..N : /\ free_list[k] \in Page /\ free_list[k] \in Int /\ End(Area, k) \in Int
                         /\ property[free_list[k]] \in Nat /\ End(Area, k) <= NPAGE
                         /\ End(Area, k) = free_list[k] + property[free_list[k]]
                         /\ free_list[k] < End(Area, k)
      /\ \A k, l \in 1..N : k < l => End(Area, k) <= free_list[l]
  <2>1. /\ Len(Area.list) \in Nat
        /\ \A k \in 1..Len(Area.list) :
              /\ Area.list[k] \in Page /\ Area.list[k] \in Int /\ End(Area, k) \in Int
              /\ Area.prop[Area.list[k]] \in Nat /\ End(Area, k) <= NPAGE
              /\ End(Area, k) = Area.list[k] + Area.prop[Area.list[k]]
              /\ Area.list[k] < End(Area, k)
        /\ \A k, l \in 1..Len(Area.list) : k < l => End(Area, k) <= Area.list[l]
    BY ONLY <1>1, AreaBlocks, Zenon
  <2>2. QED
    BY ONLY <1>0, <2>1, Zenon
<1>3. i \in 1..N /\ property[free_list[i]] >= n /\ \A j \in 1..(i - 1) : property[free_list[j]] < n
  BY DEF first_fit
<1>4. /\ free_list[i] \in Int /\ 0 <= free_list[i] /\ End(Area, i) <= NPAGE /\ End(Area, i) \in Int
      /\ free_list[i] + n <= End(Area, i)
  <2>1. /\ free_list[i] \in Page /\ free_list[i] \in Int /\ property[free_list[i]] \in Nat
        /\ End(Area, i) = free_list[i] + property[free_list[i]] /\ End(Area, i) <= NPAGE
    BY ONLY <1>2, <1>3
  <2>2. QED
    BY ONLY <1>0, <1>3, <2>1
<1>5. free_list[i] \in 0..(NPAGE - n)
  BY ONLY <1>0, <1>4
<1>6. Extent(free_list[i], n) \subseteq Covered(Area)
  <2> SUFFICES ASSUME NEW p \in Extent(free_list[i], n) PROVE p \in Covered(Area)
    OBVIOUS
  <2>1. p \in Int /\ free_list[i] <= p /\ p < free_list[i] + n
    BY <1>0, <1>4 DEF Extent
  <2>2. p \in Page /\ p < End(Area, i)
    BY <1>0, <1>4, <2>1 DEF Page
  <2>3. QED
    BY <1>0, <1>3, <2>1, <2>2 DEF Covered
<1>7. ASSUME NEW c \in 0..(NPAGE - n), Extent(c, n) \subseteq Covered(Area) PROVE free_list[i] <= c
  <2>1. PICK j \in 1..N : free_list[j] <= c /\ c + n <= End(Area, j)
    BY <1>7, RunWithinBlock DEF Extent
  <2>2. /\ free_list[j] \in Int /\ property[free_list[j]] \in Nat /\ c \in Int
        /\ End(Area, j) = free_list[j] + property[free_list[j]]
    BY <1>0, <1>2
  <2>3. property[free_list[j]] >= n
    BY ONLY <1>0, <2>1, <2>2
  <2>4. ~(j \in 1..(i - 1))
    BY ONLY <1>0, <1>3, <2>2, <2>3
  <2>5. j = i \/ i < j
    BY ONLY <1>2, <1>3, <2>4
  <2>6. ASSUME i < j PROVE free_list[i] < free_list[j]
    <3>1. End(Area, i) <= free_list[j] /\ free_list[i] < End(Area, i)
      BY ONLY <1>2, <1>3, <2>6
    <3>2. QED
      BY ONLY <1>4, <2>2, <3>1
  <2>7. QED
    BY ONLY <1>4, <2>1, <2>2, <2>5, <2>6
<1>8. QED
  BY <1>5, <1>6, <1>7

\* default_alloc_pages gives up only if there is no run of n free pages: neither
\* its look at nr_free nor the search over the list turns down what could be met.
LEMMA FailsOnlyIfNone ==
    ASSUME PmmInv, NEW n \in 1..NPAGE, n > nr_free \/ first_fit(n) = {},
           NEW c \in 0..(NPAGE - n), Extent(c, n) \subseteq Covered(Area)
    PROVE  FALSE
<1> DEFINE N == Len(free_list)
           S == {j \in 1..N : property[free_list[j]] >= n}
<1>0. /\ Area.list = free_list /\ Area.prop = property /\ NPAGE \in Int /\ n \in Int /\ c \in Page
      /\ c \in Int
  BY NPAGEAssumption DEF Area, Page
<1>1. CASE n > nr_free
  <2>1. Cardinality(Extent(c, n)) = n /\ IsFiniteSet(Covered(Area)) /\ Cardinality(Covered(Area)) \in Nat
    BY <1>0, ExtentSize, CoveredFinite
  <2>2. Cardinality(Extent(c, n)) <= Cardinality(Covered(Area))
    BY <2>1, FS_Subset
  <2>3. QED
    BY <1>0, <1>1, <2>1, <2>2 DEF PmmInv
<1>2. CASE first_fit(n) = {}
  <2>1. PICK j \in 1..N : free_list[j] <= c /\ c + n <= End(Area, j)
    BY RunWithinBlock DEF Extent
  <2>2. N \in Nat /\ \A k \in 1..N : property[free_list[k]] \in Nat
    BY <1>0, AreaFacts DEF PmmInv
  <2>3. j \in S
    <3>1. free_list[j] \in Int /\ End(Area, j) = free_list[j] + property[free_list[j]]
      BY <1>0, AreaFacts DEF PmmInv
    <3>2. property[free_list[j]] >= n
      BY ONLY <1>0, <2>1, <2>2, <3>1
    <3>3. QED
      BY <3>2
  <2>4. S \in SUBSET Nat /\ S # {}
    BY <2>2, <2>3
  <2>5. Min(S) \in S /\ \A x \in S : Min(S) <= x
    BY <2>4, LeastElement
  <2>6. Min(S) \in 1..N /\ property[free_list[Min(S)]] >= n
    BY <2>5
  <2>7. ASSUME NEW l \in 1..(Min(S) - 1) PROVE property[free_list[l]] < n
    <3>1. l \in 1..N /\ ~(Min(S) <= l)
      BY <2>2, <2>6
    <3>2. l \notin S
      BY <2>5, <3>1
    <3>3. ~(property[free_list[l]] >= n)
      BY <3>1, <3>2
    <3>4. QED
      BY <1>0, <2>2, <3>1, <3>3
  <2>8. Min(S) \in first_fit(n)
    BY <2>6, <2>7 DEF first_fit
  <2>9. QED
    BY <1>2, <2>8
<1>3. QED
  BY <1>1, <1>2

LEMMA RefineAlloc ==
    ASSUME PmmInv, MapOK, MapOK', NEW n \in 1..NPAGE, default_alloc_pages(n)
    PROVE  Abstract!Alloc(n)
<1>1. PICK i \in first_fit(n) :
         Covered(Area)' = Covered(Area) \ Extent(free_list[i], n) /\ result' = free_list[i]
  BY AllocArea DEF PmmInv
<1>2. /\ free_list[i] \in 0..(NPAGE - n) /\ Extent(free_list[i], n) \subseteq Covered(Area)
      /\ \A c \in 0..(NPAGE - n) : Extent(c, n) \subseteq Covered(Area) => free_list[i] <= c
  BY FirstFitLowest
<1>3. \A c : Abstract!Run(c, n) = Extent(c, n)
  BY DEF Abstract!Run, Extent
<1>4. FreePages' = FreePages \ Extent(free_list[i], n) /\ FreePages = Covered(Area)
  BY <1>1 DEF MapOK
<1>5. \A c : c \in Abstract!Fits(n) <=> c \in 0..(NPAGE - n) /\ Extent(c, n) \subseteq FreePages
  BY <1>3 DEF Abstract!Fits
<1>6. free_list[i] \in Abstract!Fits(n) /\ \A c \in Abstract!Fits(n) : free_list[i] <= c
  BY <1>2, <1>4, <1>5
<1>7. QED
  BY <1>1, <1>3, <1>4, <1>6 DEF Abstract!Alloc

LEMMA RefineStep ==
    ASSUME PmmInv, MapOK, MapOK', [Next]_vars
    PROVE  [Abstract!Next]_<<FreePages, result>>
<1>1. ASSUME NEW n \in 1..NPAGE, default_alloc_pages(n) PROVE Abstract!Next
  BY <1>1, RefineAlloc DEF Abstract!Next
<1>2. ASSUME NEW n \in 1..(NPAGE + 1), default_alloc_pages_fail(n) PROVE Abstract!Next
  <2>1. Area' = Area /\ result' = NULL /\ (n > nr_free \/ first_fit(n) = {})
    BY <1>2 DEF default_alloc_pages_fail, Area
  <2>2. FreePages' = FreePages /\ FreePages = Covered(Area)
    BY <2>1 DEF MapOK
  <2>3. ~\E c \in 0..(NPAGE - n) : Extent(c, n) \subseteq FreePages
    <3>1. CASE n \in 1..NPAGE
      BY <2>1, <2>2, <3>1, FailsOnlyIfNone
    <3>2. CASE n = NPAGE + 1
      <4>1. 0..(NPAGE - n) = {}
        BY <3>2, NPAGEAssumption
      <4>2. QED
        BY <4>1
    <3>3. QED
      BY <3>1, <3>2, NPAGEAssumption
  <2>4. Abstract!Fits(n) = {}
    BY <2>3 DEF Abstract!Fits, Abstract!Run, Extent
  <2>5. QED
    BY <2>1, <2>2, <2>4 DEF Abstract!Next, Abstract!AllocFails
<1>3. ASSUME NEW n \in 1..NPAGE, NEW base \in Page, default_free_pages(base, n) PROVE Abstract!Next
  <2>1. /\ Covered(Area)' = Covered(Area) \cup Extent(base, n) /\ result' = result
        /\ Extent(base, n) \cap Covered(Area) = {} /\ base + n <= NPAGE
    BY <1>3, FreeStep DEF default_free_pages
  <2>2. base \in 0..(NPAGE - n)
    BY <2>1, NPAGEAssumption DEF Page
  <2>3. Abstract!Run(base, n) = Extent(base, n)
    BY DEF Abstract!Run, Extent
  <2>4. Abstract!Free(base, n)
    BY <2>1, <2>3 DEF Abstract!Free, MapOK
  <2>5. QED
    BY <2>2, <2>4 DEF Abstract!Next
<1>4. CASE UNCHANGED vars
  <2>1. Area' = Area /\ result' = result
    BY <1>4 DEF vars, Area
  <2>2. QED
    BY <2>1 DEF MapOK
<1>5. QED
  BY <1>1, <1>2, <1>3, <1>4 DEF Next

\* For any number of pages: default_pmm.c implements first fit over a set of pages.
\* A request takes the lowest run of n free pages, whatever the list has been
\* through, and fails only if there is none; default_free_pages adds the pages of
\* its block, which were not free.
THEOREM FirstFitCorrect == Spec => ImplementsPmmSpec
<1>1. Init /\ MapOK => Abstract!Init
  <2> SUFFICES ASSUME Init, MapOK PROVE Abstract!Init
    OBVIOUS
  <2> USE NPAGEAssumption DEF Init
  <2>1. /\ Area.list = <<0>> /\ Area.prop[0] = NPAGE /\ Len(Area.list) = 1 /\ Area.list[1] = 0
        /\ End(Area, 1) = NPAGE
    BY DEF Area, Page, End
  <2>2. Covered(Area) = 0..(NPAGE - 1)
    BY <2>1 DEF Covered, Page
  <2>3. QED
    BY <2>2 DEF MapOK, Abstract!Init
<1>2. PmmInv /\ MapOK /\ MapOK' /\ [Next]_vars => [Abstract!Next]_<<FreePages, result>>
  BY RefineStep
<1>3. QED
  BY <1>1, <1>2, PmmInit, PmmStep, MapHolds, PTL DEF Spec, ImplementsPmmSpec, Abstract!Spec

(***************************************************************************)
(* The heap.                                                               *)
(***************************************************************************)

Apart(a, b) == a[1] + a[2] <= b[1] \/ b[1] + b[2] <= a[1]

\* A list of free blocks: the arena on it, no two blocks overlap or touch.
ListOK(h) ==
    /\ \A b \in h.free : b \in Int \X (Nat \ {0}) /\ (b = <<ARENA, 1>> \/ 0 <= b[1])
    /\ <<ARENA, 1>> \in h.free
    /\ \A a, b \in h.free : a # b => Apart(a, b)
    /\ \A a, b \in h.free : a[1] + a[2] # b[1]
    /\ \E b \in h.free : b[1] = h.at

Cells(B) == UNION {Units(b) : b \in B}

PageCells(P) == UNION {(p * PageUnits)..(p * PageUnits + PageUnits - 1) : p \in P}

Sound(h, G, P) ==
    /\ ListOK(h)
    /\ \A g \in G : g \in Nat \X (Nat \ {0})
    /\ \A a, b \in G : a # b => Units(a) \cap Units(b) = {}
    /\ Cells(G) \cap Cells(h.free) = {}
    /\ Cells(h.free) \cup Cells(G) = {ARENA} \cup PageCells(P)
-----------------------------------------------------------------------------
(* Blocks.                                                                 *)

LEMMA CellsMember ==
    ASSUME NEW B, NEW u
    PROVE  u \in Cells(B) <=> \E b \in B : u \in Units(b)
  BY DEF Cells

LEMMA UnitsMember ==
    ASSUME NEW b \in Int \X Int, NEW u
    PROVE  u \in Units(b) <=> u \in Int /\ b[1] <= u /\ u < b[1] + b[2]
<1>1. b[1] \in Int /\ b[2] \in Int
  OBVIOUS
<1>2. QED
  BY <1>1 DEF Units

LEMMA ApartDisjoint ==
    ASSUME NEW a \in Int \X (Nat \ {0}), NEW b \in Int \X (Nat \ {0})
    PROVE  Units(a) \cap Units(b) = {} <=> Apart(a, b)
<1>1. /\ a[1] \in Int /\ a[2] \in Int /\ a[2] >= 1 /\ b[1] \in Int /\ b[2] \in Int /\ b[2] >= 1
      /\ a \in Int \X Int /\ b \in Int \X Int
  OBVIOUS
<1>2. ASSUME Apart(a, b) PROVE Units(a) \cap Units(b) = {}
  BY <1>1, <1>2, UnitsMember DEF Apart
<1>3. ASSUME ~Apart(a, b) PROVE \E u : u \in Units(a) /\ u \in Units(b)
  <2>1. CASE a[1] <= b[1]
    BY <1>1, <1>3, <2>1, UnitsMember DEF Apart
  <2>2. CASE b[1] < a[1]
    BY <1>1, <1>3, <2>2, UnitsMember DEF Apart
  <2>3. QED
    BY <1>1, <2>1, <2>2
<1>4. QED
  BY <1>2, <1>3

\* What ListOK says of a block, in numbers.
LEMMA ListFacts ==
    ASSUME NEW h, ListOK(h), NEW b \in h.free
    PROVE  /\ b = <<b[1], b[2]>> /\ b[1] \in Int /\ b[2] \in Int /\ b[2] >= 1
           /\ b[1] >= -2 /\ (b[1] < 0 => b = <<ARENA, 1>>)
           /\ b \in Int \X (Nat \ {0})
           /\ \A c \in h.free : c # b => c[1] # b[1]
           /\ units(h, b[1]) = b[2]
<1>1. b \in Int \X (Nat \ {0}) /\ (b = <<ARENA, 1>> \/ 0 <= b[1])
  BY DEF ListOK
<1>2. b = <<b[1], b[2]>> /\ b[1] \in Int /\ b[2] \in Int /\ b[2] >= 1
  BY <1>1
<1>3. b[1] >= -2 /\ (b[1] < 0 => b = <<ARENA, 1>>)
  BY <1>1, <1>2 DEF ARENA
<1>4. ASSUME NEW c \in h.free, c # b PROVE c[1] # b[1]
  <2>1. c[1] \in Int /\ c[2] \in Int /\ c[2] >= 1 /\ Apart(c, b)
    BY <1>4 DEF ListOK
  <2>2. QED
    BY <1>2, <2>1 DEF Apart
<1>5. units(h, b[1]) = b[2]
  <2> DEFINE c == CHOOSE x \in h.free : x[1] = b[1]
  <2>1. c \in h.free /\ c[1] = b[1]
    OBVIOUS
  <2>2. c = b
    BY <1>4, <2>1
  <2>3. QED
    BY <2>2 DEF units
<1>6. QED
  BY <1>1, <1>2, <1>3, <1>4, <1>5

LEMMA GreatestElement ==
    ASSUME NEW S \in SUBSET Int, NEW bound \in Int, \A x \in S : x < bound, S # {}
    PROVE  Max(S) \in S /\ \A x \in S : x <= Max(S)
<1> DEFINE T == {bound - x : x \in S}
           m == bound - Min(T)
<1>1. T \in SUBSET Nat /\ T # {}
  <2>1. \A x \in S : bound - x \in Nat
    OBVIOUS
  <2>2. QED
    BY <2>1
<1>2. Min(T) \in T /\ \A x \in T : Min(T) <= x
  BY <1>1, LeastElement
<1>3. m \in S /\ \A x \in S : x <= m
  <2>1. PICK y \in S : Min(T) = bound - y
    BY <1>2
  <2>2. m = y
    BY <2>1
  <2>3. ASSUME NEW x \in S PROVE x <= y
    <3>1. bound - y <= bound - x
      BY <1>2, <2>1
    <3>2. QED
      BY <3>1
  <2>4. QED
    BY <2>2, <2>3
<1>4. \E y \in S : \A x \in S : x <= y
  BY <1>3
<1>5. QED
  BY <1>4 DEF Max

\* The block before an address.
LEMMA BeforeFound ==
    ASSUME NEW h, ListOK(h), NEW addr \in Nat
    PROVE  \E c \in h.free : /\ c[1] = before(h, addr) /\ c[1] < addr
                             /\ \A d \in h.free : d[1] < addr => d[1] <= c[1]
<1> DEFINE S == {b[1] : b \in {c \in h.free : c[1] < addr}}
<1>1. \A b \in h.free : b[1] \in Int
  BY ListFacts
<1>2. S \in SUBSET Int /\ (\A x \in S : x < addr) /\ addr \in Int
  BY <1>1
<1>3. ARENA \in S
  <2>1. <<ARENA, 1>> \in h.free /\ <<ARENA, 1>>[1] = ARENA /\ ARENA < addr
    BY DEF ListOK, ARENA
  <2>2. QED
    BY <2>1
<1>4. Max(S) \in S /\ \A x \in S : x <= Max(S)
  BY <1>2, <1>3, GreatestElement
<1>5. before(h, addr) = Max(S)
  BY DEF before
<1>6. QED
  BY <1>4, <1>5
-----------------------------------------------------------------------------
(* Lists of free blocks.                                                   *)

\* Blocks are replaced by one that neither overlaps nor touches the others.
LEMMA Replaced ==
    ASSUME NEW h, ListOK(h), NEW gone \in SUBSET h.free, <<ARENA, 1>> \notin gone,
           NEW new \in Nat \X (Nat \ {0}),
           \A b \in h.free \ gone : b[1] + b[2] < new[1] \/ new[1] + new[2] < b[1],
           NEW k, k.free = (h.free \ gone) \cup {new}, \E b \in k.free : b[1] = k.at
    PROVE  ListOK(k)
<1> DEFINE kept == h.free \ gone
<1>0. /\ \A b \in kept : /\ b \in h.free /\ b \in Int \X (Nat \ {0}) /\ (b = <<ARENA, 1>> \/ 0 <= b[1])
                         /\ b[1] \in Int /\ b[2] \in Int /\ b[2] >= 1
      /\ new[1] \in Int /\ 0 <= new[1] /\ new[2] \in Int /\ new[2] >= 1 /\ new \in Int \X (Nat \ {0})
  BY DEF ListOK
<1>1. \A b \in k.free : b \in kept \/ b = new
  OBVIOUS
<1>2. \A b \in kept : b[1] + b[2] < new[1] \/ new[1] + new[2] < b[1]
  OBVIOUS
<1>3. <<ARENA, 1>> \in k.free
  BY DEF ListOK
<1>4. \A b \in kept : /\ Apart(b, new) /\ Apart(new, b)
                      /\ b[1] + b[2] # new[1] /\ new[1] + new[2] # b[1]
  BY <1>0, <1>2 DEF Apart
<1>5. \A a, b \in kept : (a # b => Apart(a, b)) /\ a[1] + a[2] # b[1]
  BY DEF ListOK
<1>6. new[1] + new[2] # new[1]
  BY <1>0
<1> HIDE DEF kept
<1>7. \A a, b \in k.free : a # b => Apart(a, b)
  BY <1>1, <1>4, <1>5
<1>8. \A a, b \in k.free : a[1] + a[2] # b[1]
  BY <1>1, <1>4, <1>5, <1>6
<1>9. \A b \in k.free : b \in Int \X (Nat \ {0}) /\ (b = <<ARENA, 1>> \/ 0 <= b[1])
  BY <1>0, <1>1
<1>10. QED
  BY <1>3, <1>7, <1>8, <1>9 DEF ListOK

LEMMA Removed ==
    ASSUME NEW h, ListOK(h), NEW b \in h.free, b # <<ARENA, 1>>,
           NEW k, k.free = h.free \ {b}, \E c \in k.free : c[1] = k.at
    PROVE  ListOK(k)
  BY DEF ListOK

\* Where the search of slob_alloc stops.
LEMMA NextFitFound ==
    ASSUME NEW h, ListOK(h), NEW n \in Nat, n >= 2, fits(h, n) # {}
    PROVE  \E b \in h.free : b[1] = next_fit(h, n) /\ b[2] >= n /\ b[1] >= 0
<1> DEFINE F == fits(h, n)
           behind == {a \in F : a > h.at}
<1>1. \A b \in h.free : b[2] >= n => b[1] \in Nat
  <2> SUFFICES ASSUME NEW b \in h.free, b[2] >= n PROVE b[1] \in Nat
    OBVIOUS
  <2>1. b[1] \in Int /\ (b[1] < 0 => b = <<ARENA, 1>>)
    BY ListFacts
  <2>2. b # <<ARENA, 1>>
    OBVIOUS
  <2>3. QED
    BY <2>1, <2>2
<1>2. F \in SUBSET Nat
  BY <1>1 DEF fits
<1>3. \A S \in SUBSET F : S # {} => Min(S) \in F
  BY <1>2, LeastElement
<1>4. next_fit(h, n) = IF behind # {} THEN Min(behind) ELSE Min(F)
  BY DEF next_fit
<1>5. next_fit(h, n) \in F
  <2>1. behind \in SUBSET F /\ F \in SUBSET F
    OBVIOUS
  <2> HIDE DEF behind, F
  <2>2. QED
    BY <1>3, <1>4, <2>1 DEF F
<1>6. QED
  BY <1>1, <1>5 DEF fits

\* slob_alloc from a list with a block that fits: n units leave the list.
LEMMA TakeList ==
    ASSUME NEW h, ListOK(h), NEW n \in Nat, n >= 2, fits(h, n) # {}
    PROVE  /\ next_fit(h, n) \in Nat
           /\ ListOK(take(h, n))
           /\ Units(<<next_fit(h, n), n>>) \subseteq Cells(h.free)
           /\ Cells(take(h, n).free) = Cells(h.free) \ Units(<<next_fit(h, n), n>>)
<1> DEFINE a == next_fit(h, n)
           t == take(h, n)
<1>1. PICK b \in h.free : b[1] = a /\ b[2] >= n /\ b[1] >= 0
  BY NextFitFound
<1>2. /\ b = <<b[1], b[2]>> /\ b[1] \in Nat /\ b[2] \in Nat /\ units(h, b[1]) = b[2] /\ b # <<ARENA, 1>>
  <2>1. b = <<b[1], b[2]>> /\ b[1] \in Int /\ b[2] \in Int /\ units(h, b[1]) = b[2]
    BY ListFacts
  <2>2. b # <<ARENA, 1>>
    BY <1>1
  <2>3. QED
    BY <1>1, <2>1, <2>2
<1> DEFINE frag == <<b[1] + n, b[2] - n>>
<1>3. t.free = (h.free \ {b}) \cup (IF b[2] = n THEN {} ELSE {frag}) /\ t.at = before(h, b[1])
  <2>1. t.free = cut(h, b[1], n) /\ t.at = before(h, b[1])
    BY <1>1 DEF take
  <2>2. cut(h, b[1], n) = (h.free \ {<<b[1], b[2]>>}) \cup (IF b[2] = n THEN {} ELSE {frag})
    BY <1>2 DEF cut
  <2> HIDE DEF frag, t
  <2>3. QED
    BY <1>2, <2>1, <2>2
<1> HIDE DEF t, a
<1>4. \E c \in t.free : c[1] = t.at
  <2>1. PICK c \in h.free : c[1] = before(h, b[1]) /\ c[1] < b[1]
    BY <1>2, BeforeFound
  <2>2. c # b
    BY <1>2, <2>1
  <2>3. QED
    BY <1>3, <2>1, <2>2
<1>5. \A c \in h.free \ {b} : /\ c[1] \in Int /\ c[2] \in Int /\ c[2] >= 1 /\ c \in Int \X Int
                              /\ c[1] + c[2] < b[1] \/ b[1] + b[2] < c[1]
  <2> TAKE c \in h.free \ {b}
  <2>1. c[1] \in Int /\ c[2] \in Int /\ c[2] >= 1 /\ c \in Int \X (Nat \ {0})
    BY ListFacts
  <2>2. Apart(c, b) /\ c[1] + c[2] # b[1] /\ b[1] + b[2] # c[1]
    BY DEF ListOK
  <2>3. QED
    BY <1>2, <2>1, <2>2 DEF Apart
<1>6. \A u : u \in Cells(h.free) <=> u \in Cells(h.free \ {b}) \/ u \in Units(b)
  BY CellsMember
<1>7. \A u : u \in Units(b) <=> u \in Int /\ b[1] <= u /\ u < b[1] + b[2]
  <2>1. b \in Int \X Int
    BY <1>2
  <2>2. QED
    BY <2>1, UnitsMember
<1>8. \A u : u \in Cells(h.free \ {b}) => u \in Int /\ ~(b[1] <= u /\ u < b[1] + b[2])
  <2> SUFFICES ASSUME NEW u, NEW c \in h.free \ {b}, u \in Units(c)
               PROVE  u \in Int /\ ~(b[1] <= u /\ u < b[1] + b[2])
    BY CellsMember
  <2>1. u \in Int /\ c[1] <= u /\ u < c[1] + c[2]
    BY <1>5, UnitsMember
  <2>2. QED
    BY <1>2, <1>5, <2>1
<1>9. \A u : u \in Units(<<b[1], n>>) <=> u \in Int /\ b[1] <= u /\ u < b[1] + n
  <2>1. <<b[1], n>> \in Int \X Int /\ <<b[1], n>>[1] = b[1] /\ <<b[1], n>>[2] = n
    BY <1>2
  <2>2. QED
    BY <2>1, UnitsMember
<1>10. Units(<<b[1], n>>) \subseteq Cells(h.free)
  BY <1>1, <1>2, <1>6, <1>7, <1>9
<1>11. ListOK(t) /\ Cells(t.free) = Cells(h.free) \ Units(<<b[1], n>>)
  <2>1. CASE b[2] = n
    <3>1. t.free = h.free \ {b}
      BY <1>3, <2>1
    <3>2. ListOK(t)
      BY <1>2, <1>4, <3>1, Removed
    <3>3. \A u : u \in Cells(t.free) <=> u \in Cells(h.free) /\ ~(u \in Units(<<b[1], n>>))
      BY <1>6, <1>7, <1>8, <1>9, <2>1, <3>1
    <3>4. QED
      BY <3>2, <3>3
  <2>2. CASE b[2] # n
    <3>1. t.free = (h.free \ {b}) \cup {frag}
      BY <1>3, <2>2
    <3>2. frag \in Nat \X (Nat \ {0}) /\ frag[1] = b[1] + n /\ frag[2] = b[2] - n
      BY <1>1, <1>2, <2>2
    <3> HIDE DEF frag
    <3>3. \A c \in h.free \ {b} : c[1] + c[2] < frag[1] \/ frag[1] + frag[2] < c[1]
      BY <1>2, <1>5, <3>2
    <3> DEFINE gone == {b}
    <3>4. gone \in SUBSET h.free /\ <<ARENA, 1>> \notin gone
      BY <1>2
    <3> HIDE DEF gone
    <3>5. ListOK(t)
      <4>1. \A c \in h.free \ gone : c[1] + c[2] < frag[1] \/ frag[1] + frag[2] < c[1]
        BY <3>3 DEF gone
      <4>2. t.free = (h.free \ gone) \cup {frag} /\ frag \in Nat \X (Nat \ {0})
        BY <3>1, <3>2 DEF gone
      <4>3. QED
        BY ONLY ListOK(h), <1>4, <3>4, <4>1, <4>2, Replaced, ZenonT(60)
    <3>6. \A u : u \in Units(frag) <=> u \in Int /\ b[1] + n <= u /\ u < b[1] + b[2]
      <4>1. frag \in Int \X Int /\ frag[1] + frag[2] = b[1] + b[2]
        BY <1>2, <3>2
      <4>2. QED
        BY <3>2, <4>1, UnitsMember
    <3>7. \A u : u \in Cells(t.free) <=> u \in Cells(h.free \ {b}) \/ u \in Units(frag)
      BY <3>1, CellsMember
    <3>8. ASSUME NEW u PROVE u \in Cells(t.free) <=> u \in Cells(h.free) /\ ~(u \in Units(<<b[1], n>>))
      <4>1. CASE u \in Int
        <5>1. (u \in Units(b) /\ ~(u \in Units(<<b[1], n>>))) <=> u \in Units(frag)
          BY <1>1, <1>2, <1>7, <1>9, <3>6, <4>1
        <5>2. u \in Cells(h.free \ {b}) => ~(u \in Units(<<b[1], n>>))
          BY <1>1, <1>2, <1>8, <1>9, <4>1
        <5>3. QED
          BY <1>6, <3>7, <5>1, <5>2
      <4>2. CASE u \notin Int
        BY <1>6, <1>7, <1>8, <3>6, <3>7, <4>2
      <4>3. QED
        BY <4>1, <4>2
    <3>9. QED
      BY <3>5, <3>8
  <2>3. QED
    BY <2>1, <2>2
<1>12. QED
  BY <1>1, <1>2, <1>10, <1>11 DEF t, a

\* slob_free of a block that overlaps none on the list: its units join the list.
LEMMA FreeList ==
    ASSUME NEW h, ListOK(h), NEW a \in Nat, NEW n \in Nat \ {0},
           \A b \in h.free : Apart(b, <<a, n>>)
    PROVE  /\ ListOK(slob_free(h, a, n))
           /\ Cells(slob_free(h, a, n).free) = Cells(h.free) \cup Units(<<a, n>>)
           /\ \E b \in slob_free(h, a, n).free : b[2] >= n
<1> DEFINE k == slob_free(h, a, n)
           next == {b \in h.free : b[1] = a + n}
           m == IF next = {} THEN 0 ELSE units(h, a + n)
<1>0. /\ \A b \in h.free : /\ b = <<b[1], b[2]>> /\ b[1] \in Int /\ b[2] \in Int /\ b[2] >= 1
                           /\ b \in Int \X Int /\ (b = <<ARENA, 1>> \/ 0 <= b[1])
                           /\ units(h, b[1]) = b[2]
      /\ a \in Int /\ 0 <= a /\ n \in Int /\ 1 <= n
  BY ListFacts DEF ListOK
<1>1. \A b \in h.free : b[1] + b[2] <= a \/ a + n <= b[1]
  BY DEF Apart
<1>2. \A b, c \in h.free : b # c => b[1] + b[2] < c[1] \/ c[1] + c[2] < b[1]
  <2>1. \A b, c \in h.free : /\ b # c => b[1] + b[2] <= c[1] \/ c[1] + c[2] <= b[1]
                             /\ b[1] + b[2] # c[1] /\ c[1] + c[2] # b[1]
    BY DEF ListOK, Apart
  <2>2. QED
    BY <1>0, <2>1
<1>3. PICK c \in h.free : /\ c[1] = before(h, a) /\ c[1] < a
                          /\ \A d \in h.free : d[1] < a => d[1] <= c[1]
  BY BeforeFound
<1> DEFINE e == a + n + m
           touch == c[1] + c[2] = a
           s == IF touch THEN c[1] ELSE a
           gone == next \cup (IF touch THEN {c} ELSE {})
           new == <<s, e - s>>
\* the block behind
<1>4. /\ m \in Nat /\ m >= 0 /\ (next = {} => m = 0)
      /\ \A d \in next : d \in h.free /\ next = {d} /\ d[1] = a + n /\ d[2] = m
  <2>1. CASE next = {}
    BY <2>1
  <2>2. CASE next # {}
    <3>1. PICK d \in h.free : d[1] = a + n
      BY <2>2
    <3>2. units(h, a + n) = d[2] /\ d[2] \in Nat
      BY <1>0, <3>1
    <3>3. \A b \in h.free : b[1] = a + n => b = d
      BY <1>0, <1>2, <3>1
    <3>4. next = {d}
      BY <3>1, <3>3
    <3>5. QED
      BY <2>2, <3>1, <3>2, <3>4
  <2>3. QED
    BY <2>1, <2>2
\* the block before
<1>5. c[1] + c[2] <= a /\ c \notin next
  BY <1>0, <1>1, <1>3
<1>6. k.free = (h.free \ gone) \cup {new} /\ k.at = c[1]
  <2>1. units(h, c[1]) = c[2] /\ <<c[1], c[2]>> = c
    BY <1>0
  <2> HIDE DEF m, next
  <2>2. k = [at |-> c[1],
             free |-> IF ~touch THEN (h.free \ next) \cup {<<a, n + m>>}
                      ELSE ((h.free \ next) \ {c}) \cup {<<c[1], c[2] + (n + m)>>}]
    BY <1>3, <2>1 DEF slob_free, m, next
  <2>3. CASE touch
    <3>1. e - s = c[2] + (n + m) /\ s = c[1]
      BY <1>0, <1>4, <2>3
    <3>2. k.free = ((h.free \ next) \ {c}) \cup {<<c[1], c[2] + (n + m)>>} /\ k.at = c[1]
      BY <2>2, <2>3
    <3>3. new = <<c[1], c[2] + (n + m)>> /\ gone = next \cup {c}
      BY <2>3, <3>1
    <3> HIDE DEF new, gone, k
    <3>4. QED
      BY <3>2, <3>3
  <2>4. CASE ~touch
    <3>1. e - s = n + m /\ s = a
      BY <1>0, <1>4, <2>4
    <3>2. k.free = (h.free \ next) \cup {<<a, n + m>>} /\ k.at = c[1]
      BY <2>2, <2>4
    <3>3. new = <<a, n + m>> /\ gone = next
      BY <2>4, <3>1
    <3> HIDE DEF new, gone, k
    <3>4. QED
      BY <3>2, <3>3
  <2>5. QED
    BY <2>3, <2>4
<1>7. /\ new \in Nat \X (Nat \ {0}) /\ new[1] = s /\ new[2] = e - s /\ s \in Nat /\ e \in Nat
      /\ s <= a /\ a + n <= e /\ e - s >= n
  <2>1. s \in Nat /\ s <= a
    <3>1. CASE touch
      BY <1>0, <1>3, <3>1 DEF ARENA
    <3>2. CASE ~touch
      BY <3>2
    <3>3. QED
      BY <3>1, <3>2
  <2>2. e \in Nat /\ a + n <= e
    BY <1>0, <1>4
  <2> HIDE DEF s, e
  <2>3. QED
    BY <1>0, <2>1, <2>2
<1>8. gone \in SUBSET h.free /\ <<ARENA, 1>> \notin gone
  <2>1. touch => c # <<ARENA, 1>>
    BY <1>0 DEF ARENA
  <2>2. \A d \in next : d # <<ARENA, 1>>
    BY <1>0 DEF ARENA
  <2>3. QED
    BY <2>1, <2>2
\* what stays is clear of the new block
<1>9. \A b \in h.free \ gone : b[1] + b[2] < s \/ e < b[1]
  <2> SUFFICES ASSUME NEW b \in h.free \ gone PROVE b[1] + b[2] < s \/ e < b[1]
    OBVIOUS
  <2>1. b[1] \in Int /\ b[2] \in Int /\ b[2] >= 1 /\ c[1] \in Int /\ c[2] \in Int /\ c[2] >= 1
    BY <1>0
  <2>2. CASE b[1] + b[2] <= a
    <3>1. CASE touch
      <4>1. b # c
        BY <3>1
      <4>2. b[1] <= c[1]
        BY <1>0, <1>3, <2>1, <2>2
      <4>3. b[1] + b[2] < c[1]
        BY <1>2, <2>1, <4>1, <4>2
      <4>4. QED
        BY <3>1, <4>3
    <3>2. CASE ~touch
      <4>1. b[1] + b[2] # a
        <5> SUFFICES ASSUME b[1] + b[2] = a PROVE FALSE
          OBVIOUS
        <5>1. b # c /\ b[1] <= c[1]
          BY <1>0, <1>3, <2>1, <3>2
        <5>2. b[1] + b[2] < c[1]
          BY <1>2, <2>1, <5>1
        <5>3. QED
          BY <1>3, <2>1, <5>2
      <4>2. QED
        BY <1>0, <2>1, <2>2, <3>2, <4>1
    <3>3. QED
      BY <3>1, <3>2
  <2>3. CASE a + n <= b[1]
    <3>1. b \notin next
      OBVIOUS
    <3>2. a + n < b[1]
      BY <1>0, <2>1, <2>3, <3>1
    <3>3. CASE next = {}
      BY <1>0, <1>4, <3>2, <3>3
    <3>4. CASE next # {}
      <4>1. PICK d \in next : d \in h.free /\ d[1] = a + n /\ d[2] = m
        BY <1>4, <3>4
      <4>2. d # b
        BY <3>1, <4>1
      <4>3. d[1] + d[2] < b[1] \/ b[1] + b[2] < d[1]
        BY <1>2, <4>1, <4>2
      <4>4. QED
        BY <1>0, <1>4, <2>1, <3>2, <4>1, <4>3
    <3>5. QED
      BY <3>3, <3>4
  <2>4. QED
    BY <1>1, <2>2, <2>3
<1>10. \E b \in k.free : b[1] = k.at
  <2>1. CASE touch
    <3>1. new[1] = c[1] /\ new \in k.free
      BY <1>6, <1>7, <2>1
    <3>2. QED
      BY <1>6, <3>1
  <2>2. CASE ~touch
    <3>1. c \in h.free \ gone
      BY <1>5, <2>2
    <3>2. QED
      BY <1>6, <3>1
  <2>3. QED
    BY <2>1, <2>2
\* the units
<1>11. \A u : u \in Cells(gone) \/ u \in Units(<<a, n>>) <=> u \in Units(new)
  <2>1. \A u : u \in Units(<<a, n>>) <=> u \in Int /\ a <= u /\ u < a + n
    <3>1. <<a, n>> \in Int \X Int /\ <<a, n>>[1] = a /\ <<a, n>>[2] = n
      BY <1>0
    <3>2. QED
      BY <3>1, UnitsMember
  <2>2. \A u : u \in Units(new) <=> u \in Int /\ s <= u /\ u < e
    <3>1. new \in Int \X Int /\ new[1] = s /\ new[1] + new[2] = e
      BY <1>7
    <3>2. QED
      BY <3>1, UnitsMember
  <2>3. \A u : u \in Cells(next) <=> u \in Int /\ a + n <= u /\ u < e
    <3>1. CASE next = {}
      <4>1. \A u : ~(u \in Cells(next))
        BY <3>1, CellsMember
      <4>2. e = a + n
        BY <1>0, <1>4, <3>1
      <4>3. QED
        BY <1>0, <4>1, <4>2
    <3>2. CASE next # {}
      <4>1. PICK d \in next : d \in h.free /\ next = {d} /\ d[1] = a + n /\ d[2] = m
        BY <1>4, <3>2
      <4>2. \A u : u \in Cells(next) <=> u \in Units(d)
        BY <4>1, CellsMember
      <4>3. d[1] + d[2] = e /\ d \in Int \X Int
        BY <1>0, <4>1
      <4>4. QED
        BY <4>1, <4>2, <4>3, UnitsMember
    <3>3. QED
      BY <3>1, <3>2
  <2>4. \A u : u \in Units(c) <=> u \in Int /\ c[1] <= u /\ u < c[1] + c[2]
    BY <1>0, UnitsMember
  <2>5. \A u : u \in Cells(gone) <=> u \in Cells(next) \/ (touch /\ u \in Units(c))
    BY CellsMember
  <2> SUFFICES ASSUME NEW u PROVE u \in Cells(gone) \/ u \in Units(<<a, n>>) <=> u \in Units(new)
    OBVIOUS
  <2>6. CASE u \in Int
    <3>1. u \in Cells(gone) <=> (a + n <= u /\ u < e) \/ (touch /\ c[1] <= u /\ u < c[1] + c[2])
      BY <2>3, <2>4, <2>5, <2>6
    <3>2. (a + n <= u /\ u < e) \/ (touch /\ c[1] <= u /\ u < c[1] + c[2]) \/ (a <= u /\ u < a + n)
            <=> s <= u /\ u < e
      <4>1. e \in Int /\ a + n <= e /\ c[1] \in Int /\ c[2] \in Int /\ c[1] < a
        BY <1>0, <1>3, <1>7
      <4> HIDE DEF e
      <4>2. QED
        BY <1>0, <2>6, <4>1
    <3>3. QED
      BY <2>1, <2>2, <2>6, <3>1, <3>2
  <2>7. CASE u \notin Int
    BY <2>1, <2>2, <2>3, <2>4, <2>5, <2>7
  <2>8. QED
    BY <2>6, <2>7
<1> HIDE DEF k, s, e, gone, new, touch, next, m
<1>12. ListOK(k)
  <2>1. \A b \in h.free \ gone : b[1] + b[2] < new[1] \/ new[1] + new[2] < b[1]
    <3>1. new[1] = s /\ new[1] + new[2] = e
      BY <1>7
    <3>2. QED
      BY <1>9, <3>1
  <2>2. new \in Nat \X (Nat \ {0}) /\ k.free = (h.free \ gone) \cup {new}
    BY <1>6, <1>7
  <2>3. QED
    BY ONLY ListOK(h), <1>8, <1>10, <2>1, <2>2, Replaced, ZenonT(60)
<1>13. Cells(k.free) = Cells(h.free) \cup Units(<<a, n>>)
  <2>1. \A u : u \in Cells(k.free) <=> u \in Cells(h.free \ gone) \/ u \in Units(new)
    BY <1>6, CellsMember
  <2>2. \A u : u \in Cells(h.free) <=> u \in Cells(h.free \ gone) \/ u \in Cells(gone)
    BY <1>8, CellsMember
  <2>3. \A u : u \in Cells(k.free) <=> u \in Cells(h.free) \/ u \in Units(<<a, n>>)
    BY <1>11, <2>1, <2>2
  <2>4. QED
    BY <2>3
<1>14. new \in k.free /\ new[2] >= n
  BY <1>6, <1>7
<1>15. QED
  BY <1>12, <1>13, <1>14 DEF k
-----------------------------------------------------------------------------
(* What happens to the heap keeps it sound.                                *)

\* Units are taken from the list, and from no block given out before.
LEMMA TakeSound ==
    ASSUME NEW h, NEW G, NEW P, Sound(h, G, P), NEW n \in Nat, n >= 2, fits(h, n) # {}
    PROVE  /\ next_fit(h, n) \in Nat
           /\ \A g \in G : g[1] # next_fit(h, n)
           /\ Sound(take(h, n), G \cup {<<next_fit(h, n), n>>}, P)
<1> DEFINE new == <<next_fit(h, n), n>>
           t == take(h, n)
           K == G \cup {new}
<1>0. ListOK(h)
  BY DEF Sound
<1>1. /\ next_fit(h, n) \in Nat /\ ListOK(t) /\ Units(new) \subseteq Cells(h.free)
      /\ Cells(t.free) = Cells(h.free) \ Units(new)
  BY <1>0, TakeList
<1>2. /\ new \in Nat \X (Nat \ {0}) /\ new[1] = next_fit(h, n)
  BY <1>1
<1> HIDE DEF new, t
<1>3. \A g \in G : g \in Nat \X (Nat \ {0}) /\ Units(g) \subseteq Cells(G)
  BY CellsMember DEF Sound
<1>4. \A g \in G : Units(g) \cap Units(new) = {}
  BY <1>1, <1>3 DEF Sound
<1>5. \A b \in Nat \X (Nat \ {0}) : b[1] \in Units(b)
  <2> TAKE b \in Nat \X (Nat \ {0})
  <2>1. b \in Int \X Int /\ b[1] \in Int /\ b[2] \in Int /\ b[2] >= 1
    OBVIOUS
  <2>2. QED
    BY <2>1, UnitsMember
<1>6. \A g \in G : g[1] # new[1]
  BY <1>2, <1>3, <1>4, <1>5
<1>7. Cells(K) = Cells(G) \cup Units(new)
  <2>1. \A u : u \in Cells(K) <=> u \in Cells(G) \/ u \in Units(new)
    BY CellsMember
  <2>2. QED
    BY <2>1
<1>8. \A g \in K : g \in Nat \X (Nat \ {0})
  BY <1>2, <1>3
<1>9. \A a, b \in K : a # b => Units(a) \cap Units(b) = {}
  <2>1. \A a, b \in G : a # b => Units(a) \cap Units(b) = {}
    BY DEF Sound
  <2>2. QED
    BY <1>4, <2>1
<1> HIDE DEF K
<1>10. Cells(G) \cap Cells(h.free) = {} /\ Cells(h.free) \cup Cells(G) = {ARENA} \cup PageCells(P)
  BY DEF Sound
<1>11. Cells(K) \cap Cells(t.free) = {} /\ Cells(t.free) \cup Cells(K) = {ARENA} \cup PageCells(P)
  BY <1>1, <1>7, <1>10
<1>12. Sound(t, K, P)
  BY <1>1, <1>8, <1>9, <1>11 DEF Sound
<1>13. QED
  BY <1>1, <1>2, <1>6, <1>12 DEF t, K, new

\* A block that shares no unit with the list is apart from its blocks.
LEMMA ApartFromList ==
    ASSUME NEW h, ListOK(h), NEW g \in Nat \X (Nat \ {0}), Units(g) \cap Cells(h.free) = {}
    PROVE  \A b \in h.free : Apart(b, g)
<1> TAKE b \in h.free
<1>1. b \in Int \X (Nat \ {0}) /\ g \in Int \X (Nat \ {0})
  BY ListFacts
<1>2. Units(b) \cap Units(g) = {}
  BY CellsMember
<1>3. QED
  BY <1>1, <1>2, ApartDisjoint

\* A block returns.
LEMMA FreeSound ==
    ASSUME NEW h, NEW G, NEW P, Sound(h, G, P), NEW g \in G
    PROVE  Sound(slob_free(h, g[1], g[2]), G \ {g}, P)
<1> DEFINE k == slob_free(h, g[1], g[2])
           K == G \ {g}
<1>0. ListOK(h) /\ g \in Nat \X (Nat \ {0})
  BY DEF Sound
<1>1. g[1] \in Nat /\ g[2] \in Nat \ {0} /\ g = <<g[1], g[2]>>
  BY <1>0
<1>2. Units(g) \subseteq Cells(G) /\ Units(g) \cap Cells(h.free) = {}
  BY CellsMember DEF Sound
<1>3. \A b \in h.free : Apart(b, <<g[1], g[2]>>)
  BY <1>0, <1>1, <1>2, ApartFromList
<1>4. ListOK(k) /\ Cells(k.free) = Cells(h.free) \cup Units(g)
  BY <1>0, <1>1, <1>3, FreeList
<1>5. Cells(K) = Cells(G) \ Units(g)
  <2>1. \A b \in K : Units(b) \cap Units(g) = {}
    BY DEF Sound
  <2>2. \A u : u \in Cells(K) <=> u \in Cells(G) /\ u \notin Units(g)
    BY <2>1, CellsMember
  <2>3. QED
    BY <2>2
<1>6. (\A b \in K : b \in Nat \X (Nat \ {0})) /\ \A a, b \in K : a # b => Units(a) \cap Units(b) = {}
  BY DEF Sound
<1> HIDE DEF k, K
<1>7. Cells(G) \cap Cells(h.free) = {} /\ Cells(h.free) \cup Cells(G) = {ARENA} \cup PageCells(P)
  BY DEF Sound
<1>8. Cells(K) \cap Cells(k.free) = {} /\ Cells(k.free) \cup Cells(K) = {ARENA} \cup PageCells(P)
  BY <1>2, <1>4, <1>5, <1>7
<1>9. Sound(k, K, P)
  BY <1>4, <1>6, <1>8 DEF Sound
<1>10. QED
  BY <1>9 DEF k, K

PageBlock(p) == <<p * PageUnits, PageUnits>>

LEMMA PageCellsMember ==
    ASSUME NEW P, NEW u
    PROVE  u \in PageCells(P) <=> \E p \in P : u \in Units(PageBlock(p))
  BY DEF PageCells, PageBlock, Units

LEMMA PageBlockTyped ==
    ASSUME NEW p \in Nat
    PROVE  PageBlock(p) \in Nat \X (Nat \ {0}) /\ ARENA \notin Units(PageBlock(p))
<1>1. PageUnits \in Nat \ {0} /\ p * PageUnits \in Nat
  BY KmallocAssumption
<1> DEFINE x == p * PageUnits
<1> HIDE DEF x
<1>2. x \in Nat /\ PageBlock(p) = <<x, PageUnits>>
  BY <1>1 DEF x, PageBlock
<1>3. QED
  BY <1>1, <1>2 DEF Units, ARENA

\* Two pages share no unit.
LEMMA PagesApart ==
    ASSUME NEW p \in Nat, NEW q \in Nat, p # q
    PROVE  Units(PageBlock(p)) \cap Units(PageBlock(q)) = {}
<1> DEFINE N == PageUnits
<1>1. N \in Nat /\ N > 0
  BY KmallocAssumption
<1>2. ASSUME NEW i \in Nat, NEW j \in Nat, i < j PROVE i * N + N <= j * N
  <2> DEFINE d == j - (i + 1)
  <2>1. d \in Nat /\ j = (i + 1) + d
    BY <1>2
  <2> HIDE DEF d, N
  <2>2. j * N = i * N + N + d * N
    BY <1>1, <2>1
  <2>3. d * N \in Nat /\ i * N \in Nat
    BY <1>1, <2>1
  <2>4. QED
    BY <1>1, <2>2, <2>3
<1>3. /\ PageBlock(p) \in Int \X (Nat \ {0}) /\ PageBlock(p)[1] = p * N /\ PageBlock(p)[2] = N
      /\ PageBlock(q) \in Int \X (Nat \ {0}) /\ PageBlock(q)[1] = q * N /\ PageBlock(q)[2] = N
  BY PageBlockTyped DEF PageBlock
<1>4. p * N + N <= q * N \/ q * N + N <= p * N
  BY <1>2
<1> HIDE DEF N
<1>5. Apart(PageBlock(p), PageBlock(q))
  BY <1>3, <1>4 DEF Apart
<1>6. QED
  BY <1>3, <1>5, ApartDisjoint

\* A page more is cut up.
LEMMA GrowSound ==
    ASSUME NEW h, NEW G, NEW P \in SUBSET Nat, Sound(h, G, P), NEW p \in Nat, p \notin P
    PROVE  /\ Sound(slob_free(h, p * PageUnits, PageUnits), G, P \cup {p})
           /\ \E b \in slob_free(h, p * PageUnits, PageUnits).free : b[2] >= PageUnits
<1> DEFINE g == PageBlock(p)
           k == slob_free(h, p * PageUnits, PageUnits)
           Q == P \cup {p}
<1>0. /\ ListOK(h) /\ g \in Nat \X (Nat \ {0}) /\ g = <<p * PageUnits, PageUnits>>
      /\ p * PageUnits \in Nat /\ PageUnits \in Nat \ {0}
  BY PageBlockTyped, KmallocAssumption DEF Sound, PageBlock
<1>1. Units(g) \cap ({ARENA} \cup PageCells(P)) = {}
  <2> SUFFICES ASSUME NEW u \in Units(g), u \in PageCells(P) PROVE FALSE
    BY PageBlockTyped
  <2>1. PICK q \in P : u \in Units(PageBlock(q))
    BY PageCellsMember
  <2>2. QED
    BY <2>1, PagesApart
<1>2. Cells(G) \cap Cells(h.free) = {} /\ Cells(h.free) \cup Cells(G) = {ARENA} \cup PageCells(P)
  BY DEF Sound
<1>3. PageCells(Q) = PageCells(P) \cup Units(g)
  <2>1. \A u : u \in PageCells(Q) <=> u \in PageCells(P) \/ u \in Units(g)
    BY PageCellsMember
  <2>2. QED
    BY <2>1
<1>4. \A b \in h.free : Apart(b, <<p * PageUnits, PageUnits>>)
  <2>1. Units(g) \cap Cells(h.free) = {}
    BY <1>1, <1>2
  <2>2. \A b \in h.free : Apart(b, g)
    BY <1>0, <2>1, ApartFromList
  <2>3. QED
    BY <1>0, <2>2
<1>5. /\ ListOK(k) /\ Cells(k.free) = Cells(h.free) \cup Units(g)
      /\ \E b \in k.free : b[2] >= PageUnits
  BY <1>0, <1>4, FreeList
<1> HIDE DEF k, g, Q
<1>6. Cells(G) \cap Cells(k.free) = {} /\ Cells(k.free) \cup Cells(G) = {ARENA} \cup PageCells(Q)
  BY <1>1, <1>2, <1>3, <1>5
<1>7. Sound(k, G, Q)
  BY <1>5, <1>6 DEF Sound
<1>8. QED
  BY <1>5, <1>7 DEF k, Q
-----------------------------------------------------------------------------
(* The invariant.                                                          *)

\* The blocks given out have addresses of their own, and at most one request waits.
Recorded ==
    /\ \A b \in heap : b \in Nat \X (Nat \ {0}) \X Sizes
    /\ \A r \in bigblocks \cup pending : r.bb \in Nat /\ r.size \in Sizes
    /\ \A a, b \in heap : a[1] = b[1] => a = b
    /\ \A q, r \in bigblocks \cup pending : q.bb = r.bb => q = r
    /\ \A b \in heap, r \in bigblocks \cup pending : b[1] # r.bb
    /\ bigblocks \cap pending = {} /\ \A q, r \in pending : q = r
    /\ IsFiniteSet(heap) /\ IsFiniteSet(bigblocks \cup pending)

\* The page manager knows the pages of the heap as its caller's.
PagesHeld ==
    /\ slob_pages \subseteq Page
    /\ \A p \in slob_pages : <<p, 1>> \in blocks
    /\ \A b \in bigblocks : <<b.pages, b.n>> \in blocks /\ b.pages \notin slob_pages
    /\ \A a, b \in bigblocks : a.pages = b.pages => a = b

HeapInv ==
    /\ PmmInv
    /\ Sound(List, Given, slob_pages)
    /\ Recorded
    /\ PagesHeld
    /\ BlocksLargeEnough

LEMMA GivenMember ==
    ASSUME NEW x
    PROVE  x \in Given <=> \/ \E b \in heap : x = <<b[1], b[2]>>
                           \/ \E r \in bigblocks \cup pending : x = <<r.bb, BigUnits>>
  BY DEF Given, Headers

LEMMA OnePage == 1 \in 1..NPAGE
  BY NPAGEAssumption

LEMMA FirstFitOne ==
    ASSUME PmmInv, NEW n \in 1..NPAGE, NEW i \in first_fit(n), NEW j \in first_fit(n)
    PROVE  i = j
<1>1. Area.list = free_list /\ Area.prop = property /\ AreaOK(Area)
  BY DEF Area, PmmInv
<1>2. /\ Len(free_list) \in Nat /\ n \in Int
      /\ \A k \in 1..Len(free_list) : property[free_list[k]] \in Int
  BY <1>1, AreaFacts, NPAGEAssumption
<1>3. /\ i \in 1..Len(free_list) /\ property[free_list[i]] >= n
      /\ \A k \in 1..(i - 1) : property[free_list[k]] < n
      /\ j \in 1..Len(free_list) /\ property[free_list[j]] >= n
      /\ \A k \in 1..(j - 1) : property[free_list[k]] < n
  BY DEF first_fit
<1>4. ~(i \in 1..(j - 1)) /\ ~(j \in 1..(i - 1))
  BY <1>2, <1>3
<1>5. QED
  BY <1>2, <1>3, <1>4

\* A page that default_alloc_pages hands out is in no block yet.
LEMMA PagesFresh ==
    ASSUME PmmInv, NEW n \in 1..NPAGE, default_alloc_pages(n)
    PROVE  /\ PmmInv' /\ blocks' = blocks \cup {<<result', n>>} /\ result' \in Page
           /\ \A b \in blocks : b[1] # result'
           /\ \A i \in first_fit(n) : free_list[i] = result'
<1>1. PICK i \in first_fit(n) : blocks' = blocks \cup {<<free_list[i], n>>} /\ result' = free_list[i]
  BY AllocArea DEF PmmInv
<1>2. free_list[i] \in 0..(NPAGE - n) /\ Extent(free_list[i], n) \subseteq Covered(Area)
  BY FirstFitLowest
<1>3. free_list[i] \in Page
  BY <1>2, NPAGEAssumption DEF Page
<1>4. free_list[i] \in Covered(Area)
  BY <1>2, <1>3, ExtentSize
<1>5. ASSUME NEW b \in blocks PROVE b[1] # free_list[i]
  <2>1. b[1] \in Page /\ b[2] \in 1..NPAGE
    BY DEF PmmInv, BlocksTyped
  <2>2. b[1] \in Extent(b[1], b[2])
    BY <2>1, ExtentSize
  <2>3. b[1] \in Owned(blocks)
    BY <2>2, OwnedMember
  <2>4. QED
    BY <1>4, <2>3 DEF PmmInv
<1>6. QED
  BY <1>1, <1>3, <1>5, FirstFitOne, AllocStep
-----------------------------------------------------------------------------
(* slob_alloc.                                                             *)

LEMMA SlobAllocSound ==
    ASSUME HeapInv, NEW n \in Nat, n >= 2, n <= PageUnits, NEW h \in grown(n), slob_alloc(n, h)
    PROVE  /\ next_fit(h, n) \in Nat
           /\ \A g \in Given : g[1] # next_fit(h, n)
           /\ Sound(List', Given \cup {<<next_fit(h, n), n>>}, slob_pages')
           /\ PmmInv' /\ blocks \subseteq blocks'
           /\ slob_pages' \subseteq Page /\ \A p \in slob_pages' : <<p, 1>> \in blocks'
           /\ \A p \in slob_pages' : p \in slob_pages \/ \A b \in blocks : b[1] # p
           /\ [Next]_vars
<1> DEFINE a == next_fit(h, n)
<1>0. PmmInv /\ Sound(List, Given, slob_pages) /\ slob_pages \in SUBSET Nat /\ PageUnits \in Int
  BY NPAGEAssumption, KmallocAssumption DEF HeapInv, PagesHeld, Page
<1>1. List'.free = take(h, n).free /\ List'.at = take(h, n).at
  BY DEF slob_alloc, List
<1>2. \A G, P : Sound(take(h, n), G, P) => Sound(List', G, P)
  BY <1>1 DEF Sound, ListOK
<1>3. CASE fits(List, n) # {}
  <2>1. h = List /\ UNCHANGED <<vars, slob_pages>>
    BY <1>3 DEF grown, slob_alloc
  <2>2. /\ a \in Nat /\ (\A g \in Given : g[1] # a)
        /\ Sound(take(h, n), Given \cup {<<a, n>>}, slob_pages)
    BY <1>0, <1>3, <2>1, TakeSound
  <2>3. Sound(List', Given \cup {<<a, n>>}, slob_pages')
    BY <1>2, <2>1, <2>2
  <2>4. PmmInv' /\ blocks' = blocks /\ slob_pages' = slob_pages /\ [Next]_vars
    BY <1>0, <2>1, PmmStep DEF vars
  <2>5. QED
    BY <2>2, <2>3, <2>4 DEF HeapInv, PagesHeld
<1>4. CASE fits(List, n) = {}
  <2>1. default_alloc_pages(1) /\ slob_pages' = slob_pages \cup {result'}
    BY <1>4 DEF slob_alloc
  <2>2. /\ PmmInv' /\ blocks' = blocks \cup {<<result', 1>>} /\ result' \in Page
        /\ \A b \in blocks : b[1] # result'
        /\ \A i \in first_fit(1) : free_list[i] = result'
    BY <1>0, <2>1, PagesFresh, OnePage
  <2>3. h = slob_free(List, result' * PageUnits, PageUnits)
    BY <1>4, <2>2 DEF grown
  <2>4. result' \in Nat /\ result' \notin slob_pages
    <3>1. \A p \in slob_pages : <<p, 1>> \in blocks /\ <<p, 1>>[1] = p
      BY DEF HeapInv, PagesHeld
    <3>2. result' \notin slob_pages
      BY <2>2, <3>1
    <3>3. \A p \in Page : p \in Nat
      BY NPAGEAssumption DEF Page
    <3>4. QED
      BY <2>2, <3>2, <3>3
  <2>5. Sound(h, Given, slob_pages') /\ \E b \in h.free : b[2] >= PageUnits
    BY <1>0, <2>1, <2>3, <2>4, GrowSound
  <2>6. fits(h, n) # {}
    <3>1. PICK b \in h.free : b[2] >= PageUnits
      BY <2>5
    <3>2. ListOK(h)
      BY <2>5 DEF Sound
    <3>3. b[2] \in Int
      BY <3>2, ListFacts
    <3>4. b[2] >= n
      BY <1>0, <3>1, <3>3
    <3>5. QED
      BY <3>4 DEF fits
  <2>7. /\ a \in Nat /\ (\A g \in Given : g[1] # a)
        /\ Sound(take(h, n), Given \cup {<<a, n>>}, slob_pages')
    BY <2>5, <2>6, TakeSound
  <2>8. Sound(List', Given \cup {<<a, n>>}, slob_pages')
    BY <1>2, <2>7
  <2>9. [Next]_vars
    BY <2>1, OnePage DEF Next
  <2>10. /\ slob_pages' \subseteq Page /\ (\A p \in slob_pages' : <<p, 1>> \in blocks')
         /\ \A p \in slob_pages' : p \in slob_pages \/ \A b \in blocks : b[1] # p
    BY <2>1, <2>2 DEF HeapInv, PagesHeld
  <2>11. QED
    BY <2>2, <2>7, <2>8, <2>9, <2>10
<1>5. QED
  BY <1>3, <1>4
-----------------------------------------------------------------------------
(* Sizes.                                                                  *)

\* Rounding up to units: the header and the bytes fit, and in less than a page.
LEMMA UnitsEnough ==
    ASSUME NEW size \in Sizes, size < PAGE_SIZE - SLOB_UNIT
    PROVE  LET n == SLOB_UNITS(size + SLOB_UNIT)
           IN  n \in Nat /\ n >= 2 /\ n <= PageUnits /\ n * SLOB_UNIT >= size + SLOB_UNIT
<1> DEFINE u == SLOB_UNIT
           n == SLOB_UNITS(size + SLOB_UNIT)
           x == size + u + u - 1
           y == PAGE_SIZE
<1>1. size \in Nat /\ size >= 1 /\ u \in Nat /\ u >= 1 /\ PageUnits \in Nat /\ y \in Nat
  BY KmallocAssumption DEF PAGE_SIZE
<1>2. y = PageUnits * u
  BY DEF PAGE_SIZE
<1>3. size + 2 * u < y
  BY <1>1, KmallocAssumption
<1>4. x \in Nat /\ n = x \div u
  BY <1>1 DEF SLOB_UNITS
<1> HIDE DEF x, n, u, y
<1>5. n \in Nat /\ n * u <= x /\ x < n * u + u
  BY <1>1, <1>4
<1>6. x = size + 2 * u - 1
  BY <1>1 DEF x
<1>7. n * u \in Nat
  BY <1>1, <1>5
<1>8. n * u >= size + u
  BY <1>1, <1>5, <1>6, <1>7
<1>9. n # 0 /\ n # 1
  BY <1>1, <1>8
<1>10. n <= PageUnits
  <2> SUFFICES ASSUME n > PageUnits PROVE FALSE
    BY <1>1, <1>5
  <2> DEFINE d == n - PageUnits
  <2>1. d \in Nat /\ n = PageUnits + d
    BY <1>1, <1>5
  <2> HIDE DEF d
  <2>2. n * u = PageUnits * u + d * u /\ d * u \in Nat
    BY <1>1, <2>1
  <2>3. QED
    BY <1>1, <1>2, <1>3, <1>5, <1>6, <1>7, <2>2
<1>11. QED
  BY <1>5, <1>8, <1>9, <1>10 DEF n, u

\* The loop of find_order has values.
LEMMA HalveValue ==
    ASSUME NEW x \in Nat, NEW n \in Nat
    PROVE  halve[<<x, n>>] = IF x <= PAGE_SIZE THEN <<x, n>> ELSE halve[<<x \div 2, 2 * n>>]
<1> DEFINE S == Nat \X Nat
           T == {s \in S : s[1] <= PAGE_SIZE}
           g == [s \in S |-> <<s[1] \div 2, 2 * s[2]>>]
           Q(h) == h = [s \in S |-> IF s[1] <= PAGE_SIZE THEN s ELSE h[<<s[1] \div 2, 2 * s[2]>>]]
<1>1. \A s \in S : s \notin T => g[s] \in S
  OBVIOUS
<1>2. \A s \in S : (s \in T <=> s[1] <= PAGE_SIZE) /\ g[s] = <<s[1] \div 2, 2 * s[2]>>
  OBVIOUS
<1>3. PICK f : LoopValues(f, S, T, g)
  <2> HIDE DEF S, T, g
  <2>1. QED
    BY ONLY <1>1, LoopHasValue
<1>4. Q(f)
  <2> HIDE DEF S, T, g
  <2>1. /\ f = [s \in S |-> f[s]]
        /\ \A s \in S : f[s] = IF s[1] <= PAGE_SIZE THEN s ELSE f[<<s[1] \div 2, 2 * s[2]>>]
    BY ONLY <1>2, <1>3 DEF LoopValues
  <2>2. QED
    BY ONLY <2>1
<1>5. Q(halve)
  <2>1. halve = CHOOSE h : Q(h)
    BY DEF halve
  <2> HIDE DEF Q
  <2>2. QED
    BY ONLY <1>4, <2>1
<1>6. <<x, n>> \in S
  OBVIOUS
<1> HIDE DEF S
<1>7. QED
  BY ONLY <1>5, <1>6

\* What the halvings leave of x, and the pages they add up to from n on: no more is
\* lost than the last bits, and the last halving was of more than a page.
Halved(x, n) ==
    LET r == halve[<<x, n>>]
    IN /\ r[1] \in Nat /\ r[2] \in Nat \ {0} /\ r[1] <= PAGE_SIZE
       /\ (x + 1) * n <= (r[1] + 1) * r[2]
       /\ r[2] = n \/ PAGE_SIZE * r[2] < 2 * (x * n)

LEMMA HalveOnce ==
    ASSUME NEW x \in Nat, NEW n \in Nat \ {0}, x > PAGE_SIZE, PAGE_SIZE \in Nat,
           Halved(x \div 2, 2 * n)
    PROVE  Halved(x, n)
<1> DEFINE P == PAGE_SIZE
           h == x \div 2
           r == halve[<<x, n>>]
<1>1. h \in Nat /\ 2 * h <= x /\ x <= 2 * h + 1
  OBVIOUS
<1>2. r = halve[<<h, 2 * n>>]
  BY HalveValue
<1>3. /\ r[1] \in Nat /\ r[2] \in Nat \ {0} /\ r[1] <= P
      /\ (h + 1) * (2 * n) <= (r[1] + 1) * r[2]
      /\ r[2] = 2 * n \/ P * r[2] < 2 * (h * (2 * n))
  BY <1>2 DEF Halved
<1> HIDE DEF h, r
<1>4. (x + 1) * n <= (r[1] + 1) * r[2]
  <2> DEFINE d == 2 * h + 1 - x
  <2>1. d \in Nat /\ 2 * (h + 1) = x + 1 + d
    BY ONLY <1>1, x \in Nat
  <2>2. (h + 1) * (2 * n) = (2 * (h + 1)) * n
    BY ONLY <1>1, n \in Nat \ {0}
  <2> HIDE DEF d
  <2>3. (x + 1 + d) * n = (x + 1) * n + d * n /\ d * n \in Nat /\ (x + 1) * n \in Nat
    BY ONLY <2>1, x \in Nat, n \in Nat \ {0}
  <2> DEFINE a == (x + 1) * n
             b == (r[1] + 1) * r[2]
  <2>4. a \in Nat /\ b \in Nat
    BY ONLY <1>3, x \in Nat, n \in Nat \ {0}
  <2>5. a + d * n <= b
    BY ONLY <1>3, <2>1, <2>2, <2>3
  <2> HIDE DEF a, b
  <2>6. a <= b
    BY ONLY <2>3, <2>4, <2>5
  <2>7. QED
    BY ONLY <2>6 DEF a, b
<1>5. P * r[2] < 2 * (x * n)
  <2> DEFINE a == x * n
             b == h * n
             c == P * n
             e == P * r[2]
  <2>1. a \in Nat /\ b \in Nat /\ c \in Nat /\ e \in Nat
    BY ONLY <1>1, <1>3, x \in Nat, n \in Nat \ {0}, P \in Nat
  <2>2. 2 * b <= a
    <3> DEFINE d == x - 2 * h
    <3>1. d \in Nat /\ x = 2 * h + d
      BY ONLY <1>1, x \in Nat
    <3> HIDE DEF d
    <3>2. x * n = 2 * (h * n) + d * n /\ d * n \in Nat
      BY ONLY <1>1, <3>1, n \in Nat \ {0}
    <3> DEFINE f == d * n
    <3>3. a = 2 * b + f /\ f \in Nat
      BY ONLY <3>2
    <3> HIDE DEF a, b, f
    <3>4. QED
      BY ONLY <2>1, <3>3
  <2>3. c < a
    <3> DEFINE d == x - P - 1
    <3>1. d \in Nat /\ x = P + 1 + d
      BY ONLY x \in Nat, P \in Nat, x > P
    <3> HIDE DEF d
    <3>2. x * n = P * n + n + d * n /\ d * n \in Nat
      BY ONLY <3>1, P \in Nat, n \in Nat \ {0}
    <3> DEFINE f == d * n
    <3>3. a = c + n + f /\ f \in Nat
      BY ONLY <3>2
    <3> HIDE DEF a, c, f
    <3>4. QED
      BY ONLY <2>1, <3>3, n \in Nat \ {0}
  <2>4. CASE r[2] = 2 * n
    <3>1. e = 2 * c
      BY ONLY <2>4, n \in Nat \ {0}, P \in Nat
    <3> HIDE DEF a, c, e
    <3>2. e < 2 * a
      BY ONLY <2>1, <2>3, <3>1
    <3>3. QED
      BY ONLY <3>2 DEF a, e
  <2>5. CASE P * r[2] < 2 * (h * (2 * n))
    <3>1. h * (2 * n) = 2 * b
      BY ONLY <1>1, n \in Nat \ {0}
    <3>2. e < 4 * b
      BY ONLY <2>1, <2>5, <3>1
    <3> HIDE DEF a, b, e
    <3>3. e < 2 * a
      BY ONLY <2>1, <2>2, <3>2
    <3>4. QED
      BY ONLY <3>3 DEF a, e
  <2>6. QED
    BY ONLY <1>3, <2>4, <2>5
<1>6. QED
  BY <1>3, <1>4, <1>5 DEF Halved, r

LEMMA HalveSound ==
    ASSUME NEW N \in Nat, PAGE_SIZE \in Nat
    PROVE  \A n \in Nat \ {0} : Halved(N, n)
<1> DEFINE S == {k \in 0..N : \A x \in 0..k, n \in Nat \ {0} : Halved(x, n)}
<1>1. ASSUME NEW x \in Nat, NEW n \in Nat \ {0}, x <= PAGE_SIZE PROVE Halved(x, n)
  <2>1. halve[<<x, n>>] = <<x, n>>
    BY <1>1, HalveValue
  <2>2. QED
    BY <1>1, <2>1 DEF Halved
<1>2. 0 \in S
  <2>1. \A x \in 0..0 : x \in Nat /\ x <= PAGE_SIZE
    OBVIOUS
  <2>2. QED
    BY <1>1, <2>1
<1>3. ASSUME NEW k \in 0..(N - 1), k \in S PROVE k + 1 \in S
  <2> SUFFICES ASSUME NEW x \in 0..(k + 1), NEW n \in Nat \ {0} PROVE Halved(x, n)
    OBVIOUS
  <2>1. CASE x <= PAGE_SIZE
    BY <1>1, <2>1
  <2>2. CASE x > PAGE_SIZE
    <3>1. x \in Nat /\ x \div 2 \in 0..k /\ 2 * n \in Nat \ {0}
      BY <2>2
    <3>2. Halved(x \div 2, 2 * n)
      BY <1>3, <3>1
    <3>3. QED
      BY <2>2, <3>1, <3>2, HalveOnce
  <2>3. QED
    BY <2>1, <2>2
<1>4. \A k \in 0..N : k \in S
  <2> HIDE DEF S
  <2>1. QED
    BY ONLY N \in Nat, <1>2, <1>3, IntervalInduction
<1>5. N \in S
  BY <1>4
<1>6. QED
  BY <1>5

\* Halving finds enough pages, but for the bits it loses.
LEMMA OrderEnough ==
    ASSUME NEW size \in Sizes
    PROVE  LET n == order_pages(size)
           IN /\ n \in Nat \ {0} /\ PAGE_SIZE * n + n > size
              /\ RoundedUp(size) => PAGE_SIZE * n >= size
<1> DEFINE P == PAGE_SIZE
           q == halve[<<size, 1>>][1]
           n == halve[<<size, 1>>][2]
<1>1. size \in Nat /\ P \in Nat \ {0}
  <2>1. SLOB_UNIT \in Nat \ {0} /\ PageUnits \in Nat \ {0} /\ size \in Nat
    BY KmallocAssumption
  <2>2. QED
    BY ONLY <2>1 DEF PAGE_SIZE
<1>2. /\ q \in Nat /\ n \in Nat \ {0} /\ q <= P /\ size + 1 <= (q + 1) * n
      /\ n = 1 \/ P * n < 2 * size
  <2>1. Halved(size, 1)
    BY <1>1, HalveSound
  <2>2. (size + 1) * 1 = size + 1 /\ size * 1 = size
    BY <1>1
  <2>3. QED
    BY <2>1, <2>2 DEF Halved
<1> HIDE DEF q, n, P
<1>3. P * n + n > size
  <2> DEFINE d == P - q
  <2>1. d \in Nat /\ P = q + d
    BY ONLY <1>1, <1>2
  <2> HIDE DEF d
  <2>2. P * n + n = (q + 1) * n + d * n /\ d * n \in Nat /\ (q + 1) * n \in Nat
    BY ONLY <1>2, <2>1
  <2>3. QED
    BY ONLY <1>1, <1>2, <2>2
<1>4. ASSUME size <= 2 * P PROVE P * n >= size
  <2>1. CASE n = 1
    BY ONLY <1>1, <1>3, <2>1
  <2>2. CASE n # 1
    <3> DEFINE d == n - 2
    <3>1. d \in Nat /\ n = 2 + d
      BY ONLY <1>2, <2>2
    <3> HIDE DEF d
    <3>2. P * n = 2 * P + P * d /\ P * d \in Nat
      BY ONLY <1>1, <3>1
    <3>3. QED
      BY ONLY <1>1, <1>4, <3>2
  <2>3. QED
    BY <2>1, <2>2
<1>5. ASSUME NEW k \in 1..(P \div 2), size = k * P PROVE P * n >= size
  <2>1. k \in Nat \ {0} /\ 2 * k <= P
    BY ONLY <1>1, k \in 1..(P \div 2)
  <2>2. CASE n >= k
    <3> DEFINE d == n - k
    <3>1. d \in Nat /\ n = k + d
      BY ONLY <1>2, <2>1, <2>2
    <3> HIDE DEF d
    <3>2. P * n = k * P + P * d /\ P * d \in Nat /\ k * P \in Nat
      BY ONLY <1>1, <2>1, <3>1
    <3>3. QED
      BY ONLY <1>5, <3>2
  <2>3. ASSUME n < k PROVE FALSE
    <3> DEFINE d == k - n - 1
    <3>1. d \in Nat /\ k = n + 1 + d
      BY ONLY <1>2, <2>1, <2>3
    <3> HIDE DEF d
    <3>2. k * P = P * n + P + P * d /\ P * d \in Nat /\ P * n \in Nat
      BY ONLY <1>1, <1>2, <3>1
    <3>3. n > P
      BY ONLY <1>1, <1>2, <1>3, <1>5, <3>2
    <3>4. QED
      BY ONLY <1>1, <1>2, <2>1, <2>3, <3>3
  <2>4. QED
    BY ONLY <1>2, <2>1, <2>2, <2>3
<1>6. RoundedUp(size) => P * n >= size
  <2> SUFFICES ASSUME RoundedUp(size) PROVE P * n >= size
    OBVIOUS
  <2>1. size <= 2 * P \/ \E k \in 1..(P \div 2) : size = k * P
    BY DEF RoundedUp, WholePages, P
  <2>2. QED
    BY ONLY <1>4, <1>5, <2>1
<1>7. QED
  BY <1>2, <1>3, <1>6 DEF order_pages, n, P

\* What the list can give is no more than all pages.
LEMMA FreeCount ==
    ASSUME PmmInv
    PROVE  nr_free \in 0..NPAGE
<1>1. nr_free = Cardinality(Covered(Area)) /\ Covered(Area) \subseteq Page
  BY DEF PmmInv, Covered
<1>2. IsFiniteSet(Page) /\ Cardinality(Page) = NPAGE
  <2>1. NPAGE \in Nat \ {0}
    BY NPAGEAssumption
  <2>2. /\ IsFiniteSet(0..(NPAGE - 1))
        /\ Cardinality(0..(NPAGE - 1)) = IF 0 > NPAGE - 1 THEN 0 ELSE (NPAGE - 1) - 0 + 1
    BY <2>1, FS_Interval
  <2>3. QED
    BY <2>1, <2>2 DEF Page
<1>3. Cardinality(Covered(Area)) <= NPAGE /\ Cardinality(Covered(Area)) \in Nat
  BY <1>1, <1>2, FS_Subset, FS_CardinalityType
<1>4. QED
  BY <1>1, <1>3, NPAGEAssumption
-----------------------------------------------------------------------------
(* The steps.                                                              *)

LEMMA HeapSame ==
    ASSUME HeapInv, UNCHANGED <<vars, slob, slobfree, heap, slob_pages, bigblocks, pending>>
    PROVE  HeapInv' /\ [Next]_vars
<1>1. PmmInv' /\ [Next]_vars
  BY PmmStep DEF HeapInv, vars
<1>2. List' = List /\ Given' = Given /\ blocks' = blocks
  BY DEF List, Given, Headers, vars
<1>3. Recorded' /\ PagesHeld' /\ BlocksLargeEnough'
  BY <1>2 DEF HeapInv, Recorded, PagesHeld, BlocksLargeEnough
<1>4. Sound(List, Given, slob_pages)'
  BY <1>2 DEF HeapInv
<1>5. QED
  BY <1>1, <1>3, <1>4 DEF HeapInv

\* The addresses in use.
LEMMA GivenAddresses ==
    ASSUME NEW a, \A g \in Given : g[1] # a
    PROVE  (\A b \in heap : b[1] # a) /\ \A r \in bigblocks \cup pending : r.bb # a
<1>1. ASSUME NEW b \in heap PROVE b[1] # a
  <2>1. <<b[1], b[2]>> \in Given /\ <<b[1], b[2]>>[1] = b[1]
    BY GivenMember
  <2>2. QED
    BY <2>1
<1>2. ASSUME NEW r \in bigblocks \cup pending PROVE r.bb # a
  <2>1. <<r.bb, BigUnits>> \in Given /\ <<r.bb, BigUnits>>[1] = r.bb
    BY GivenMember
  <2>2. QED
    BY <2>1
<1>3. QED
  BY <1>1, <1>2

\* slob_alloc leaves the pages of the big blocks alone.
LEMMA PagesHeldAfter ==
    ASSUME PagesHeld, blocks \subseteq blocks', bigblocks' = bigblocks,
           slob_pages' \subseteq Page, \A p \in slob_pages' : <<p, 1>> \in blocks',
           \A p \in slob_pages' : p \in slob_pages \/ \A b \in blocks : b[1] # p
    PROVE  PagesHeld'
<1>1. ASSUME NEW b \in bigblocks PROVE b.pages \notin slob_pages'
  <2>1. <<b.pages, b.n>> \in blocks /\ <<b.pages, b.n>>[1] = b.pages /\ b.pages \notin slob_pages
    BY DEF PagesHeld
  <2>2. QED
    BY <2>1
<1>2. QED
  BY <1>1 DEF PagesHeld

LEMMA SmallStep ==
    ASSUME HeapInv, NEW size \in Sizes, kmalloc_small(size)
    PROVE  HeapInv' /\ [Next]_vars
<1> DEFINE n == SLOB_UNITS(size + SLOB_UNIT)
<1>0. n \in Nat /\ n >= 2 /\ n <= PageUnits /\ n * SLOB_UNIT >= size + SLOB_UNIT
  BY UnitsEnough DEF kmalloc_small
<1>1. ASSUME slob_alloc_no_page(n) PROVE HeapInv' /\ [Next]_vars
  BY <1>1, HeapSame DEF slob_alloc_no_page
<1>2. ASSUME NEW h \in grown(n), slob_alloc(n, h), heap' = heap \cup {<<next_fit(h, n), n, size>>},
             UNCHANGED <<bigblocks, pending>>
      PROVE  HeapInv' /\ [Next]_vars
  <2> DEFINE a == next_fit(h, n)
             t == <<a, n, size>>
  <2>1. /\ a \in Nat /\ (\A g \in Given : g[1] # a)
        /\ Sound(List', Given \cup {<<a, n>>}, slob_pages')
        /\ PmmInv' /\ blocks \subseteq blocks'
        /\ slob_pages' \subseteq Page /\ (\A p \in slob_pages' : <<p, 1>> \in blocks')
        /\ (\A p \in slob_pages' : p \in slob_pages \/ \A b \in blocks : b[1] # p)
        /\ [Next]_vars
    BY <1>0, <1>2, SlobAllocSound
  <2> HIDE DEF n, a
  <2>2. heap' = heap \cup {t} /\ bigblocks' = bigblocks /\ pending' = pending
    BY <1>2 DEF a
  <2>3. t[1] = a /\ t[2] = n /\ t[3] = size /\ t \in Nat \X (Nat \ {0}) \X Sizes
    BY <1>0, <2>1
  <2> HIDE DEF t
  <2>4. Given' = Given \cup {<<a, n>>}
    <3>1. \A x : x \in Given' <=> x \in Given \/ x = <<a, n>>
      BY <2>2, <2>3 DEF Given, Headers
    <3>2. QED
      BY <3>1
  <2>5. (\A b \in heap : b[1] # a) /\ \A r \in bigblocks \cup pending : r.bb # a
    BY <2>1, GivenAddresses
  <2>6. Recorded'
    <3>1. IsFiniteSet(heap')
      BY <2>2, FS_AddElement DEF HeapInv, Recorded
    <3>2. QED
      BY <2>2, <2>3, <2>5, <3>1 DEF HeapInv, Recorded
  <2>7. PagesHeld'
    BY <2>1, <2>2, PagesHeldAfter DEF HeapInv
  <2>8. BlocksLargeEnough'
    BY <1>0, <2>2, <2>3 DEF HeapInv, BlocksLargeEnough
  <2>9. Sound(List, Given, slob_pages)'
    BY <2>1, <2>4
  <2>10. QED
    BY <2>1, <2>6, <2>7, <2>8, <2>9 DEF HeapInv
<1>3. QED
  BY <1>1, <1>2 DEF kmalloc_small

LEMMA HeaderStep ==
    ASSUME HeapInv, NEW size \in Sizes, kmalloc_header(size)
    PROVE  HeapInv' /\ [Next]_vars
<1> DEFINE n == BigUnits
<1>0. n \in Nat /\ n >= 2 /\ n <= PageUnits
  BY KmallocAssumption
<1>1. ASSUME slob_alloc_no_page(n) PROVE HeapInv' /\ [Next]_vars
  BY <1>1, HeapSame DEF slob_alloc_no_page
<1>2. ASSUME NEW h \in grown(n), slob_alloc(n, h),
             pending' = {[bb |-> next_fit(h, n), size |-> size]}, UNCHANGED <<heap, bigblocks>>,
             pending = {}
      PROVE  HeapInv' /\ [Next]_vars
  <2> DEFINE a == next_fit(h, n)
             t == [bb |-> a, size |-> size]
  <2>1. /\ a \in Nat /\ (\A g \in Given : g[1] # a)
        /\ Sound(List', Given \cup {<<a, n>>}, slob_pages')
        /\ PmmInv' /\ blocks \subseteq blocks'
        /\ slob_pages' \subseteq Page /\ (\A p \in slob_pages' : <<p, 1>> \in blocks')
        /\ (\A p \in slob_pages' : p \in slob_pages \/ \A b \in blocks : b[1] # p)
        /\ [Next]_vars
    BY <1>0, <1>2, SlobAllocSound
  <2> HIDE DEF a
  <2>2. pending' = {t} /\ bigblocks' = bigblocks /\ heap' = heap
    BY <1>2 DEF a
  <2>3. t.bb = a /\ t.size = size
    OBVIOUS
  <2> HIDE DEF t
  <2>4. Given' = Given \cup {<<a, n>>}
    <3>1. \A x : x \in Given' <=> x \in Given \/ x = <<a, n>>
      BY <1>2, <2>2, <2>3 DEF Given, Headers
    <3>2. QED
      BY <3>1
  <2>5. (\A b \in heap : b[1] # a) /\ \A r \in bigblocks : r.bb # a
    BY <2>1, GivenAddresses
  <2>6. Recorded'
    <3>1. bigblocks \cup pending = bigblocks
      BY <1>2
    <3>2. IsFiniteSet(bigblocks)
      BY <3>1 DEF HeapInv, Recorded
    <3>3. IsFiniteSet((bigblocks \cup pending)')
      BY <2>2, <3>2, FS_AddElement
    <3>4. \A r \in (bigblocks \cup pending)' : r \in bigblocks \/ r = t
      BY <2>2
    <3>5. bigblocks' \cap pending' = {} /\ \A q, r \in pending' : q = r
      BY <2>2, <2>3, <2>5
    <3>6. \A r \in (bigblocks \cup pending)' : r.bb \in Nat /\ r.size \in Sizes
      BY <2>1, <2>3, <3>4 DEF HeapInv, Recorded
    <3>7. \A q, r \in (bigblocks \cup pending)' : q.bb = r.bb => q = r
      BY <2>3, <2>5, <3>4 DEF HeapInv, Recorded
    <3>8. \A b \in heap', r \in (bigblocks \cup pending)' : b[1] # r.bb
      BY <2>2, <2>3, <2>5, <3>4 DEF HeapInv, Recorded
    <3>9. /\ \A b \in heap' : b \in Nat \X (Nat \ {0}) \X Sizes
          /\ \A b, c \in heap' : b[1] = c[1] => b = c
          /\ IsFiniteSet(heap')
      BY <2>2 DEF HeapInv, Recorded
    <3>10. QED
      BY <3>3, <3>5, <3>6, <3>7, <3>8, <3>9 DEF Recorded
  <2>7. PagesHeld'
    BY <2>1, <2>2, PagesHeldAfter DEF HeapInv
  <2>8. BlocksLargeEnough'
    BY <2>2 DEF HeapInv, BlocksLargeEnough
  <2>9. Sound(List, Given, slob_pages)'
    BY <2>1, <2>4
  <2>10. QED
    BY <2>1, <2>6, <2>7, <2>8, <2>9 DEF HeapInv
<1>3. QED
  BY <1>1, <1>2 DEF kmalloc_header, Ready

LEMMA PagesStep ==
    ASSUME HeapInv, kmalloc_pages
    PROVE  HeapInv' /\ [Next]_vars
<1>1. PICK r \in pending :
         /\ default_alloc_pages(order_pages(r.size))
         /\ bigblocks' = bigblocks \cup {[pages |-> result', n |-> order_pages(r.size),
                                          bb |-> r.bb, size |-> r.size]}
  BY DEF kmalloc_pages
<1> DEFINE n == order_pages(r.size)
           t == [pages |-> result', n |-> n, bb |-> r.bb, size |-> r.size]
<1>2. /\ pending' = {} /\ UNCHANGED <<slob, slobfree, heap, slob_pages>>
      /\ pending = {r} /\ r.size \in Sizes /\ r.bb \in Nat /\ r \notin bigblocks
  BY DEF kmalloc_pages, HeapInv, Recorded
<1>3. /\ n \in Nat \ {0} /\ PAGE_SIZE * n + n > r.size
      /\ RoundedUp(r.size) => PAGE_SIZE * n >= r.size
  BY <1>2, OrderEnough
<1>4. n \in 1..NPAGE
  <2>1. n <= nr_free /\ nr_free \in 0..NPAGE
    BY <1>1, FreeCount DEF default_alloc_pages, HeapInv
  <2> HIDE DEF n
  <2>2. NPAGE \in Nat
    BY NPAGEAssumption
  <2>3. QED
    BY ONLY <1>3, <2>1, <2>2
<1>5. /\ t.pages = result' /\ t.n = n /\ t.bb = r.bb /\ t.size = r.size /\ bigblocks' = bigblocks \cup {t}
  BY <1>1
<1>6. default_alloc_pages(n)
  BY <1>1
<1> HIDE DEF n
<1>7. /\ PmmInv' /\ blocks' = blocks \cup {<<result', n>>} /\ result' \in Page
      /\ \A b \in blocks : b[1] # result'
  BY <1>4, <1>6, PagesFresh DEF HeapInv
<1>8. [Next]_vars
  BY <1>4, <1>6 DEF Next
<1> HIDE DEF t
<1>9. Given' = Given /\ List' = List
  <2>1. \A x : x \in Given' <=> x \in Given
    BY <1>2, <1>5 DEF Given, Headers
  <2>2. QED
    BY <1>2, <2>1 DEF List
<1>10. Recorded'
  <2>1. (bigblocks \cup pending)' = bigblocks \cup {t} /\ heap' = heap
    BY <1>2, <1>5
  <2>2. IsFiniteSet(bigblocks)
    BY FS_Subset DEF HeapInv, Recorded
  <2>3. IsFiniteSet((bigblocks \cup pending)')
    BY <2>1, <2>2, FS_AddElement
  <2>4. \A q \in bigblocks : q.bb # r.bb
    BY <1>2 DEF HeapInv, Recorded
  <2>5. \A q, s \in (bigblocks \cup pending)' : q.bb = s.bb => q = s
    BY <1>5, <2>1, <2>4 DEF HeapInv, Recorded
  <2>6. \A q \in (bigblocks \cup pending)' : q.bb \in Nat /\ q.size \in Sizes
    BY <1>2, <1>5, <2>1 DEF HeapInv, Recorded
  <2>7. \A b \in heap', q \in (bigblocks \cup pending)' : b[1] # q.bb
    BY <1>2, <1>5, <2>1 DEF HeapInv, Recorded
  <2>8. bigblocks' \cap pending' = {} /\ \A q, s \in pending' : q = s
    BY <1>2
  <2>9. /\ \A b \in heap' : b \in Nat \X (Nat \ {0}) \X Sizes
        /\ \A b, c \in heap' : b[1] = c[1] => b = c
        /\ IsFiniteSet(heap')
    BY <2>1 DEF HeapInv, Recorded
  <2>10. QED
    BY <2>3, <2>5, <2>6, <2>7, <2>8, <2>9 DEF Recorded
<1>11. PagesHeld'
  <2>1. slob_pages' = slob_pages
    BY <1>2
  <2>2. \A p \in slob_pages : <<p, 1>> \in blocks /\ p # result'
    <3> TAKE p \in slob_pages
    <3>1. <<p, 1>> \in blocks /\ <<p, 1>>[1] = p
      BY DEF HeapInv, PagesHeld
    <3>2. QED
      BY <1>7, <3>1
  <2>3. \A b \in bigblocks : <<b.pages, b.n>> \in blocks /\ b.pages # result'
    <3> TAKE b \in bigblocks
    <3>1. <<b.pages, b.n>> \in blocks /\ <<b.pages, b.n>>[1] = b.pages
      BY DEF HeapInv, PagesHeld
    <3>2. QED
      BY <1>7, <3>1
  <2>4. <<t.pages, t.n>> \in blocks' /\ t.pages \notin slob_pages
    BY <1>5, <1>7, <2>2
  <2>5. \A b \in bigblocks' : b \in bigblocks \/ b = t
    BY <1>5
  <2>6. \A b \in bigblocks' : <<b.pages, b.n>> \in blocks' /\ b.pages \notin slob_pages
    BY <1>7, <2>4, <2>5 DEF HeapInv, PagesHeld
  <2>7. \A a, b \in bigblocks' : a.pages = b.pages => a = b
    BY <1>5, <2>3, <2>5 DEF HeapInv, PagesHeld
  <2>8. slob_pages \subseteq Page /\ \A p \in slob_pages : <<p, 1>> \in blocks'
    BY <1>7, <2>2 DEF HeapInv, PagesHeld
  <2>9. QED
    BY <2>1, <2>6, <2>7, <2>8 DEF PagesHeld
<1>12. BlocksLargeEnough'
  BY <1>2, <1>3, <1>5 DEF HeapInv, BlocksLargeEnough
<1>13. Sound(List, Given, slob_pages)'
  BY <1>2, <1>9 DEF HeapInv
<1>14. QED
  BY <1>7, <1>8, <1>10, <1>11, <1>12, <1>13 DEF HeapInv

\* Returning the block g of the list of blocks given out.
LEMMA ReturnSound ==
    ASSUME HeapInv, NEW g \in Given, slob' = slob_free(List, g[1], g[2]).free,
           slobfree' = slob_free(List, g[1], g[2]).at, Given' = Given \ {g}, slob_pages' = slob_pages
    PROVE  Sound(List, Given, slob_pages)'
<1>1. Sound(slob_free(List, g[1], g[2]), Given \ {g}, slob_pages)
  BY FreeSound DEF HeapInv
<1>2. List'.free = slob_free(List, g[1], g[2]).free /\ List'.at = slob_free(List, g[1], g[2]).at
  BY DEF List
<1>3. Sound(List', Given \ {g}, slob_pages)
  BY <1>1, <1>2 DEF Sound, ListOK
<1>4. QED
  BY <1>3

LEMMA NoPagesStep ==
    ASSUME HeapInv, kmalloc_no_pages
    PROVE  HeapInv' /\ [Next]_vars
<1>1. PICK r \in pending :
         /\ default_alloc_pages_fail(order_pages(r.size))
         /\ slob' = slob_free(List, r.bb, BigUnits).free /\ slobfree' = slob_free(List, r.bb, BigUnits).at
  BY DEF kmalloc_no_pages
<1>2. /\ pending' = {} /\ UNCHANGED <<heap, slob_pages, bigblocks>>
      /\ pending = {r} /\ r.size \in Sizes
  BY DEF kmalloc_no_pages, HeapInv, Recorded
<1>3. order_pages(r.size) \in Nat \ {0} /\ nr_free \in 0..NPAGE /\ NPAGE \in Nat
  BY <1>2, OrderEnough, FreeCount, NPAGEAssumption DEF HeapInv
<1>4. [Next]_vars /\ blocks' = blocks
  <2>1. CASE order_pages(r.size) \in 1..(NPAGE + 1)
    BY <1>1, <2>1 DEF Next, default_alloc_pages_fail
  <2>2. CASE order_pages(r.size) \notin 1..(NPAGE + 1)
    <3>1. NPAGE + 1 > nr_free /\ NPAGE + 1 \in 1..(NPAGE + 1)
      BY <1>3
    <3>2. default_alloc_pages_fail(NPAGE + 1)
      BY <1>1, <3>1 DEF default_alloc_pages_fail
    <3>3. QED
      BY <3>1, <3>2 DEF Next, default_alloc_pages_fail
  <2>3. QED
    BY <2>1, <2>2
<1>5. PmmInv'
  BY <1>4, PmmStep DEF HeapInv
<1> DEFINE g == <<r.bb, BigUnits>>
<1>6. g \in Given /\ g[1] = r.bb /\ g[2] = BigUnits
  BY GivenMember
<1>7. Given' = Given \ {g}
  <2>1. (\A b \in heap : <<b[1], b[2]>> # g) /\ \A q \in bigblocks : <<q.bb, BigUnits>> # g
    <3>1. \A b \in heap : b[1] # r.bb
      BY DEF HeapInv, Recorded
    <3>2. \A q \in bigblocks : q.bb # r.bb
      BY DEF HeapInv, Recorded
    <3>3. QED
      BY <3>1, <3>2
  <2> HIDE DEF g
  <2>2. \A x : x \in Given' <=> x \in Given /\ x # g
    BY <1>2, <2>1 DEF Given, Headers, g
  <2>3. QED
    BY <2>2
<1> HIDE DEF g
<1>8. Sound(List, Given, slob_pages)'
  BY <1>1, <1>2, <1>6, <1>7, ReturnSound
<1>9. Recorded'
  <2>1. IsFiniteSet(bigblocks)
    BY FS_Subset DEF HeapInv, Recorded
  <2>2. (bigblocks \cup pending)' = bigblocks /\ heap' = heap /\ pending' = {}
    BY <1>2
  <2>3. QED
    BY <2>1, <2>2 DEF HeapInv, Recorded
<1>10. PagesHeld' /\ BlocksLargeEnough'
  BY <1>2, <1>4 DEF HeapInv, PagesHeld, BlocksLargeEnough
<1>11. QED
  BY <1>4, <1>5, <1>8, <1>9, <1>10 DEF HeapInv

LEMMA FreeBigStep ==
    ASSUME HeapInv, NEW b \in bigblocks, pending = {}, default_free_pages(b.pages, b.n),
           bigblocks' = bigblocks \ {b}, UNCHANGED <<heap, slob_pages, pending>>,
           slob' = slob_free(List, b.bb, BigUnits).free, slobfree' = slob_free(List, b.bb, BigUnits).at
    PROVE  HeapInv' /\ [Next]_vars
<1> DEFINE n == b.n
           g == <<b.bb, BigUnits>>
<1>1. n \in 1..NPAGE /\ b.pages \in Page
  <2>1. <<b.pages, n>> \in blocks
    BY DEF HeapInv, PagesHeld
  <2> HIDE DEF n
  <2>2. <<b.pages, n>> \in Page \X (1..NPAGE)
    BY <2>1 DEF HeapInv, PmmInv, BlocksTyped
  <2>3. QED
    BY <2>2
<1> HIDE DEF n
<1>2. default_free_pages(b.pages, n)
  BY DEF n
<1>3. PmmInv' /\ blocks' = blocks \ {<<b.pages, n>>} /\ [Next]_vars
  <2>1. PmmInv'
    BY <1>1, <1>2, FreeStep DEF HeapInv
  <2>2. [Next]_vars
    BY <1>1, <1>2 DEF Next
  <2>3. blocks' = blocks \ {<<b.pages, n>>}
    BY <1>2 DEF default_free_pages
  <2>4. QED
    BY <2>1, <2>2, <2>3
<1>4. g \in Given /\ g[1] = b.bb /\ g[2] = BigUnits
  BY GivenMember
<1>5. Given' = Given \ {g}
  <2>1. (\A c \in heap : <<c[1], c[2]>> # g) /\ \A q \in bigblocks : q # b => <<q.bb, BigUnits>> # g
    <3>1. \A c \in heap : c[1] # b.bb
      BY DEF HeapInv, Recorded
    <3>2. \A q \in bigblocks : q # b => q.bb # b.bb
      BY DEF HeapInv, Recorded
    <3>3. QED
      BY <3>1, <3>2
  <2> HIDE DEF g
  <2>2. \A x : x \in Given' <=> x \in Given /\ x # g
    BY <2>1 DEF Given, Headers, g
  <2>3. QED
    BY <2>2
<1> HIDE DEF g
<1>6. Sound(List, Given, slob_pages)'
  BY <1>4, <1>5, ReturnSound
<1>7. Recorded'
  <2>1. IsFiniteSet((bigblocks \cup pending)')
    BY FS_Subset DEF HeapInv, Recorded
  <2>2. (bigblocks \cup pending)' \subseteq bigblocks \cup pending /\ heap' = heap /\ pending' = {}
    OBVIOUS
  <2>3. QED
    BY <2>1, <2>2 DEF HeapInv, Recorded
<1>8. PagesHeld'
  <2>1. \A p \in slob_pages : <<p, 1>> \in blocks'
    <3> TAKE p \in slob_pages
    <3>1. <<p, 1>> \in blocks /\ p # b.pages
      BY DEF HeapInv, PagesHeld
    <3>2. QED
      BY <1>3, <3>1
  <2>2. \A c \in bigblocks' : <<c.pages, c.n>> \in blocks' /\ c \in bigblocks
    <3> TAKE c \in bigblocks'
    <3>1. <<c.pages, c.n>> \in blocks /\ c.pages # b.pages /\ c \in bigblocks
      BY DEF HeapInv, PagesHeld
    <3>2. QED
      BY <1>3, <3>1
  <2>3. QED
    BY <2>1, <2>2 DEF HeapInv, PagesHeld
<1>9. BlocksLargeEnough'
  BY DEF HeapInv, BlocksLargeEnough
<1>10. QED
  BY <1>3, <1>6, <1>7, <1>8, <1>9 DEF HeapInv

LEMMA FreeSmallStep ==
    ASSUME HeapInv, NEW b \in heap, heap' = heap \ {b},
           UNCHANGED <<vars, bigblocks, slob_pages, pending>>,
           slob' = slob_free(List, b[1], b[2]).free, slobfree' = slob_free(List, b[1], b[2]).at
    PROVE  HeapInv' /\ [Next]_vars
<1> DEFINE g == <<b[1], b[2]>>
<1>1. PmmInv' /\ blocks' = blocks /\ [Next]_vars
  BY PmmStep DEF HeapInv, vars
<1>2. g \in Given /\ g[1] = b[1] /\ g[2] = b[2]
  BY GivenMember
<1>3. Given' = Given \ {g}
  <2>1. (\A c \in heap : c # b => <<c[1], c[2]>> # g) /\ \A q \in bigblocks \cup pending : <<q.bb, BigUnits>> # g
    <3>1. \A c \in heap : c # b => c[1] # b[1]
      BY DEF HeapInv, Recorded
    <3>2. \A q \in bigblocks \cup pending : q.bb # b[1]
      BY DEF HeapInv, Recorded
    <3>3. QED
      BY <3>1, <3>2
  <2> HIDE DEF g
  <2>2. \A x : x \in Given' <=> x \in Given /\ x # g
    BY <2>1 DEF Given, Headers, g
  <2>3. QED
    BY <2>2
<1> HIDE DEF g
<1>4. Sound(List, Given, slob_pages)'
  BY <1>2, <1>3, ReturnSound
<1>5. Recorded'
  <2>1. IsFiniteSet(heap')
    BY FS_Subset DEF HeapInv, Recorded
  <2>2. heap' \subseteq heap /\ (bigblocks \cup pending)' = bigblocks \cup pending /\ pending' = pending
        /\ bigblocks' = bigblocks
    OBVIOUS
  <2>3. QED
    BY <2>1, <2>2 DEF HeapInv, Recorded
<1>6. PagesHeld' /\ BlocksLargeEnough'
  BY <1>1 DEF HeapInv, PagesHeld, BlocksLargeEnough
<1>7. QED
  BY <1>1, <1>4, <1>5, <1>6 DEF HeapInv

LEMMA KfreeStep ==
    ASSUME HeapInv, NEW addr, kfree(addr)
    PROVE  HeapInv' /\ [Next]_vars
<1>1. pending = {} /\ UNCHANGED <<slob_pages, pending>>
  BY DEF kfree, Ready
<1>2. ASSUME NEW b \in bigblocks, default_free_pages(b.pages, b.n), bigblocks' = bigblocks \ {b},
             slob' = slob_free(List, b.bb, BigUnits).free, slobfree' = slob_free(List, b.bb, BigUnits).at,
             UNCHANGED heap
      PROVE  HeapInv' /\ [Next]_vars
  BY <1>1, <1>2, FreeBigStep
<1>3. ASSUME NEW b \in heap, heap' = heap \ {b}, slob' = slob_free(List, b[1], b[2]).free,
             slobfree' = slob_free(List, b[1], b[2]).at, UNCHANGED <<vars, bigblocks>>
      PROVE  HeapInv' /\ [Next]_vars
  BY <1>1, <1>3, FreeSmallStep
<1>4. QED
  BY <1>2, <1>3 DEF kfree

\* The pages of the heap stay its own whatever the other users do.
LEMMA OtherSame ==
    ASSUME HeapInv, UNCHANGED heapvars, PmmInv', [Next]_vars,
           \A p \in slob_pages : <<p, 1>> \in blocks',
           \A b \in bigblocks : <<b.pages, b.n>> \in blocks'
    PROVE  HeapInv' /\ [Next]_vars
<1>1. UNCHANGED <<slob, slobfree, heap, slob_pages, bigblocks, pending>>
  BY DEF heapvars
<1>2. List' = List /\ Given' = Given
  BY <1>1 DEF List, Given, Headers
<1>3. Sound(List, Given, slob_pages)'
  BY <1>1, <1>2 DEF HeapInv
<1>4. Recorded' /\ BlocksLargeEnough'
  BY <1>1 DEF HeapInv, Recorded, BlocksLargeEnough
<1>5. PagesHeld'
  BY <1>1 DEF HeapInv, PagesHeld
<1>6. QED
  BY <1>3, <1>4, <1>5 DEF HeapInv

LEMMA OtherStep ==
    ASSUME HeapInv, NEW n \in OtherSizes, alloc_pages(n) \/ \E base \in Page : free_pages(base, n)
    PROVE  HeapInv' /\ [Next]_vars
<1>0. n \in 1..NPAGE
  BY KmallocAssumption
<1>1. /\ \A p \in slob_pages : <<p, 1>> \in blocks
      /\ \A b \in bigblocks : <<b.pages, b.n>> \in blocks
  BY DEF HeapInv, PagesHeld
<1>2. ASSUME alloc_pages(n) PROVE HeapInv' /\ [Next]_vars
  <2>0. n \in 1..(NPAGE + 1)
    BY <1>0, NPAGEAssumption
  <2>1. [Next]_vars
    <3>1. CASE default_alloc_pages(n)
      BY <1>0, <3>1 DEF Next
    <3>2. CASE default_alloc_pages_fail(n)
      BY <2>0, <3>2 DEF Next
    <3>3. QED
      BY <1>2, <3>1, <3>2 DEF alloc_pages
  <2>2. PmmInv'
    BY <2>1, PmmStep DEF HeapInv
  <2>3. blocks \subseteq blocks'
    BY <1>2 DEF alloc_pages, default_alloc_pages, default_alloc_pages_fail
  <2>4. UNCHANGED heapvars
    BY <1>2 DEF alloc_pages
  <2>5. QED
    BY <1>1, <2>1, <2>2, <2>3, <2>4, OtherSame
<1>3. ASSUME NEW base \in Page, free_pages(base, n) PROVE HeapInv' /\ [Next]_vars
  <2>1. default_free_pages(base, n) /\ UNCHANGED heapvars /\ base \notin slob_pages
        /\ \A b \in bigblocks : b.pages # base
    BY <1>3 DEF free_pages
  <2>2. [Next]_vars
    BY <1>0, <2>1 DEF Next
  <2>3. PmmInv'
    BY <2>2, PmmStep DEF HeapInv
  <2>4. blocks' = blocks \ {<<base, n>>}
    BY <2>1 DEF default_free_pages
  <2>5. /\ \A p \in slob_pages : <<p, 1>> \in blocks'
        /\ \A b \in bigblocks : <<b.pages, b.n>> \in blocks'
    BY <1>1, <2>1, <2>4
  <2>6. QED
    BY <2>1, <2>2, <2>3, <2>5, OtherSame
<1>4. QED
  BY <1>2, <1>3

\* Every step of the heap is a step of the page manager, or leaves it alone.
LEMMA KStep == HeapInv /\ [KNext]_kvars => HeapInv' /\ [Next]_vars
<1> SUFFICES ASSUME HeapInv, [KNext]_kvars PROVE HeapInv' /\ [Next]_vars
  OBVIOUS
<1>1. ASSUME kmalloc_no_page PROVE HeapInv' /\ [Next]_vars
  BY <1>1, HeapSame DEF kmalloc_no_page
<1>2. ASSUME UNCHANGED kvars PROVE HeapInv' /\ [Next]_vars
  BY <1>2, HeapSame DEF kvars, heapvars
<1>3. QED
  BY <1>1, <1>2, SmallStep, HeaderStep, PagesStep, NoPagesStep, KfreeStep, OtherStep DEF KNext

LEMMA KInitSound == KInit => HeapInv
<1> SUFFICES ASSUME KInit PROVE HeapInv
  OBVIOUS
<1> USE DEF KInit
<1>1. PmmInv
  BY PmmInit
<1>2. Given = {} /\ List.free = {<<ARENA, 1>>} /\ List.at = ARENA
  BY DEF Given, Headers, List
<1> DEFINE r == <<ARENA, 1>>
<1>3. r \in Int \X (Nat \ {0}) /\ r[1] = ARENA /\ r[2] = 1 /\ ARENA = -2
  BY DEF ARENA
<1>4. ListOK(List)
  <2>1. \A b \in List.free : b = r
    BY <1>2
  <2>2. r[1] + r[2] # r[1] /\ r \in List.free
    BY <1>2, <1>3
  <2> HIDE DEF r
  <2>3. QED
    BY <1>2, <1>3, <2>1, <2>2 DEF ListOK, r
<1>5. Sound(List, Given, slob_pages)
  <2>1. \A u : u \in Cells(List.free) <=> u = ARENA
    <3>1. \A u : u \in Cells(List.free) <=> u \in Units(r)
      BY <1>2, CellsMember
    <3>2. \A u : u \in Units(r) <=> u = ARENA
      BY <1>3 DEF Units
    <3>3. QED
      BY <3>1, <3>2
  <2>2. \A u : ~(u \in Cells(Given)) /\ ~(u \in PageCells(slob_pages))
    BY <1>2, CellsMember, PageCellsMember
  <2>3. /\ Cells(Given) \cap Cells(List.free) = {}
        /\ Cells(List.free) \cup Cells(Given) = {ARENA} \cup PageCells(slob_pages)
    BY <2>1, <2>2
  <2>4. QED
    BY <1>2, <1>4, <2>3 DEF Sound
<1>6. Recorded
  <2>1. IsFiniteSet({})
    BY FS_EmptySet
  <2>2. bigblocks \cup pending = {}
    OBVIOUS
  <2>3. QED
    BY <2>1, <2>2 DEF Recorded
<1>7. PagesHeld /\ BlocksLargeEnough
  BY DEF PagesHeld, BlocksLargeEnough
<1>8. QED
  BY <1>1, <1>5, <1>6, <1>7 DEF HeapInv

LEMMA HeapInvariant == KSpec => []HeapInv
  BY KInitSound, KStep, PTL DEF KSpec
-----------------------------------------------------------------------------
(* The properties.                                                         *)

\* No two requests share a block.
LEMMA GivenCounted ==
    ASSUME Recorded
    PROVE  /\ Cardinality(Headers) = Cardinality(bigblocks \cup pending)
           /\ Cardinality(Given) = Cardinality(heap) + Cardinality(Headers)
<1> DEFINE H == bigblocks \cup pending
           f == [r \in H |-> <<r.bb, BigUnits>>]
           B == {<<b[1], b[2]>> : b \in heap}
           e == [b \in heap |-> <<b[1], b[2]>>]
<1>1. IsFiniteSet(Headers) /\ Cardinality(Headers) = Cardinality(H)
  <2>1. f \in [H -> Headers] /\ \A x \in H : f[x] = <<x.bb, BigUnits>>
    BY DEF Headers
  <2>2. \A x, y \in H : f[x] = f[y] => x = y
    BY <2>1 DEF Recorded
  <2>3. \A t \in Headers : \E x \in H : f[x] = t
    BY <2>1 DEF Headers
  <2>4. IsFiniteSet(H)
    BY DEF Recorded
  <2> HIDE DEF f, H
  <2>5. QED
    BY <2>1, <2>2, <2>3, <2>4, OneToOne
<1>2. IsFiniteSet(B) /\ Cardinality(B) = Cardinality(heap)
  <2>1. e \in [heap -> B] /\ \A x \in heap : e[x] = <<x[1], x[2]>>
    OBVIOUS
  <2>2. \A x, y \in heap : e[x] = e[y] => x = y
    BY <2>1 DEF Recorded
  <2>3. \A t \in B : \E x \in heap : e[x] = t
    BY <2>1
  <2>4. IsFiniteSet(heap)
    BY DEF Recorded
  <2> HIDE DEF e, B
  <2>5. QED
    BY <2>1, <2>2, <2>3, <2>4, OneToOne
<1>3. B \cap Headers = {} /\ Given = B \cup Headers
  BY DEF Recorded, Headers, Given
<1> HIDE DEF B, H
<1>4. Cardinality(B \cap Headers) = 0 /\ Cardinality(B) \in Nat /\ Cardinality(Headers) \in Nat
  BY <1>1, <1>2, <1>3, FS_EmptySet, FS_CardinalityType
<1>5. Cardinality(Given) = Cardinality(B) + Cardinality(Headers)
  <2>1. Cardinality(B \cup Headers) = Cardinality(B) + Cardinality(Headers) - Cardinality(B \cap Headers)
    BY ONLY <1>1, <1>2, FS_Union, ZenonT(30)
  <2>2. QED
    BY <1>3, <1>4, <2>1
<1>6. QED
  BY <1>1, <1>2, <1>5 DEF H

LEMMA HeapInvSound == HeapInv => HeapSound
<1> SUFFICES ASSUME HeapInv PROVE HeapSound
  OBVIOUS
<1>1. List.free = slob /\ List.at = slobfree
  BY DEF List
<1>2. ListOK(List) /\ Sound(List, Given, slob_pages)
  BY DEF HeapInv, Sound
<1>3. /\ \A b \in FreeUnits : /\ b \in slob /\ b \in Int \X (Nat \ {0}) /\ 0 <= b[1]
                              /\ b[1] \in Int /\ b[2] \in Int /\ b # <<ARENA, 1>>
      /\ \A g \in Given : g \in Nat \X (Nat \ {0})
  BY <1>1, <1>2 DEF ListOK, Sound, FreeUnits
<1>4. \A a, b \in FreeUnits \cup Given : a # b => Units(a) \cap Units(b) = {}
  <2>1. \A a, b \in FreeUnits : a # b => Units(a) \cap Units(b) = {}
    <3> SUFFICES ASSUME NEW a \in FreeUnits, NEW b \in FreeUnits, a # b PROVE Units(a) \cap Units(b) = {}
      OBVIOUS
    <3>1. Apart(a, b)
      BY <1>1, <1>2, <1>3 DEF ListOK
    <3>2. QED
      BY <1>3, <3>1, ApartDisjoint
  <2>2. \A a \in FreeUnits, g \in Given : Units(a) \cap Units(g) = {}
    <3> SUFFICES ASSUME NEW a \in FreeUnits, NEW g \in Given PROVE Units(a) \cap Units(g) = {}
      OBVIOUS
    <3>1. \A u : u \in Units(a) => u \in Cells(List.free)
      BY <1>1, <1>3, CellsMember
    <3>2. \A u : u \in Units(g) => u \in Cells(Given)
      BY CellsMember
    <3>3. Cells(Given) \cap Cells(List.free) = {}
      BY <1>2 DEF Sound
    <3>4. QED
      BY <3>1, <3>2, <3>3
  <2>3. \A a, b \in Given : a # b => Units(a) \cap Units(b) = {}
    BY <1>2 DEF Sound
  <2>4. QED
    BY <2>1, <2>2, <2>3
<1>5. Cells(FreeUnits \cup Given) = PageCells(slob_pages)
  <2>1. \A u : u \in Cells(FreeUnits) <=> u \in Cells(slob) /\ u # ARENA
    <3> TAKE u
    <3>1. u \in Cells(FreeUnits) => u # ARENA /\ u \in Cells(slob)
      <4> SUFFICES ASSUME NEW b \in FreeUnits, u \in Units(b) PROVE u # ARENA /\ u \in Cells(slob)
        BY CellsMember
      <4>1. u \in Int /\ b[1] <= u
        BY <1>3, UnitsMember
      <4>2. QED
        BY <1>3, <4>1, CellsMember DEF ARENA
    <3>2. u \in Cells(slob) => u \in Cells(FreeUnits) \/ u = ARENA
      <4> SUFFICES ASSUME NEW b \in slob, u \in Units(b), b = <<ARENA, 1>> PROVE u = ARENA
        BY CellsMember DEF FreeUnits
      <4>1. Units(b) = {ARENA}
        BY DEF Units, ARENA
      <4>2. QED
        BY <4>1
    <3>3. QED
      BY <3>1, <3>2
  <2>2. \A u : u \in PageCells(slob_pages) => u # ARENA
    <3> SUFFICES ASSUME NEW p \in slob_pages PROVE ARENA \notin Units(PageBlock(p))
      BY PageCellsMember
    <3>1. p \in Nat
      BY NPAGEAssumption DEF HeapInv, PagesHeld, Page
    <3>2. QED
      BY <3>1, PageBlockTyped
  <2>3. \A u : u \in Cells(Given) => u # ARENA
    <3> SUFFICES ASSUME NEW g \in Given, NEW u \in Units(g) PROVE u # ARENA
      BY CellsMember
    <3>1. g \in Int \X Int /\ 0 <= g[1] /\ g[1] \in Int
      BY <1>3
    <3>2. u \in Int /\ g[1] <= u
      BY <3>1, UnitsMember
    <3>3. QED
      BY <3>1, <3>2 DEF ARENA
  <2>4. \A u : u \in Cells(slob) \/ u \in Cells(Given) <=> u = ARENA \/ u \in PageCells(slob_pages)
    BY <1>1, <1>2 DEF Sound
  <2>5. \A u : u \in Cells(FreeUnits \cup Given) <=> u \in Cells(FreeUnits) \/ u \in Cells(Given)
    BY CellsMember
  <2>6. \A u : u \in Cells(FreeUnits \cup Given) <=> u \in PageCells(slob_pages)
    BY <2>1, <2>2, <2>3, <2>4, <2>5
  <2>7. QED
    BY <2>6
<1>6. \A a, b \in FreeUnits : a[1] + a[2] # b[1]
  BY <1>1, <1>2, <1>3 DEF ListOK
<1>7. \E b \in slob : b[1] = slobfree
  BY <1>1, <1>2 DEF ListOK
<1>8. \A b \in bigblocks : <<b.pages, b.n>> \in blocks
  BY DEF HeapInv, PagesHeld
<1>9. /\ Cardinality(Headers) = Cardinality(bigblocks \cup pending)
      /\ Cardinality(Given) = Cardinality(heap) + Cardinality(Headers)
  BY GivenCounted DEF HeapInv
<1>10. UNION {Units(b) : b \in FreeUnits \cup Given}
         = UNION {(p * PageUnits)..(p * PageUnits + PageUnits - 1) : p \in slob_pages}
  BY <1>5 DEF Cells, PageCells
<1>11. QED
  BY <1>4, <1>6, <1>7, <1>8, <1>9, <1>10 DEF HeapSound

\* For pages of any number and size, and any interleaving of kmalloc, kfree and other
\* users of the page manager: the units of the pages that were cut up are partitioned
\* into free blocks, blocks given out and headers; free blocks that touch were joined by
\* slob_free; no two requests share a block.
THEOREM HeapCorrect == KSpec => []HeapSound
  BY HeapInvariant, HeapInvSound, PTL

\* A block that kmalloc returns holds the bytes that were asked for: with the header, in
\* units rounded up, or in the pages that find_order counts by halving.  For sizes that
\* are neither up to two pages nor whole pages halving may leave out fewer bytes than
\* the block has pages, and no more.
THEOREM BlocksHoldRequest == KSpec => []BlocksLargeEnough
<1>1. HeapInv => BlocksLargeEnough
  BY DEF HeapInv
<1>2. QED
  BY <1>1, HeapInvariant, PTL

\* kmalloc and kfree call the page manager only as DefaultPmm supposes a caller does:
\* a block of pages is returned once, whole, by who was given it.
LEMMA HeapUsesPages == KSpec => Spec
<1>1. KInit => Init
  BY DEF KInit
<1>2. QED
  BY <1>1, HeapInvariant, KStep, PTL DEF KSpec, Spec

\* So the pages stay sound below the heap and its other users.
THEOREM PagesCorrectUnderHeap == KSpec => []BlocksSound
  BY HeapUsesPages, BlocksCorrect, PTL

\* And with the heap on top the list of pages still implements first fit.
THEOREM FirstFitUnderHeap == KSpec => ImplementsPmmSpec
  BY HeapUsesPages, FirstFitCorrect, PTL
=============================================================================
