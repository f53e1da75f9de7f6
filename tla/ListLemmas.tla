----------------------------- MODULE ListLemmas -----------------------------
(***************************************************************************)
(* Facts that the proofs about lists and sets need: elements of a list     *)
(* after an insertion or a removal, least elements, induction over         *)
(* positions, sets of the same size, and the values of loops.              *)
(***************************************************************************)
EXTENDS Integers, Sequences, SequencesExt, FiniteSetsExt,
        SequenceTheorems, FiniteSetTheorems, WellFoundedInduction, TLAPS

\* A part of a list.
LEMMA SubSeqAt ==
    ASSUME NEW S, NEW s \in Seq(S), NEW m \in 1..(Len(s) + 1), NEW n \in (m - 1)..Len(s)
    PROVE  /\ SubSeq(s, m, n) \in Seq(S) /\ Len(SubSeq(s, m, n)) = n - m + 1
           /\ \A i \in 1..(n - m + 1) : SubSeq(s, m, n)[i] = s[m + i - 1]
<1>1. Len(s) \in Nat /\ \A i \in m..n : s[i] \in S
  OBVIOUS
<1>2. SubSeq(s, m, n) \in Seq(S) /\ Len(SubSeq(s, m, n)) = IF m <= n THEN n - m + 1 ELSE 0
  BY <1>1, SubSeqProperties
<1>3. \A i \in 1..(n - m + 1) : SubSeq(s, m, n)[i] = s[m + i - 1]
  BY <1>1, SubSeqProperties
<1>4. QED
  BY <1>1, <1>2, <1>3

\* A list without its i-th element.
LEMMA RemoveAtProperties ==
    ASSUME NEW S, NEW s \in Seq(S), NEW i \in 1..Len(s)
    PROVE  /\ RemoveAt(s, i) \in Seq(S) /\ Len(RemoveAt(s, i)) = Len(s) - 1
           /\ \A k \in 1..(Len(s) - 1) : RemoveAt(s, i)[k] = IF k < i THEN s[k] ELSE s[k + 1]
<1> DEFINE l == SubSeq(s, 1, i - 1)
           r == SubSeq(s, i + 1, Len(s))
<1>0. Len(s) \in Nat /\ i \in Int
  OBVIOUS
<1>1. l \in Seq(S) /\ Len(l) = i - 1 /\ \A k \in 1..(i - 1) : l[k] = s[k]
  BY <1>0, SubSeqAt
<1>2. r \in Seq(S) /\ Len(r) = Len(s) - i /\ \A k \in 1..(Len(s) - i) : r[k] = s[i + 1 + k - 1]
  BY <1>0, SubSeqAt
<1> HIDE DEF l, r
<1>3. l \o r \in Seq(S) /\ Len(l \o r) = Len(l) + Len(r)
  BY <1>1, <1>2, ConcatProperties
<1>4. \A k \in 1..(Len(l) + Len(r)) : (l \o r)[k] = IF k <= Len(l) THEN l[k] ELSE r[k - Len(l)]
  BY <1>1, <1>2, ConcatProperties
<1>5. Len(l \o r) = Len(s) - 1
  BY <1>0, <1>1, <1>2, <1>3
<1>6. \A k \in 1..(Len(s) - 1) : (l \o r)[k] = IF k < i THEN s[k] ELSE s[k + 1]
  BY <1>0, <1>1, <1>2, <1>4
<1>7. QED
  BY <1>3, <1>5, <1>6 DEF RemoveAt, l, r

\* A list with e as its i-th element.
LEMMA InsertAtProperties ==
    ASSUME NEW S, NEW s \in Seq(S), NEW i \in 1..(Len(s) + 1), NEW e \in S
    PROVE  /\ InsertAt(s, i, e) \in Seq(S) /\ Len(InsertAt(s, i, e)) = Len(s) + 1
           /\ \A k \in 1..(i - 1) : InsertAt(s, i, e)[k] = s[k]
           /\ InsertAt(s, i, e)[i] = e
           /\ \A k \in (i + 1)..(Len(s) + 1) : InsertAt(s, i, e)[k] = s[k - 1]
<1> DEFINE l == SubSeq(s, 1, i - 1)
           m == <<e>>
           r == SubSeq(s, i, Len(s))
<1>0. Len(s) \in Nat /\ i \in Int /\ m \in Seq(S) /\ Len(m) = 1 /\ m[1] = e
  OBVIOUS
<1>1. l \in Seq(S) /\ Len(l) = i - 1 /\ \A k \in 1..(i - 1) : l[k] = s[k]
  BY <1>0, SubSeqAt
<1>2. r \in Seq(S) /\ Len(r) = Len(s) - i + 1 /\ \A k \in 1..(Len(s) - i + 1) : r[k] = s[i + k - 1]
  BY <1>0, SubSeqAt
<1> HIDE DEF l, m, r
<1>3. l \o m \in Seq(S) /\ Len(l \o m) = Len(l) + Len(m)
  BY <1>0, <1>1, ConcatProperties
<1>4. \A k \in 1..(Len(l) + Len(m)) : (l \o m)[k] = IF k <= Len(l) THEN l[k] ELSE m[k - Len(l)]
  BY <1>0, <1>1, ConcatProperties
<1>5. (l \o m) \o r \in Seq(S) /\ Len((l \o m) \o r) = Len(l \o m) + Len(r)
  BY <1>2, <1>3, ConcatProperties
<1>6. \A k \in 1..(Len(l \o m) + Len(r)) :
         ((l \o m) \o r)[k] = IF k <= Len(l \o m) THEN (l \o m)[k] ELSE r[k - Len(l \o m)]
  BY <1>2, <1>3, ConcatProperties
<1>7. Len(l \o m) = i /\ Len((l \o m) \o r) = Len(s) + 1
  BY <1>0, <1>1, <1>2, <1>3, <1>5
<1>8. \A k \in 1..(i - 1) : (l \o m)[k] = s[k]
  BY <1>0, <1>1, <1>4
<1>9. (l \o m)[i] = e
  <2>1. i \in 1..(Len(l) + Len(m)) /\ ~(i <= Len(l)) /\ i - Len(l) = 1
    BY <1>0, <1>1
  <2>2. (l \o m)[i] = m[i - Len(l)]
    BY <1>4, <2>1
  <2>3. m[i - Len(l)] = m[1]
    BY <2>1
  <2>4. QED
    BY <1>0, <2>2, <2>3
<1>10. \A k \in 1..i : ((l \o m) \o r)[k] = (l \o m)[k]
  BY <1>0, <1>2, <1>6, <1>7
<1>11. \A k \in (i + 1)..(Len(s) + 1) : ((l \o m) \o r)[k] = s[k - 1]
  BY <1>0, <1>2, <1>6, <1>7
<1>12. QED
  <2>1. i \in 1..i /\ \A k \in 1..(i - 1) : k \in 1..i
    BY <1>0
  <2>2. InsertAt(s, i, e) = (l \o m) \o r
    BY DEF InsertAt, l, m, r
  <2>3. QED
    BY <1>5, <1>7, <1>8, <1>9, <1>10, <1>11, <2>1, <2>2

\* Natural numbers have a least element: intervals from 0 are well founded by inclusion.
LEMMA LeastElement ==
    ASSUME NEW S \in SUBSET Nat, S # {}
    PROVE  Min(S) \in S /\ \A x \in S : Min(S) <= x
<1> DEFINE T == {0..x : x \in S}
           R == StrictSubsetOrdering(Nat)
<1>0. \A x \in S : 0..x \in FiniteSubsetsOf(Nat)
  <2> TAKE x \in S
  <2>1. IsFiniteSet(0..x)
    BY FS_Interval
  <2>2. 0..x \in SUBSET Nat
    OBVIOUS
  <2>3. QED
    BY <2>1, <2>2 DEF FiniteSubsetsOf
<1>1. \E t \in T : \A u \in T : ~(<<u, t>> \in R)
  <2>1. T \subseteq FiniteSubsetsOf(Nat) /\ T # {}
    BY <1>0
  <2>2. IsWellFoundedOn(R, FiniteSubsetsOf(Nat))
    BY FS_StrictSubsetOrderingWellFounded
  <2> HIDE DEF T, R
  <2>3. QED
    BY <2>1, <2>2, WFMin
<1>2. PICK x \in S : \A y \in S : ~(<<0..y, 0..x>> \in R)
  BY <1>1
<1>3. \A y \in S : x <= y
  <2> SUFFICES ASSUME NEW y \in S, y < x PROVE FALSE
    OBVIOUS
  <2>1. 0..y \subseteq 0..x /\ 0..y # 0..x /\ 0..y \in SUBSET Nat /\ 0..x \in SUBSET Nat
    <3>1. x \in 0..x /\ x \notin 0..y
      OBVIOUS
    <3>2. QED
      BY <3>1
  <2>2. <<0..y, 0..x>> \in R
    BY <2>1 DEF StrictSubsetOrdering
  <2>3. QED
    BY <1>2, <2>2
<1>4. QED
  BY <1>3 DEF Min

\* What holds at 0 and passes from each position to the next holds at all.
LEMMA IntervalInduction ==
    ASSUME NEW N \in Nat, NEW S, 0 \in S, \A k \in 0..(N - 1) : k \in S => k + 1 \in S
    PROVE  \A k \in 0..N : k \in S
<1> DEFINE T == {k \in 0..N : k \notin S}
<1> SUFFICES ASSUME T # {} PROVE FALSE
  OBVIOUS
<1>1. T \in SUBSET Nat
  OBVIOUS
<1>2. Min(T) \in T /\ \A x \in T : Min(T) <= x
  BY <1>1, LeastElement
<1> DEFINE m == Min(T)
<1> HIDE DEF m
<1>3. m \in 0..N /\ m \notin S /\ m # 0
  BY <1>2 DEF m
<1>4. m - 1 \in 0..(N - 1) /\ m - 1 \in 0..N /\ (m - 1) + 1 = m /\ ~(m <= m - 1)
  BY <1>3
<1>5. m - 1 \in S
  BY <1>2, <1>4 DEF m
<1>6. QED
  BY <1>3, <1>4, <1>5

\* A function that names every element of T once counts T.
LEMMA OneToOne ==
    ASSUME NEW S, NEW T, NEW f \in [S -> T], IsFiniteSet(S),
           \A x, y \in S : f[x] = f[y] => x = y, \A t \in T : \E x \in S : f[x] = t
    PROVE  IsFiniteSet(T) /\ Cardinality(T) = Cardinality(S)
<1>1. f \in Injection(S, T)
  BY DEF Injection, IsInjective
<1>2. f \in Surjection(S, T)
  BY DEF Surjection
<1>3. ExistsBijection(S, T)
  BY <1>1, <1>2 DEF ExistsBijection, Bijection
<1>4. QED
  BY <1>3, FS_Bijection

\* f gives the value of a loop that goes on from s to g[s] until it is in T.
LoopValues(f, S, T, g) ==
    /\ f = [s \in S |-> f[s]]
    /\ \A s \in S : f[s] = IF s \in T THEN s ELSE f[g[s]]

\* Such a loop has a value for every state it may start in: where it ends, if it does.
LEMMA LoopHasValue ==
    ASSUME NEW S, NEW T, NEW g, \A s \in S : s \notin T => g[s] \in S
    PROVE  \E f : LoopValues(f, S, T, g)
<1> DEFINE Closed(C) == \A x \in C : x \notin T => g[x] \in C
           Ends(s) == {t \in S \cap T : \A C \in SUBSET S : s \in C /\ Closed(C) => t \in C}
           f == [s \in S |-> CHOOSE t : t \in Ends(s)]
<1>1. ASSUME NEW s \in S, s \in T PROVE Ends(s) = {s}
  <2>1. {s} \in SUBSET S /\ s \in {s} /\ Closed({s})
    BY <1>1
  <2>2. QED
    BY <1>1, <2>1
<1>2. ASSUME NEW s \in S, s \notin T PROVE Ends(s) = Ends(g[s])
  <2>1. ASSUME NEW t \in Ends(s) PROVE t \in Ends(g[s])
    <3> SUFFICES ASSUME NEW C \in SUBSET S, g[s] \in C, Closed(C) PROVE t \in C
      BY <2>1
    <3>1. C \cup {s} \in SUBSET S /\ s \in C \cup {s} /\ Closed(C \cup {s})
      OBVIOUS
    <3>2. t \in C \cup {s} /\ t \in T
      BY <2>1, <3>1
    <3>3. QED
      BY <1>2, <3>2
  <2>2. ASSUME NEW t \in Ends(g[s]) PROVE t \in Ends(s)
    <3> SUFFICES ASSUME NEW C \in SUBSET S, s \in C, Closed(C) PROVE t \in C
      BY <2>2
    <3>1. g[s] \in C
      BY <1>2
    <3>2. QED
      BY <2>2, <3>1
  <2>3. QED
    BY <2>1, <2>2
<1> HIDE DEF Ends
<1>3. ASSUME NEW s \in S PROVE f[s] = IF s \in T THEN s ELSE f[g[s]]
  BY <1>1, <1>2
<1>4. f = [s \in S |-> f[s]]
  OBVIOUS
<1> HIDE DEF f
<1>5. QED
  BY <1>3, <1>4 DEF LoopValues
=============================================================================
