------------------------- MODULE Interrupts_proofs -------------------------
(***************************************************************************)
(* Proofs about what the interrupts of the clock and of the keyboard drive: *)
(* TimerList, DevStdin and Stride.                                         *)
(*                                                                         *)
(* TimerList, for any timers and any times: the list of differences        *)
(* implements independent count-downs, and the first timer is never at 0   *)
(* when a tick counts it down.  Everything rests on the sums of the        *)
(* differences (Due).  That the recursive sum has a value is proved first; *)
(* then what each operation does to all sums at once: an insertion adds    *)
(* one, a deletion takes one out, a tick lowers every one by 1.            *)
(*                                                                         *)
(* DevStdin, for any readers and any size of the buffer: no wake-up is    *)
(* lost, a read gets what it asked for, and every character is accounted   *)
(* for while positions wrap around the buffer.                             *)
(* The inductive invariant adds three facts.  The positions are at most a  *)
(* buffer apart, so that two of them between p_rpos and p_wpos name two    *)
(* places (ModInjective).  A reader that is awake and was not killed was   *)
(* woken for a character.  No character is both delivered and buffered, or *)
(* in two places (IsInjective): what a full buffer overwrites is gone.     *)
(*                                                                         *)
(* Stride, for any processes and priorities and any BIG_STRIDE and Wrap    *)
(* with 3 * BIG_STRIDE < Wrap: the skew heap holds exactly the processes   *)
(* that wait, and its root has the smallest stride.  A ghost, sub, gives   *)
(* the nodes below each node of a heap (IsTree).  Merged says what a merge *)
(* of two trees is, and MergeCorrect that skew_heap_merge is one, by       *)
(* induction on the number of nodes below the two it looks at; insertion   *)
(* and removal of the root follow.  Signed differences add up and change   *)
(* sign as integers do, as long as they are within BIG_STRIDE (SignedAdd,  *)
(* SignedNeg): so the order is transitive, the root is the least, and it   *)
(* may advance by a pass and stay within BIG_STRIDE of the others.         *)
(***************************************************************************)
EXTENDS TimerList, DevStdin, Stride, ListLemmas

TimerTypeOK ==
    /\ timer_list \in Seq(Timers) /\ expires \in [Timers -> Nat]
    /\ \A i, j \in 1..Len(timer_list) : i # j => timer_list[i] # timer_list[j]

TimerInv == TimerTypeOK /\ FirstNotExpired

N == Len(timer_list)

Sums == [k \in 0..N |-> Due(k)]

\* What the sums satisfy: the recursion, and that they are numbers.
SumsOK ==
    /\ Sums \in [0..N -> Nat] /\ Sums[0] = 0
    /\ \A k \in 0..(N - 1) : Sums[k + 1] = Sums[k] + expires[timer_list[k + 1]]
    /\ \A k \in 0..N : Due(k) = Sums[k]
-----------------------------------------------------------------------------
(* Sums.                                                                   *)

\* Prefix sums of any list of numbers exist, and all are numbers.
LEMMA SumExists ==
    ASSUME NEW M \in Nat, NEW e, \A i \in 1..M : e[i] \in Nat
    PROVE  \E f \in [0..M -> Nat] : f = [i \in 0..M |-> IF i = 0 THEN 0 ELSE f[i - 1] + e[i]]
<1> DEFINE OK(n) == \E f \in [0..n -> Nat] : f[0] = 0 /\ \A i \in 1..n : f[i] = f[i - 1] + e[i]
           S == {n \in 0..M : OK(n)}
<1>1. 0 \in S
  <2>1. [i \in 0..0 |-> 0] \in [0..0 -> Nat] /\ [i \in 0..0 |-> 0][0] = 0
    OBVIOUS
  <2>2. 0 \in 0..M /\ 1..0 = {}
    OBVIOUS
  <2>3. QED
    BY <2>1, <2>2
<1>2. ASSUME NEW k \in 0..(M - 1), k \in S PROVE k + 1 \in S
  <2>1. PICK f \in [0..k -> Nat] : f[0] = 0 /\ \A i \in 1..k : f[i] = f[i - 1] + e[i]
    BY <1>2
  <2> DEFINE g == [i \in 0..(k + 1) |-> IF i = k + 1 THEN f[k] + e[k + 1] ELSE f[i]]
  <2>2. k \in 0..k /\ k + 1 \in 1..M /\ k + 1 \in 0..M
    OBVIOUS
  <2>3. f[k] + e[k + 1] \in Nat
    BY <2>2
  <2>4. g \in [0..(k + 1) -> Nat]
    <3>1. ASSUME NEW i \in 0..(k + 1) PROVE (IF i = k + 1 THEN f[k] + e[k + 1] ELSE f[i]) \in Nat
      BY <2>3
    <3>2. QED
      BY <3>1
  <2>5. g[0] = 0
    BY <2>1
  <2>6. ASSUME NEW i \in 1..(k + 1) PROVE g[i] = g[i - 1] + e[i]
    <3>1. i - 1 \in 0..(k + 1) /\ i - 1 # k + 1 /\ g[i - 1] = f[i - 1]
      OBVIOUS
    <3>2. CASE i = k + 1
      BY <3>1, <3>2
    <3>3. CASE i # k + 1
      <4>1. i \in 1..k /\ g[i] = f[i]
        BY <3>3
      <4>2. QED
        BY <2>1, <3>1, <4>1
    <3>4. QED
      BY <3>2, <3>3
  <2> HIDE DEF g
  <2>7. QED
    BY <2>2, <2>4, <2>5, <2>6
<1> HIDE DEF S
<1>3. \A k \in 0..M : k \in S
  BY <1>1, <1>2, IntervalInduction
<1>4. PICK f \in [0..M -> Nat] : f[0] = 0 /\ \A i \in 1..M : f[i] = f[i - 1] + e[i]
  <2>1. M \in S
    BY <1>3
  <2>2. QED
    BY <2>1 DEF S
<1>5. f = [i \in 0..M |-> IF i = 0 THEN 0 ELSE f[i - 1] + e[i]]
  <2>1. ASSUME NEW i \in 0..M PROVE f[i] = IF i = 0 THEN 0 ELSE f[i - 1] + e[i]
    BY <1>4
  <2>2. QED
    BY <2>1
<1>6. QED
  BY <1>5

LEMMA SumsHold == TimerTypeOK => SumsOK
<1> SUFFICES ASSUME TimerTypeOK PROVE SumsOK
  OBVIOUS
<1> DEFINE M == Len(timer_list)
           e == [i \in 1..M |-> expires[timer_list[i]]]
           P(f) == f = [i \in 0..M |-> IF i = 0 THEN 0 ELSE f[i - 1] + expires[timer_list[i]]]
           sum == CHOOSE f : P(f)
<1>1. M \in Nat /\ \A i \in 1..M : timer_list[i] \in Timers /\ e[i] \in Nat /\ e[i] = expires[timer_list[i]]
  BY DEF TimerTypeOK
<1>2. \A k : Due(k) = sum[k]
  BY DEF Due
<1>3. PICK f \in [0..M -> Nat] : f = [i \in 0..M |-> IF i = 0 THEN 0 ELSE f[i - 1] + e[i]]
  <2> HIDE DEF e, M
  <2>1. QED
    BY <1>1, SumExists
<1>4. P(f)
  <2>1. \A i \in 0..M : i # 0 => e[i] = expires[timer_list[i]]
    BY <1>1
  <2>2. [i \in 0..M |-> IF i = 0 THEN 0 ELSE f[i - 1] + e[i]] =
           [i \in 0..M |-> IF i = 0 THEN 0 ELSE f[i - 1] + expires[timer_list[i]]]
    BY <2>1
  <2>3. QED
    BY <1>3, <2>2
<1>5. P(sum)
  BY <1>4
<1> HIDE DEF sum, M
<1>6. sum[0] = 0
  BY <1>1, <1>5
<1>7. \A k \in 0..(M - 1) : sum[k + 1] = sum[k] + expires[timer_list[k + 1]]
  <2> SUFFICES ASSUME NEW k \in 0..(M - 1) PROVE sum[k + 1] = sum[k] + expires[timer_list[k + 1]]
    OBVIOUS
  <2>1. k + 1 \in 0..M /\ k + 1 # 0 /\ (k + 1) - 1 = k
    BY <1>1
  <2>2. QED
    BY <1>5, <2>1
<1>8. \A k \in 0..M : sum[k] \in Nat
  <2> DEFINE S == {k \in 0..M : sum[k] \in Nat}
  <2>1. 0 \in S
    BY <1>1, <1>6
  <2>2. \A k \in 0..(M - 1) : k \in S => k + 1 \in S
    <3> SUFFICES ASSUME NEW k \in 0..(M - 1), k \in S PROVE k + 1 \in S
      OBVIOUS
    <3>1. k + 1 \in 0..M /\ k + 1 \in 1..M
      BY <1>1
    <3>2. expires[timer_list[k + 1]] \in Nat /\ sum[k] \in Nat
      BY <1>1, <3>1
    <3>3. QED
      BY <1>7, <3>1, <3>2
  <2> HIDE DEF S
  <2>3. \A k \in 0..M : k \in S
    BY <1>1, <2>1, <2>2, IntervalInduction
  <2>4. QED
    BY <2>3 DEF S
<1>9. Sums = [k \in 0..M |-> sum[k]]
  BY <1>2 DEF Sums, M, N
<1>10. \A k \in 0..M : Sums[k] = sum[k] /\ Due(k) = Sums[k]
  BY <1>2, <1>9
<1>11. Sums \in [0..M -> Nat]
  BY <1>8, <1>9
<1>12. QED
  <2>1. \A k \in 0..(M - 1) : k \in 0..M /\ k + 1 \in 0..M
    BY <1>1
  <2>2. 0 \in 0..M
    BY <1>1
  <2>3. QED
    BY <1>6, <1>7, <1>10, <1>11, <2>1, <2>2 DEF SumsOK, M, N

\* Sums grow along the list.
LEMMA SumsGrow ==
    ASSUME TimerTypeOK, SumsOK, NEW i \in 0..N, NEW j \in i..N
    PROVE  Sums[i] <= Sums[j]
<1>0. N \in Nat /\ i \in Int /\ j \in Int /\ j \in 0..N /\ i <= j
  BY DEF TimerTypeOK, N
<1> DEFINE S == {k \in 0..N : i <= k => Sums[i] <= Sums[k]}
<1>1. \A k \in 0..N : Sums[k] \in Nat
  BY DEF SumsOK
<1>2. 0 \in S
  BY <1>0, <1>1
<1>3. ASSUME NEW k \in 0..(N - 1), k \in S PROVE k + 1 \in S
  <2>0. k \in 0..N /\ k + 1 \in 0..N /\ k + 1 \in 1..Len(timer_list) /\ k \in Int
    BY <1>0 DEF N
  <2>1. expires[timer_list[k + 1]] \in Nat
    BY <2>0 DEF TimerTypeOK
  <2>2. Sums[k + 1] = Sums[k] + expires[timer_list[k + 1]]
    BY DEF SumsOK
  <2>3. Sums[k] \in Nat /\ Sums[i] \in Nat /\ Sums[k + 1] \in Nat
    BY <1>1, <2>0
  <2>4. CASE i <= k
    BY <1>3, <2>0, <2>1, <2>2, <2>3, <2>4
  <2>5. CASE i = k + 1
    BY <2>0, <2>3, <2>5
  <2>6. CASE i > k + 1
    BY <1>0, <2>0, <2>6
  <2>7. QED
    BY <1>0, <2>0, <2>4, <2>5, <2>6
<1> HIDE DEF S
<1>4. \A k \in 0..N : k \in S
  BY <1>0, <1>2, <1>3, IntervalInduction
<1>5. QED
  BY <1>0, <1>4 DEF S

\* Two lists of sums whose steps are alike.
SameStep(f, g, M) == \A k \in 0..(M - 1) : f[k] = g[k] => f[k + 1] = g[k + 1]

\* Two lists of sums that start and grow alike are equal.
LEMMA SameSums ==
    ASSUME NEW M \in Nat, NEW f, NEW g, f[0] = g[0], SameStep(f, g, M)
    PROVE  \A k \in 0..M : f[k] = g[k]
<1> DEFINE S == {k \in 0..M : f[k] = g[k]}
<1>1. 0 \in S
  OBVIOUS
<1>2. ASSUME NEW k \in 0..(M - 1), k \in S PROVE k + 1 \in S
  BY <1>2 DEF SameStep
<1> HIDE DEF S
<1>3. \A k \in 0..M : k \in S
  BY <1>1, <1>2, IntervalInduction
<1>4. QED
  BY <1>3 DEF S

\* The first timer is not at 0 exactly if no sum is.
FirstSumOK == N >= 1 => Sums[1] >= 1

LEMMA FirstIsSum == TimerTypeOK => (FirstNotExpired <=> FirstSumOK)
<1> SUFFICES ASSUME TimerTypeOK PROVE FirstNotExpired <=> FirstSumOK
  OBVIOUS
<1> USE DEF FirstSumOK
<1>0. N \in Nat /\ (timer_list # <<>> <=> N >= 1) /\ SumsOK
  BY SumsHold DEF TimerTypeOK, N
<1>1. CASE N >= 1
  <2>1. Head(timer_list) = timer_list[1] /\ 0 \in 0..(N - 1) /\ 1 \in 1..Len(timer_list) /\ 0 + 1 = 1
    BY <1>0, <1>1 DEF N
  <2>2. expires[timer_list[1]] \in Nat
    BY <2>1 DEF TimerTypeOK
  <2>3. Sums[1] = expires[timer_list[1]]
    <3>1. Sums[0 + 1] = Sums[0] + expires[timer_list[0 + 1]] /\ Sums[0] = 0
      BY <1>0, <2>1 DEF SumsOK
    <3>2. QED
      BY <2>1, <2>2, <3>1
  <2>4. QED
    BY <1>0, <1>1, <2>1, <2>2, <2>3 DEF FirstNotExpired
<1>2. CASE ~(N >= 1)
  BY <1>0, <1>2 DEF FirstNotExpired
<1>3. QED
  BY <1>1, <1>2

\* A pending timer is due at the sum at its place, which is positive.
RemainingOK ==
    /\ Remaining \in [Timers -> Nat]
    /\ \A i \in 1..N : Remaining[timer_list[i]] = Sums[i]
    /\ \A t \in Timers : ~Linked(t) => Remaining[t] = 0

LEMMA RemainingHolds == TimerTypeOK => RemainingOK
<1> SUFFICES ASSUME TimerTypeOK PROVE RemainingOK
  OBVIOUS
<1>0. SumsOK /\ N = Len(timer_list) /\ N \in Nat
  BY SumsHold DEF TimerTypeOK, N
<1> DEFINE at(t) == CHOOSE i \in 1..Len(timer_list) : timer_list[i] = t
<1>1. ASSUME NEW t \in Timers, Linked(t) PROVE at(t) \in 1..N /\ timer_list[at(t)] = t
  BY <1>0, <1>1 DEF Linked
<1>2. \A i \in 1..N : timer_list[i] \in Timers /\ Linked(timer_list[i])
  BY <1>0 DEF TimerTypeOK, Linked
<1>3. \A i \in 1..N : at(timer_list[i]) = i
  BY <1>0, <1>1, <1>2 DEF TimerTypeOK
<1>4. Remaining = [t \in Timers |-> IF Linked(t) THEN Due(at(t)) ELSE 0]
  BY DEF Remaining
<1> HIDE DEF at
<1>5. \A k \in 1..N : Due(k) = Sums[k] /\ Sums[k] \in Nat
  BY <1>0 DEF SumsOK
<1>6. Remaining \in [Timers -> Nat]
  BY <1>1, <1>4, <1>5
<1>7. \A i \in 1..N : Remaining[timer_list[i]] = Sums[i]
  BY <1>2, <1>3, <1>4, <1>5
<1>8. QED
  BY <1>4, <1>6, <1>7 DEF RemainingOK
-----------------------------------------------------------------------------
(* add_timer.                                                              *)

\* Where the loop of add_timer stops.
LEMMA PlaceFound ==
    ASSUME TimerTypeOK, SumsOK, NEW time \in Nat
    PROVE  /\ Place(time) \in 0..N
           /\ \A i \in 1..Place(time) : Sums[i] <= time
           /\ Place(time) < N => time < Sums[Place(time) + 1]
<1>0. N \in Nat /\ N = Len(timer_list) /\ \A k \in 0..N : Due(k) = Sums[k] /\ Sums[k] \in Nat
  BY DEF TimerTypeOK, SumsOK, N
<1> DEFINE S == {N + 1} \cup {i \in 1..N : time < Sums[i]}
           m == Min(S) - 1
<1>1. S \in SUBSET Nat /\ N + 1 \in S
  BY <1>0
<1>2. Min(S) \in S /\ \A x \in S : Min(S) <= x
  BY <1>1, LeastElement
<1>3. Min(S) \in 1..(N + 1)
  BY <1>0, <1>2
<1>4. m \in 0..N /\ m + 1 = Min(S) /\ m \in Int
  BY <1>0, <1>3
<1> HIDE DEF m
<1>5. ASSUME NEW i \in 1..m PROVE Due(i) <= time
  <2>1. i \in 1..N /\ i \in 0..N /\ ~(Min(S) <= i)
    BY <1>0, <1>4
  <2>2. i \notin S
    BY <1>2, <2>1
  <2>3. ~(time < Sums[i]) /\ Due(i) = Sums[i] /\ Sums[i] \in Nat
    BY <1>0, <2>1, <2>2
  <2>4. QED
    BY <2>3
<1>6. ASSUME m < N PROVE time < Due(m + 1)
  <2>1. m + 1 \in S /\ m + 1 # N + 1 /\ m + 1 \in 0..N
    BY <1>0, <1>2, <1>4, <1>6
  <2>2. QED
    BY <1>0, <2>1
<1> DEFINE Q(k) == (\A i \in 1..k : Due(i) <= time) /\ (k < N => time < Due(k + 1))
<1>7. m \in 0..N /\ Q(m)
  BY <1>4, <1>5, <1>6
<1>8. Place(time) = CHOOSE k \in 0..N : Q(k)
  BY <1>0 DEF Place
<1>9. Place(time) \in 0..N /\ Q(Place(time))
  BY <1>7, <1>8
<1>10. QED
  <2>1. \A i \in 1..Place(time) : i \in 0..N
    BY <1>0, <1>9
  <2>2. Place(time) < N => Place(time) + 1 \in 0..N
    BY <1>0, <1>9
  <2>3. QED
    BY <1>0, <1>9, <2>1, <2>2

\* The list and its sums after add_timer.
LEMMA AddTimer ==
    ASSUME TimerInv, NEW t \in Timers, NEW time \in Nat \ {0}, add_timer(t, time)
    PROVE  TimerTypeOK' /\ \E p \in 0..N :
              /\ Len(timer_list') = N + 1 /\ timer_list'[p + 1] = t /\ Sums'[p + 1] = time
              /\ \A i \in 1..p : timer_list'[i] = timer_list[i] /\ Sums'[i] = Sums[i]
              /\ \A i \in (p + 1)..N : timer_list'[i + 1] = timer_list[i] /\ Sums'[i + 1] = Sums[i]
<1> DEFINE p == Place(time)
           L == timer_list'
<1>0. TimerTypeOK /\ SumsOK /\ time \in Nat
  BY SumsHold DEF TimerInv
<1>1. /\ p \in 0..N /\ \A i \in 1..p : Sums[i] <= time
      /\ p < N => time < Sums[p + 1]
  BY <1>0, PlaceFound
<1>2. /\ N \in Nat /\ timer_list \in Seq(Timers) /\ N = Len(timer_list) /\ p \in Nat /\ t \in Timers
      /\ expires \in [Timers -> Nat] /\ \A i \in 1..N : timer_list[i] \in Timers
      /\ \A i, j \in 1..N : i # j => timer_list[i] # timer_list[j]
  BY <1>0, <1>1 DEF TimerTypeOK, N
<1>3. /\ \A k \in 0..N : Sums[k] \in Nat /\ Due(k) = Sums[k]
      /\ Sums[0] = 0
      /\ \A k \in 0..(N - 1) : Sums[k + 1] = Sums[k] + expires[timer_list[k + 1]]
  BY <1>0 DEF SumsOK
<1>4. \A i \in 1..N : timer_list[i] # t
  BY <1>2 DEF add_timer, Linked
<1>5. L = InsertAt(timer_list, p + 1, t) /\ expires' = split(t, p, time)
  BY DEF add_timer
<1> HIDE DEF p
<1>6. /\ L \in Seq(Timers) /\ Len(L) = N + 1 /\ L[p + 1] = t
      /\ \A k \in 1..p : L[k] = timer_list[k]
      /\ \A k \in (p + 2)..(N + 1) : L[k] = timer_list[k - 1]
  <2> DEFINE q == p + 1
             J == InsertAt(timer_list, q, t)
  <2>1. q \in 1..(Len(timer_list) + 1) /\ q - 1 = p /\ q + 1 = p + 2
    BY <1>1, <1>2
  <2> HIDE DEF q
  <2>0. timer_list \in Seq(Timers) /\ t \in Timers /\ q \in 1..(Len(timer_list) + 1)
    BY ONLY <1>2, <2>1
  <2>2. /\ J \in Seq(Timers) /\ Len(J) = Len(timer_list) + 1 /\ J[q] = t
        /\ \A k \in 1..(q - 1) : J[k] = timer_list[k]
        /\ \A k \in (q + 1)..(Len(timer_list) + 1) : J[k] = timer_list[k - 1]
    <3>1. J \in Seq(Timers) /\ Len(J) = Len(timer_list) + 1
      BY ONLY <2>0, InsertAtProperties
    <3>2. J[q] = t
      BY ONLY <2>0, InsertAtProperties
    <3>3. \A k \in 1..(q - 1) : J[k] = timer_list[k]
      BY ONLY <2>0, InsertAtProperties
    <3>4. \A k \in (q + 1)..(Len(timer_list) + 1) : J[k] = timer_list[k - 1]
      BY ONLY <2>0, InsertAtProperties
    <3>5. QED
      BY ONLY <3>1, <3>2, <3>3, <3>4
  <2>3. J = L
    BY <1>5 DEF q
  <2> HIDE DEF J
  <2>4. QED
    BY ONLY <1>2, <2>1, <2>2, <2>3 DEF q
<1>7. \A i \in (p + 1)..N : L[i + 1] = timer_list[i]
  <2> TAKE i \in (p + 1)..N
  <2>1. i + 1 \in (p + 2)..(N + 1) /\ (i + 1) - 1 = i
    BY <1>2
  <2>2. QED
    BY <1>6, <2>1
<1> DEFINE d == time - Sums[p]
<1>8. d \in Nat /\ Sums[p] + d = time /\ (p < N => expires[timer_list[p + 1]] - d \in Nat)
  <2>1. Sums[p] \in Nat /\ Sums[p] <= time
    <3>1. CASE p = 0
      BY <1>0, <1>3, <3>1
    <3>2. CASE p # 0
      <4>1. p \in 1..p
        BY <1>2, <3>2
      <4>2. QED
        BY <1>1, <1>3, <4>1
    <3>3. QED
      BY <3>1, <3>2
  <2>2. ASSUME p < N PROVE expires[timer_list[p + 1]] - d \in Nat
    <3>1. p \in 0..(N - 1) /\ p + 1 \in 0..N /\ p + 1 \in 1..N
      BY <1>1, <1>2, <2>2
    <3>2. Sums[p + 1] = Sums[p] + expires[timer_list[p + 1]] /\ time < Sums[p + 1]
      BY <1>1, <1>3, <2>2, <3>1
    <3>3. expires[timer_list[p + 1]] \in Nat
      BY <1>2, <3>1
    <3>4. QED
      BY <1>0, <2>1, <3>2, <3>3
  <2>3. QED
    BY <1>0, <2>1, <2>2
<1>9. /\ \A u \in Timers : expires'[u] = IF u = t THEN d
                           ELSE IF p < N /\ u = timer_list[p + 1] THEN expires[u] - d
                           ELSE expires[u]
      /\ expires' \in [Timers -> Nat]
  <2>1. expires' = [u \in Timers |-> IF u = t THEN d
                           ELSE IF p < N /\ u = timer_list[p + 1] THEN expires[u] - d
                           ELSE expires[u]]
    BY <1>1, <1>2, <1>3, <1>5 DEF split
  <2> HIDE DEF d
  <2>2. QED
    BY <1>2, <1>8, <2>1
<1> HIDE DEF d
<1>10. /\ expires'[t] = d
       /\ p < N => expires'[timer_list[p + 1]] = expires[timer_list[p + 1]] - d
       /\ \A i \in 1..N : i # p + 1 => expires'[timer_list[i]] = expires[timer_list[i]]
  <2>1. p < N => p + 1 \in 1..N
    BY <1>1, <1>2
  <2>2. QED
    BY <1>2, <1>4, <1>9, <2>1
<1>11. TimerTypeOK'
  <2>1. ASSUME NEW i \in 1..(N + 1), NEW j \in 1..(N + 1), i < j PROVE L[i] # L[j]
    <3>0. i \in Int /\ j \in Int /\ j - 1 \in Int
      BY <1>2
    <3>1. CASE j <= p
      <4>1. i \in 1..p /\ j \in 1..p /\ i \in 1..N /\ j \in 1..N /\ i # j
        BY <1>1, <1>2, <2>1, <3>1
      <4>2. QED
        BY <1>2, <1>6, <4>1
    <3>2. CASE j = p + 1
      <4>1. i \in 1..p /\ i \in 1..N
        BY <1>1, <1>2, <2>1, <3>2
      <4>2. QED
        BY <1>4, <1>6, <3>2, <4>1
    <3>3. CASE j > p + 1
      <4>1. j \in (p + 2)..(N + 1) /\ j - 1 \in 1..N /\ L[j] = timer_list[j - 1]
        BY <1>1, <1>2, <1>6, <3>3
      <4>2. CASE i <= p
        <5>1. i \in 1..p /\ i \in 1..N /\ i # j - 1
          BY <1>1, <1>2, <3>3, <4>2
        <5>2. QED
          BY <1>2, <1>6, <4>1, <5>1
      <4>3. CASE i = p + 1
        BY <1>4, <1>6, <4>1, <4>3
      <4>4. CASE i > p + 1
        <5>1. i \in (p + 2)..(N + 1) /\ i - 1 \in 1..N /\ L[i] = timer_list[i - 1] /\ i - 1 # j - 1
          BY <1>1, <1>2, <1>6, <2>1, <4>4
        <5>2. QED
          BY <1>2, <4>1, <5>1
      <4>5. QED
        BY <1>2, <3>0, <4>2, <4>3, <4>4
    <3>4. QED
      BY <1>2, <3>0, <3>1, <3>2, <3>3
  <2>2. \A i, j \in 1..Len(L) : i # j => L[i] # L[j]
    BY <1>2, <1>6, <2>1
  <2>3. QED
    BY <1>6, <1>9, <2>2 DEF TimerTypeOK
<1>12. SumsOK' /\ N' = N + 1
  <2>1. TimerTypeOK' => SumsOK'
    BY SumsHold, PTL
  <2>2. QED
    BY <1>6, <1>11, <2>1 DEF N
<1> DEFINE g == [k \in 0..(N + 1) |-> IF k <= p THEN Sums[k] ELSE IF k = p + 1 THEN time ELSE Sums[k - 1]]
<1>13. /\ \A k \in 0..p : g[k] = Sums[k]
       /\ g[p + 1] = time
       /\ \A k \in (p + 1)..N : g[k + 1] = Sums[k]
  BY <1>1, <1>2
<1>14. \A k \in 0..N : Sums'[k + 1] = Sums'[k] + expires'[L[k + 1]]
  <2>1. \A k \in 0..(Len(L) - 1) : Sums'[k + 1] = Sums'[k] + expires'[L[k + 1]]
    BY <1>12 DEF SumsOK, N
  <2>2. Len(L) - 1 = N
    BY <1>2, <1>6
  <2>3. QED
    BY <2>1, <2>2
<1>15. \A k \in 0..(N + 1) : Sums'[k] = g[k]
  <2>1. Sums'[0] = g[0]
    BY <1>2, <1>3, <1>12, <1>13 DEF SumsOK
  <2>2. ASSUME NEW k \in 0..N, Sums'[k] = g[k] PROVE Sums'[k + 1] = g[k + 1]
    <3>0. k \in Int /\ Sums[k] \in Nat /\ Sums'[k + 1] = g[k] + expires'[L[k + 1]]
      BY <1>2, <1>3, <1>14, <2>2
    <3> HIDE DEF g
    <3>1. CASE k < p
      <4>1. k \in 0..p /\ k + 1 \in 0..p /\ k + 1 \in 1..p /\ k + 1 \in 1..N /\ k + 1 # p + 1 /\ k \in 0..(N - 1)
        BY <1>1, <1>2, <3>0, <3>1
      <4>2. L[k + 1] = timer_list[k + 1] /\ expires'[L[k + 1]] = expires[timer_list[k + 1]]
        BY <1>6, <1>10, <4>1
      <4>3. QED
        BY <1>3, <1>13, <3>0, <4>1, <4>2
    <3>2. CASE k = p
      <4>1. g[p] = Sums[p] /\ g[p + 1] = time
        BY <1>2, <1>13
      <4>2. expires'[L[k + 1]] = d
        BY <1>6, <1>10, <3>2
      <4>3. QED
        BY <1>8, <3>0, <3>2, <4>1, <4>2
    <3>3. CASE k = p + 1
      <4>1. p < N /\ k + 1 \in (p + 2)..(N + 1) /\ (k + 1) - 1 = p + 1 /\ p \in 0..(N - 1) /\ p + 1 \in 1..N
        BY <1>1, <1>2, <3>3
      <4>2. L[k + 1] = timer_list[p + 1] /\ expires'[L[k + 1]] = expires[timer_list[p + 1]] - d
        BY <1>6, <1>10, <4>1
      <4>3. g[k] = time /\ g[k + 1] = Sums[p + 1] /\ Sums[p + 1] = Sums[p] + expires[timer_list[p + 1]]
        <5>1. p + 1 \in (p + 1)..N
          BY <1>2, <4>1
        <5>2. QED
          BY <1>3, <1>13, <3>3, <4>1, <5>1
      <4>4. expires[timer_list[p + 1]] \in Nat /\ Sums[p] \in Nat
        BY <1>1, <1>2, <1>3, <4>1
      <4>5. QED
        BY <1>8, <3>0, <4>2, <4>3, <4>4
    <3>4. CASE k > p + 1
      <4>0. k \in Int /\ N \in Int /\ p \in Int /\ 0 <= p /\ k <= N /\ p + 1 < k
        BY <1>2, <3>0, <3>4
      <4>1. /\ k \in 1..N /\ k # p + 1 /\ k - 1 \in (p + 1)..N /\ (k - 1) + 1 = k
            /\ k \in (p + 1)..N /\ k - 1 \in 0..(N - 1)
        BY ONLY <4>0
      <4>2. L[k + 1] = timer_list[k] /\ expires'[timer_list[k]] = expires[timer_list[k]]
        BY <1>7, <1>10, <4>1
      <4>3. g[k] = Sums[k - 1] /\ g[k + 1] = Sums[k]
        <5>1. g[(k - 1) + 1] = Sums[k - 1]
          BY <1>13, <4>1
        <5>2. QED
          BY <1>13, <4>1, <5>1
      <4>4. Sums[(k - 1) + 1] = Sums[k - 1] + expires[timer_list[(k - 1) + 1]]
        BY <1>3, <4>1
      <4>5. QED
        BY <3>0, <4>1, <4>2, <4>3, <4>4
    <3>5. QED
      BY <1>2, <3>0, <3>1, <3>2, <3>3, <3>4
  <2> DEFINE M == N + 1
  <2>3. M \in Nat /\ M - 1 = N
    BY <1>2
  <2> HIDE DEF g, M
  <2>4. SameStep(Sums', g, M)
    BY ONLY <2>2, <2>3 DEF SameStep
  <2>5. \A k \in 0..M : Sums'[k] = g[k]
    BY ONLY <2>1, <2>3, <2>4, SameSums
  <2>6. QED
    BY ONLY <2>5 DEF M
<1> HIDE DEF g
<1>16. Sums'[p + 1] = time /\ \A i \in 1..p : Sums'[i] = Sums[i]
  <2>1. p + 1 \in 0..(N + 1) /\ \A i \in 1..p : i \in 0..(N + 1) /\ i \in 0..p
    BY <1>1, <1>2
  <2>2. Sums'[p + 1] = time
    BY ONLY <1>13, <1>15, <2>1
  <2>3. \A i \in 1..p : Sums'[i] = Sums[i]
    BY ONLY <1>13, <1>15, <2>1
  <2>4. QED
    BY ONLY <2>2, <2>3
<1>17. \A i \in (p + 1)..N : Sums'[i + 1] = Sums[i]
  BY <1>1, <1>2, <1>13, <1>15
<1>18. QED
  BY <1>1, <1>6, <1>7, <1>11, <1>16, <1>17
-----------------------------------------------------------------------------
(* del_timer.                                                              *)

\* The list and its sums after del_timer.
LEMMA DelTimer ==
    ASSUME TimerInv, NEW t \in Timers, del_timer(t)
    PROVE  TimerTypeOK' /\ \E i \in 1..N :
              /\ Len(timer_list') = N - 1 /\ timer_list[i] = t
              /\ \A k \in 1..(i - 1) : timer_list'[k] = timer_list[k] /\ Sums'[k] = Sums[k]
              /\ \A k \in i..(N - 1) : timer_list'[k] = timer_list[k + 1] /\ Sums'[k] = Sums[k + 1]
<1> DEFINE L == timer_list'
<1>0. TimerTypeOK /\ SumsOK
  BY SumsHold DEF TimerInv
<1>1. PICK i \in 1..N : timer_list[i] = t /\ L = RemoveAt(timer_list, i) /\ expires' = merge(i)
  BY DEF del_timer, N
<1>2. /\ N \in Nat /\ timer_list \in Seq(Timers) /\ N = Len(timer_list) /\ i \in Int /\ 1 <= i /\ i <= N
      /\ expires \in [Timers -> Nat] /\ \A j \in 1..N : timer_list[j] \in Timers
      /\ \A j, l \in 1..N : j # l => timer_list[j] # timer_list[l]
  BY <1>0, <1>1 DEF TimerTypeOK, N
<1>3. /\ \A k \in 0..N : Sums[k] \in Nat
      /\ Sums[0] = 0
      /\ \A k \in 0..(N - 1) : Sums[k + 1] = Sums[k] + expires[timer_list[k + 1]]
  BY <1>0 DEF SumsOK
<1>4. /\ L \in Seq(Timers) /\ Len(L) = N - 1
      /\ \A k \in 1..(N - 1) : L[k] = IF k < i THEN timer_list[k] ELSE timer_list[k + 1]
  <2>1. timer_list \in Seq(Timers) /\ i \in 1..Len(timer_list)
    BY <1>2
  <2>2. /\ RemoveAt(timer_list, i) \in Seq(Timers) /\ Len(RemoveAt(timer_list, i)) = Len(timer_list) - 1
        /\ \A k \in 1..(Len(timer_list) - 1) :
              RemoveAt(timer_list, i)[k] = IF k < i THEN timer_list[k] ELSE timer_list[k + 1]
    BY ONLY <2>1, RemoveAtProperties, SMTT(30)
  <2>3. QED
    BY ONLY <1>1, <1>2, <2>2
<1>5. /\ \A k \in 1..(i - 1) : L[k] = timer_list[k] /\ k \in 1..N
      /\ \A k \in i..(N - 1) : L[k] = timer_list[k + 1] /\ k + 1 \in 1..N
  <2>1. ASSUME NEW k \in 1..(i - 1) PROVE L[k] = timer_list[k] /\ k \in 1..N
    <3>1. k \in 1..(N - 1) /\ k < i /\ k \in 1..N
      BY ONLY <1>2
    <3>2. QED
      BY ONLY <1>4, <3>1
  <2>2. ASSUME NEW k \in i..(N - 1) PROVE L[k] = timer_list[k + 1] /\ k + 1 \in 1..N
    <3>1. k \in 1..(N - 1) /\ ~(k < i) /\ k + 1 \in 1..N
      BY ONLY <1>2
    <3>2. QED
      BY ONLY <1>4, <3>1
  <2>3. QED
    BY <2>1, <2>2
<1>6. /\ \A u \in Timers : expires'[u] = IF u = t THEN 0
                           ELSE IF i < N /\ u = timer_list[i + 1] THEN expires[u] + expires[t]
                           ELSE expires[u]
      /\ expires' \in [Timers -> Nat]
  <2>1. expires' = [u \in Timers |-> IF u = t THEN 0
                           ELSE IF i < N /\ u = timer_list[i + 1] THEN expires[u] + expires[t]
                           ELSE expires[u]]
    BY <1>1, <1>2 DEF merge
  <2>2. QED
    BY <1>2, <2>1
<1>7. /\ i < N => expires'[timer_list[i + 1]] = expires[timer_list[i + 1]] + expires[t]
      /\ \A j \in 1..N : j # i /\ j # i + 1 => expires'[timer_list[j]] = expires[timer_list[j]]
  <2>1. i < N => i + 1 \in 1..N /\ i + 1 # i
    BY <1>2
  <2>2. QED
    BY <1>1, <1>2, <1>6, <2>1
<1>8. TimerTypeOK'
  <2>1. ASSUME NEW j \in 1..(N - 1), NEW l \in 1..(N - 1), j < l PROVE L[j] # L[l]
    <3>0. j \in Int /\ l \in Int
      BY <1>2
    <3>1. CASE l < i
      <4>1. j \in 1..(i - 1) /\ l \in 1..(i - 1) /\ j # l
        BY <1>2, <2>1, <3>0, <3>1
      <4>2. QED
        BY <1>2, <1>5, <4>1
    <3>2. CASE j < i /\ i <= l
      <4>1. j \in 1..(i - 1) /\ l \in i..(N - 1) /\ j # l + 1
        BY <1>2, <3>0, <3>2
      <4>2. QED
        BY <1>2, <1>5, <4>1
    <3>3. CASE i <= j
      <4>1. j \in i..(N - 1) /\ l \in i..(N - 1) /\ j + 1 # l + 1
        BY <1>2, <2>1, <3>0, <3>3
      <4>2. QED
        BY <1>2, <1>5, <4>1
    <3>4. QED
      BY <1>2, <2>1, <3>0, <3>1, <3>2, <3>3
  <2>2. ASSUME NEW j \in 1..Len(L), NEW l \in 1..Len(L), j # l PROVE L[j] # L[l]
    <3>1. j \in 1..(N - 1) /\ l \in 1..(N - 1)
      BY <1>4
    <3>2. j < l \/ l < j
      BY <1>2, <2>2, <3>1
    <3>3. QED
      BY ONLY <2>1, <3>1, <3>2
  <2>3. QED
    BY <1>4, <1>6, <2>2 DEF TimerTypeOK
<1>9. SumsOK'
  <2>1. TimerTypeOK' => SumsOK'
    BY SumsHold, PTL
  <2>2. QED
    BY <1>8, <2>1
<1> DEFINE M == N - 1
           g == [k \in 0..M |-> IF k < i THEN Sums[k] ELSE Sums[k + 1]]
<1>10. M \in Nat /\ M = N - 1
  BY <1>2
<1>11. /\ \A k \in 0..(i - 1) : g[k] = Sums[k]
       /\ \A k \in i..M : g[k] = Sums[k + 1]
  BY <1>2
<1>12. Sums'[0] = 0 /\ \A k \in 0..(M - 1) : Sums'[k + 1] = Sums'[k] + expires'[L[k + 1]]
  <2>1. Sums'[0] = 0 /\ \A k \in 0..(Len(L) - 1) : Sums'[k + 1] = Sums'[k] + expires'[L[k + 1]]
    BY <1>9 DEF SumsOK, N
  <2>2. QED
    BY <1>4, <2>1
<1> HIDE DEF M, g
<1>13. \A k \in 0..M : Sums'[k] = g[k]
  <2>1. Sums'[0] = g[0]
    BY <1>2, <1>3, <1>11, <1>12
  <2>2. ASSUME NEW k \in 0..(M - 1), Sums'[k] = g[k] PROVE Sums'[k + 1] = g[k + 1]
    <3>0. k \in Int /\ 0 <= k /\ k + 1 <= M /\ M = N - 1 /\ N \in Int
      BY <1>2, <1>10
    <3>1. Sums'[k + 1] = g[k] + expires'[L[k + 1]]
      BY <1>12, <2>2
    <3>2. CASE k + 1 < i
      <4>1. /\ k \in 0..(i - 1) /\ k + 1 \in 0..(i - 1) /\ k + 1 \in 1..(i - 1) /\ k + 1 \in 1..N
            /\ k + 1 # i /\ k + 1 # i + 1 /\ k \in 0..(N - 1)
        BY ONLY <1>2, <3>0, <3>2
      <4>2. L[k + 1] = timer_list[k + 1] /\ expires'[timer_list[k + 1]] = expires[timer_list[k + 1]]
        BY ONLY <1>5, <1>7, <4>1
      <4>3. g[k] = Sums[k] /\ g[k + 1] = Sums[k + 1] /\ Sums[k + 1] = Sums[k] + expires[timer_list[k + 1]]
        BY ONLY <1>3, <1>11, <4>1
      <4>4. QED
        BY ONLY <3>1, <4>2, <4>3
    <3>3. CASE k + 1 = i
      <4>1. k \in 0..(i - 1) /\ i < N /\ i \in i..(N - 1) /\ i \in i..M /\ i \in 0..(N - 1) /\ i \in 1..N
            /\ k \in 0..N /\ k \in 0..(N - 1) /\ i + 1 \in 1..N
        BY ONLY <1>2, <3>0, <3>3
      <4>2. L[i] = timer_list[i + 1] /\ expires'[timer_list[i + 1]] = expires[timer_list[i + 1]] + expires[t]
        BY ONLY <1>5, <1>7, <4>1
      <4>3. /\ g[k] = Sums[k] /\ g[i] = Sums[i + 1] /\ Sums[k + 1] = Sums[k] + expires[timer_list[k + 1]]
            /\ Sums[i + 1] = Sums[i] + expires[timer_list[i + 1]]
        BY ONLY <1>3, <1>11, <4>1
      <4>4. expires[t] \in Nat /\ expires[timer_list[i + 1]] \in Nat /\ Sums[k] \in Nat
        BY ONLY <1>1, <1>2, <1>3, <4>1
      <4>5. Sums[i] = Sums[k] + expires[t]
        BY ONLY <1>1, <3>3, <4>3
      <4>6. QED
        BY ONLY <3>1, <3>3, <4>2, <4>3, <4>4, <4>5
    <3>4. CASE i < k + 1
      <4>1. /\ k \in i..M /\ k + 1 \in i..M /\ k + 1 \in i..(N - 1) /\ k + 2 \in 1..N /\ (k + 1) + 1 = k + 2
            /\ k + 2 # i /\ k + 2 # i + 1 /\ k + 1 \in 0..(N - 1)
        BY ONLY <1>2, <3>0, <3>4
      <4>2. L[k + 1] = timer_list[k + 2] /\ expires'[timer_list[k + 2]] = expires[timer_list[k + 2]]
        BY ONLY <1>5, <1>7, <4>1
      <4>3. /\ g[k] = Sums[k + 1] /\ g[k + 1] = Sums[k + 2]
            /\ Sums[k + 2] = Sums[k + 1] + expires[timer_list[k + 2]]
        BY ONLY <1>3, <1>11, <4>1
      <4>4. QED
        BY ONLY <3>1, <4>2, <4>3
    <3>5. QED
      BY ONLY <1>2, <3>0, <3>2, <3>3, <3>4
  <2>3. SameStep(Sums', g, M)
    BY ONLY <2>2 DEF SameStep
  <2>4. QED
    BY ONLY <1>10, <2>1, <2>3, SameSums
<1>14. \A k \in 1..(i - 1) : Sums'[k] = Sums[k]
  <2> TAKE k \in 1..(i - 1)
  <2>1. k \in 0..M /\ k \in 0..(i - 1)
    BY <1>2, <1>10
  <2>2. QED
    BY <1>11, <1>13, <2>1
<1>15. \A k \in i..(N - 1) : Sums'[k] = Sums[k + 1]
  <2> TAKE k \in i..(N - 1)
  <2>1. k \in 0..M /\ k \in i..M
    BY <1>2, <1>10
  <2>2. QED
    BY <1>11, <1>13, <2>1
<1>16. QED
  BY <1>1, <1>4, <1>5, <1>8, <1>14, <1>15
-----------------------------------------------------------------------------
(* run_timer_list.                                                         *)

\* The timers the loop of run_timer_list takes off are those that have one tick left.
LEMMA ExpiredFound ==
    ASSUME TimerInv
    PROVE  /\ expired \in 0..N
           /\ \A i \in 1..expired : Sums[i] = 1
           /\ \A i \in (expired + 1)..N : Sums[i] > 1
<1>0. TimerTypeOK /\ SumsOK /\ (N >= 1 => Sums[1] >= 1)
  BY SumsHold, FirstIsSum DEF TimerInv, FirstSumOK
<1>1. N \in Nat /\ N = Len(timer_list) /\ \A k \in 0..N : Due(k) = Sums[k] /\ Sums[k] \in Nat
  <2>1. N \in Nat /\ N = Len(timer_list)
    BY <1>0 DEF TimerTypeOK, N
  <2>2. QED
    BY <1>0, <2>1 DEF SumsOK
<1> DEFINE S == {N + 1} \cup {i \in 1..N : Sums[i] # 1}
           m == Min(S) - 1
           Q(n) == (\A i \in 1..n : Due(i) = 1) /\ (n < N => Due(n + 1) # 1)
<1>2. S \in SUBSET Nat /\ N + 1 \in S
  BY <1>1
<1>3. Min(S) \in S /\ \A x \in S : Min(S) <= x
  BY <1>2, LeastElement
<1>4. m \in 0..N /\ m + 1 = Min(S) /\ m \in Int
  <2>1. Min(S) \in 1..(N + 1)
    BY <1>1, <1>3
  <2>2. QED
    BY <1>1, <2>1
<1> HIDE DEF m
<1>5. ASSUME NEW i \in 1..m PROVE Due(i) = 1
  <2>1. i \in 1..N /\ i \in 0..N /\ ~(Min(S) <= i)
    BY <1>1, <1>4
  <2>2. i \notin S
    BY <1>3, <2>1
  <2>3. QED
    BY <1>1, <2>1, <2>2
<1>6. ASSUME m < N PROVE Due(m + 1) # 1
  <2>1. m + 1 \in S /\ m + 1 # N + 1 /\ m + 1 \in 0..N
    BY <1>1, <1>3, <1>4, <1>6
  <2>2. QED
    BY <1>1, <2>1
<1>7. m \in 0..N /\ Q(m)
  BY <1>4, <1>5, <1>6
<1>8. expired = CHOOSE n \in 0..N : Q(n)
  BY <1>1 DEF expired
<1> DEFINE n == expired
<1>9. n \in 0..N /\ Q(n)
  BY <1>7, <1>8
<1> HIDE DEF n
<1>10. \A i \in 1..n : Sums[i] = 1
  <2> TAKE i \in 1..n
  <2>1. i \in 0..N
    BY <1>1, <1>9
  <2>2. QED
    BY <1>1, <1>9, <2>1
<1>11. ASSUME NEW i \in (n + 1)..N PROVE Sums[i] > 1
  <2>1. /\ n \in Int /\ 0 <= n /\ n < N /\ n + 1 \in 0..N /\ i \in (n + 1)..N /\ i \in 0..N
        /\ 1 \in 0..N /\ n + 1 \in 1..N /\ N >= 1
    BY <1>1, <1>9
  <2>2. Sums[n + 1] # 1 /\ Sums[n + 1] \in Nat /\ Sums[1] \in Nat /\ Sums[i] \in Nat
    BY <1>1, <1>9, <2>1
  <2>3. Sums[1] <= Sums[n + 1] /\ Sums[n + 1] <= Sums[i]
    BY <1>0, <2>1, SumsGrow
  <2>4. QED
    BY <1>0, <2>1, <2>2, <2>3
<1>12. QED
  BY <1>9, <1>10, <1>11 DEF n

\* The list and its sums after a tick.
LEMMA RunTimerList ==
    ASSUME TimerInv, run_timer_list
    PROVE  TimerTypeOK' /\ \E n \in 0..N :
              /\ Len(timer_list') = N - n
              /\ \A k \in 1..(N - n) : timer_list'[k] = timer_list[k + n] /\ Sums'[k] = Sums[k + n] - 1
              /\ \A i \in 1..n : Sums[i] = 1
              /\ \A i \in (n + 1)..N : Sums[i] > 1
              /\ wakes' = {timer_list[i] : i \in 1..n}
<1> DEFINE L == timer_list'
           n == expired
<1>0. TimerTypeOK /\ SumsOK
  BY SumsHold DEF TimerInv
<1>1. /\ n \in 0..N /\ \A i \in 1..n : Sums[i] = 1
      /\ \A i \in (n + 1)..N : Sums[i] > 1
  BY ExpiredFound
<1>2. /\ L = SubSeq(timer_list, n + 1, Len(timer_list))
      /\ expires' = [u \in Timers |-> IF timer_list # <<>> /\ u = Head(timer_list) THEN expires[u] - 1
                                      ELSE expires[u]]
      /\ wakes' = {timer_list[i] : i \in 1..n}
  BY DEF run_timer_list
<1> HIDE DEF n
<1>3. /\ N \in Nat /\ timer_list \in Seq(Timers) /\ N = Len(timer_list)
      /\ n \in Int /\ 0 <= n /\ n <= N
      /\ expires \in [Timers -> Nat] /\ \A j \in 1..N : timer_list[j] \in Timers
      /\ \A j, l \in 1..N : j # l => timer_list[j] # timer_list[l]
  BY <1>0, <1>1 DEF TimerTypeOK, N
<1>4. /\ \A k \in 0..N : Sums[k] \in Nat
      /\ Sums[0] = 0
      /\ \A k \in 0..(N - 1) : Sums[k + 1] = Sums[k] + expires[timer_list[k + 1]]
  BY <1>0 DEF SumsOK
<1>5. L \in Seq(Timers) /\ Len(L) = N - n /\ \A k \in 1..(N - n) : L[k] = timer_list[k + n] /\ k + n \in 1..N
  <2> DEFINE q == n + 1
  <2>1. /\ timer_list \in Seq(Timers) /\ q \in 1..(Len(timer_list) + 1)
        /\ Len(timer_list) \in (q - 1)..Len(timer_list)
    BY <1>3
  <2>2. Len(timer_list) - q + 1 = N - n /\ q = n + 1
    BY <1>3
  <2> HIDE DEF q
  <2>3. /\ SubSeq(timer_list, q, Len(timer_list)) \in Seq(Timers)
        /\ Len(SubSeq(timer_list, q, Len(timer_list))) = Len(timer_list) - q + 1
        /\ \A i \in 1..(Len(timer_list) - q + 1) :
              SubSeq(timer_list, q, Len(timer_list))[i] = timer_list[q + i - 1]
    BY ONLY <2>1, SubSeqAt, SMTT(30)
  <2>4. \A k \in 1..(N - n) : q + k - 1 = k + n /\ k + n \in 1..N
    BY ONLY <1>3, <2>2
  <2>5. QED
    BY ONLY <1>2, <2>2, <2>3, <2>4
<1>6. /\ expires' \in [Timers -> Nat]
      /\ N >= 1 => expires'[timer_list[1]] = expires[timer_list[1]] - 1
      /\ \A j \in 2..N : expires'[timer_list[j]] = expires[timer_list[j]]
  <2>1. CASE N >= 1
    <3>1. timer_list # <<>> /\ Head(timer_list) = timer_list[1] /\ 1 \in 1..N
      BY <1>3, <2>1
    <3>2. expires[timer_list[1]] \in Nat \ {0} /\ timer_list[1] \in Timers
      BY <1>3, <3>1 DEF TimerInv, FirstNotExpired
    <3>3. expires' = [u \in Timers |-> IF u = timer_list[1] THEN expires[u] - 1 ELSE expires[u]]
      BY <1>2, <3>1
    <3>4. expires' \in [Timers -> Nat]
      BY <1>3, <3>2, <3>3
    <3>5. \A j \in 2..N : timer_list[j] \in Timers /\ timer_list[j] # timer_list[1]
      <4> TAKE j \in 2..N
      <4>1. j \in 1..N /\ j # 1
        BY <1>3
      <4>2. QED
        BY <1>3, <3>1, <4>1
    <3>6. QED
      BY <3>2, <3>3, <3>4, <3>5
  <2>2. CASE ~(N >= 1)
    <3>1. timer_list = <<>> /\ 2..N = {}
      BY <1>3, <2>2
    <3>2. expires' = expires
      BY <1>2, <1>3, <3>1
    <3>3. QED
      BY <1>3, <2>2, <3>1, <3>2
  <2>3. QED
    BY <2>1, <2>2
<1>7. TimerTypeOK'
  <2>1. \A j, l \in 1..Len(L) : j # l => L[j] # L[l]
    <3> SUFFICES ASSUME NEW j \in 1..(N - n), NEW l \in 1..(N - n), j # l PROVE L[j] # L[l]
      BY <1>5
    <3>1. L[j] = timer_list[j + n] /\ L[l] = timer_list[l + n] /\ j + n \in 1..N /\ l + n \in 1..N
      BY ONLY <1>5
    <3>2. j + n # l + n
      BY ONLY <1>3, j # l
    <3>3. QED
      BY ONLY <1>3, <3>1, <3>2
  <2>2. QED
    BY <1>5, <1>6, <2>1 DEF TimerTypeOK
<1>8. SumsOK'
  <2>1. TimerTypeOK' => SumsOK'
    BY SumsHold, PTL
  <2>2. QED
    BY <1>7, <2>1
<1> DEFINE M == N - n
           g == [k \in 0..M |-> IF k = 0 THEN 0 ELSE Sums[k + n] - 1]
<1>9. M \in Nat /\ M = N - n
  BY <1>3
<1>10. g[0] = 0 /\ \A k \in 1..M : g[k] = Sums[k + n] - 1
  BY <1>9
<1>11. Sums'[0] = 0 /\ \A k \in 0..(M - 1) : Sums'[k + 1] = Sums'[k] + expires'[L[k + 1]]
  <2>1. Sums'[0] = 0 /\ \A k \in 0..(Len(L) - 1) : Sums'[k + 1] = Sums'[k] + expires'[L[k + 1]]
    BY <1>8 DEF SumsOK, N
  <2>2. QED
    BY <1>5, <2>1
<1> HIDE DEF M, g
<1>12. \A k \in 0..M : Sums'[k] = g[k]
  <2>1. Sums'[0] = g[0]
    BY <1>10, <1>11
  <2>2. ASSUME NEW k \in 0..(M - 1), Sums'[k] = g[k] PROVE Sums'[k + 1] = g[k + 1]
    <3>0. /\ k \in Int /\ 0 <= k /\ k + 1 \in 1..M /\ k + 1 \in 1..(N - n) /\ k + 1 + n \in 1..N
          /\ k + n \in 0..(N - 1) /\ k + n \in 0..N /\ k + 1 + n \in 0..N /\ (k + n) + 1 = k + 1 + n
      BY ONLY <1>3, <1>9, k \in 0..(M - 1)
    <3>1. Sums'[k + 1] = g[k] + expires'[L[k + 1]] /\ g[k + 1] = Sums[k + 1 + n] - 1
      BY ONLY <1>10, <1>11, <2>2, <3>0
    <3>2. /\ L[k + 1] = timer_list[k + 1 + n] /\ expires[timer_list[k + 1 + n]] \in Nat
          /\ Sums[k + 1 + n] = Sums[k + n] + expires[timer_list[k + 1 + n]] /\ Sums[k + n] \in Nat
      BY ONLY <1>3, <1>4, <1>5, <3>0
    <3>3. CASE k = 0 /\ n = 0
      <4>1. k + 1 + n = 1 /\ N >= 1 /\ k + n = 0
        BY ONLY <1>3, <3>0, <3>3
      <4>2. expires'[L[k + 1]] = expires[timer_list[k + 1 + n]] - 1
        BY ONLY <1>6, <3>2, <4>1
      <4>3. QED
        BY ONLY <1>4, <1>10, <3>1, <3>2, <3>3, <4>1, <4>2
    <3>4. CASE k # 0 \/ n # 0
      <4>1. k + 1 + n \in 2..N
        BY ONLY <1>3, <3>0, <3>4
      <4>2. expires'[L[k + 1]] = expires[timer_list[k + 1 + n]]
        BY ONLY <1>6, <3>2, <4>1
      <4>3. g[k] = Sums[k + n] - 1
        <5>1. CASE k = 0
          <6>1. n \in 1..n /\ k + n = n
            BY ONLY <1>3, <3>4, <5>1
          <6>2. QED
            BY ONLY <1>1, <1>10, <5>1, <6>1
        <5>2. CASE k # 0
          <6>1. k \in 1..M
            BY ONLY <1>9, <3>0, <5>2
          <6>2. QED
            BY ONLY <1>10, <6>1
        <5>3. QED
          BY <5>1, <5>2
      <4>4. QED
        BY ONLY <3>1, <3>2, <4>2, <4>3
    <3>5. QED
      BY ONLY <3>3, <3>4
  <2>3. SameStep(Sums', g, M)
    BY ONLY <2>2 DEF SameStep
  <2>4. QED
    BY ONLY <1>9, <2>1, <2>3, SameSums
<1>13. \A k \in 1..(N - n) : Sums'[k] = Sums[k + n] - 1
  BY <1>9, <1>10, <1>12
<1>14. QED
  BY <1>1, <1>2, <1>5, <1>7, <1>13
-----------------------------------------------------------------------------
(* The invariant and the refinement.                                       *)

LEMMA TimerInit == TimersInit => TimerInv
  BY DEF TimersInit, TimerInv, TimerTypeOK, FirstNotExpired

\* In the next state too the sums tell whether the first timer is at 0.
LEMMA NextInv ==
    ASSUME TimerTypeOK', Len(timer_list') >= 1 => Sums'[1] >= 1
    PROVE  TimerInv'
<1>1. TimerTypeOK' => (FirstNotExpired' <=> FirstSumOK')
  BY FirstIsSum, PTL
<1>2. FirstSumOK'
  BY DEF FirstSumOK, N
<1>3. QED
  BY <1>1, <1>2 DEF TimerInv

LEMMA NextRemaining ==
    ASSUME TimerTypeOK'
    PROVE  /\ Remaining' \in [Timers -> Nat]
           /\ \A i \in 1..Len(timer_list') : Remaining'[timer_list'[i]] = Sums'[i]
           /\ \A t \in Timers : (\A i \in 1..Len(timer_list') : timer_list'[i] # t) => Remaining'[t] = 0
<1>1. TimerTypeOK' => RemainingOK'
  BY RemainingHolds, PTL
<1>2. RemainingOK'
  BY <1>1
<1>3. QED
  BY <1>2 DEF RemainingOK, Linked, N

LEMMA NowFacts ==
    ASSUME TimerInv
    PROVE  /\ N \in Nat /\ N = Len(timer_list)
           /\ \A k \in 0..N : Sums[k] \in Nat
           /\ \A k \in 1..N : Sums[k] >= 1 /\ timer_list[k] \in Timers
           /\ \A j, l \in 1..N : j # l => timer_list[j] # timer_list[l]
           /\ Remaining \in [Timers -> Nat]
           /\ \A i \in 1..N : Remaining[timer_list[i]] = Sums[i]
           /\ \A t \in Timers : (\A i \in 1..N : timer_list[i] # t) => Remaining[t] = 0
<1>1. TimerTypeOK /\ SumsOK /\ RemainingOK /\ FirstSumOK
  BY SumsHold, RemainingHolds, FirstIsSum DEF TimerInv
<1>2. N \in Nat /\ N = Len(timer_list)
  BY <1>1 DEF TimerTypeOK, N
<1>3. \A k \in 0..N : Sums[k] \in Nat
  BY <1>1 DEF SumsOK
<1>4. ASSUME NEW k \in 1..N PROVE Sums[k] >= 1
  <2>1. 1 \in 0..N /\ k \in 1..N /\ k \in 0..N /\ N >= 1
    BY <1>2
  <2>2. Sums[1] <= Sums[k] /\ Sums[1] >= 1
    BY <1>1, <2>1, SumsGrow DEF FirstSumOK
  <2>3. QED
    BY <1>3, <2>1, <2>2
<1>5. (\A k \in 1..N : timer_list[k] \in Timers) /\ \A j, l \in 1..N : j # l => timer_list[j] # timer_list[l]
  BY <1>1, <1>2 DEF TimerTypeOK
<1>6. QED
  BY <1>1, <1>2, <1>3, <1>4, <1>5 DEF RemainingOK, Linked

LEMMA AddStep ==
    ASSUME TimerInv, NEW t \in Timers, NEW time \in 1..MaxTime, add_timer(t, time)
    PROVE  TimerInv' /\ Abstract!Add(t, time)
<1>0. time \in Nat \ {0} /\ time >= 1 /\ wakes' = {} /\ ~Linked(t)
  BY TimerAssumption DEF add_timer
<1>1. TimerTypeOK' /\ \E p \in 0..N :
              /\ Len(timer_list') = N + 1 /\ timer_list'[p + 1] = t /\ Sums'[p + 1] = time
              /\ \A i \in 1..p : timer_list'[i] = timer_list[i] /\ Sums'[i] = Sums[i]
              /\ \A i \in (p + 1)..N : timer_list'[i + 1] = timer_list[i] /\ Sums'[i + 1] = Sums[i]
  BY <1>0, AddTimer
<1>2. PICK p \in 0..N :
         /\ Len(timer_list') = N + 1 /\ timer_list'[p + 1] = t /\ Sums'[p + 1] = time
         /\ \A i \in 1..p : timer_list'[i] = timer_list[i] /\ Sums'[i] = Sums[i]
         /\ \A i \in (p + 1)..N : timer_list'[i + 1] = timer_list[i] /\ Sums'[i + 1] = Sums[i]
  BY <1>1
<1>3. /\ N \in Nat /\ N = Len(timer_list)
      /\ \A k \in 1..N : Sums[k] >= 1 /\ timer_list[k] \in Timers
      /\ Remaining \in [Timers -> Nat]
      /\ \A i \in 1..N : Remaining[timer_list[i]] = Sums[i]
      /\ \A u \in Timers : (\A i \in 1..N : timer_list[i] # u) => Remaining[u] = 0
  BY NowFacts
<1>4. /\ Remaining' \in [Timers -> Nat]
      /\ \A i \in 1..(N + 1) : Remaining'[timer_list'[i]] = Sums'[i]
      /\ \A u \in Timers : (\A i \in 1..(N + 1) : timer_list'[i] # u) => Remaining'[u] = 0
  BY <1>1, <1>2, NextRemaining
<1>5. TimerInv'
  <2>1. Sums'[1] >= 1
    <3>1. CASE p = 0
      BY <1>0, <1>2, <3>1
    <3>2. CASE p # 0
      <4>1. 1 \in 1..p /\ 1 \in 1..N
        BY <1>3, <3>2
      <4>2. QED
        BY <1>2, <1>3, <4>1
    <3>3. QED
      BY <3>1, <3>2
  <2>2. QED
    BY <1>1, <2>1, NextInv
<1>6. Remaining[t] = 0
  BY <1>0, <1>3 DEF Linked
<1>7. Remaining'[t] = time
  <2>1. p + 1 \in 1..(N + 1)
    BY <1>3
  <2>2. QED
    BY <1>2, <1>4, <2>1
<1>8. ASSUME NEW u \in Timers, u # t PROVE Remaining'[u] = Remaining[u]
  <2>1. CASE \E i \in 1..N : timer_list[i] = u
    <3>1. PICK i \in 1..N : timer_list[i] = u
      BY <2>1
    <3>2. CASE i <= p
      <4>1. i \in 1..p /\ i \in 1..(N + 1)
        BY <1>3, <3>2
      <4>2. QED
        BY <1>2, <1>3, <1>4, <3>1, <4>1
    <3>3. CASE i > p
      <4>1. i \in (p + 1)..N /\ i + 1 \in 1..(N + 1)
        BY <1>3, <3>3
      <4>2. QED
        BY <1>2, <1>3, <1>4, <3>1, <4>1
    <3>4. QED
      BY <1>3, <3>2, <3>3
  <2>2. CASE ~\E i \in 1..N : timer_list[i] = u
    <3>1. ASSUME NEW i \in 1..(N + 1) PROVE timer_list'[i] # u
      <4>1. CASE i <= p
        <5>1. i \in 1..p /\ i \in 1..N
          BY <1>3, <4>1
        <5>2. QED
          BY <1>2, <2>2, <5>1
      <4>2. CASE i = p + 1
        BY <1>2, <1>8, <4>2
      <4>3. CASE i > p + 1
        <5>1. i - 1 \in (p + 1)..N /\ (i - 1) + 1 = i /\ i - 1 \in 1..N
          BY <1>3, <4>3
        <5>2. timer_list'[(i - 1) + 1] = timer_list[i - 1]
          BY <1>2, <5>1
        <5>3. QED
          BY <2>2, <5>1, <5>2
      <4>4. QED
        BY <1>3, <4>1, <4>2, <4>3
    <3>2. QED
      BY <1>3, <1>4, <2>2, <3>1
  <2>3. QED
    BY <2>1, <2>2
<1>9. Remaining' = [Remaining EXCEPT ![t] = time]
  BY <1>3, <1>4, <1>7, <1>8
<1>10. QED
  BY <1>0, <1>5, <1>6, <1>9 DEF Abstract!Add

LEMMA DelStep ==
    ASSUME TimerInv, NEW t \in Timers, del_timer(t)
    PROVE  TimerInv' /\ Abstract!Delete(t)
<1>1. TimerTypeOK' /\ \E i \in 1..N :
              /\ Len(timer_list') = N - 1 /\ timer_list[i] = t
              /\ \A k \in 1..(i - 1) : timer_list'[k] = timer_list[k] /\ Sums'[k] = Sums[k]
              /\ \A k \in i..(N - 1) : timer_list'[k] = timer_list[k + 1] /\ Sums'[k] = Sums[k + 1]
  BY DelTimer
<1>2. PICK i \in 1..N :
         /\ Len(timer_list') = N - 1 /\ timer_list[i] = t
         /\ \A k \in 1..(i - 1) : timer_list'[k] = timer_list[k] /\ Sums'[k] = Sums[k]
         /\ \A k \in i..(N - 1) : timer_list'[k] = timer_list[k + 1] /\ Sums'[k] = Sums[k + 1]
  BY <1>1
<1>3. /\ N \in Nat /\ N = Len(timer_list) /\ i \in Int
      /\ \A k \in 1..N : Sums[k] >= 1 /\ timer_list[k] \in Timers
      /\ \A j, l \in 1..N : j # l => timer_list[j] # timer_list[l]
      /\ Remaining \in [Timers -> Nat]
      /\ \A k \in 1..N : Remaining[timer_list[k]] = Sums[k]
      /\ \A u \in Timers : (\A k \in 1..N : timer_list[k] # u) => Remaining[u] = 0
  BY NowFacts
<1>4. /\ Remaining' \in [Timers -> Nat]
      /\ \A k \in 1..(N - 1) : Remaining'[timer_list'[k]] = Sums'[k]
      /\ \A u \in Timers : (\A k \in 1..(N - 1) : timer_list'[k] # u) => Remaining'[u] = 0
  BY <1>1, <1>2, NextRemaining
<1>5. TimerInv'
  <2>1. ASSUME N - 1 >= 1 PROVE Sums'[1] >= 1
    <3>1. CASE i = 1
      <4>1. 1 \in i..(N - 1) /\ 2 \in 1..N /\ 1 + 1 = 2
        BY <1>3, <2>1, <3>1
      <4>2. QED
        BY <1>2, <1>3, <4>1
    <3>2. CASE i # 1
      <4>1. 1 \in 1..(i - 1) /\ 1 \in 1..N
        BY <1>3, <3>2
      <4>2. QED
        BY <1>2, <1>3, <4>1
    <3>3. QED
      BY <3>1, <3>2
  <2>2. QED
    BY <1>1, <1>2, <2>1, NextInv
<1>6. ASSUME NEW u \in Timers, \A k \in 1..N : k # i => timer_list[k] # u
      PROVE  Remaining'[u] = 0
  <2>1. ASSUME NEW k \in 1..(N - 1) PROVE timer_list'[k] # u
    <3>1. CASE k < i
      <4>1. k \in 1..(i - 1) /\ k \in 1..N /\ k # i
        BY <1>3, <3>1
      <4>2. QED
        BY <1>2, <1>6, <4>1
    <3>2. CASE i <= k
      <4>1. k \in i..(N - 1) /\ k + 1 \in 1..N /\ k + 1 # i
        BY <1>3, <3>2
      <4>2. QED
        BY <1>2, <1>6, <4>1
    <3>3. QED
      BY <1>3, <3>1, <3>2
  <2>2. QED
    BY <1>4, <2>1
<1>7. Remaining'[t] = 0
  BY <1>2, <1>3, <1>6
<1>8. ASSUME NEW u \in Timers, u # t PROVE Remaining'[u] = Remaining[u]
  <2>1. CASE \E k \in 1..N : timer_list[k] = u
    <3>1. PICK k \in 1..N : timer_list[k] = u
      BY <2>1
    <3>2. k # i /\ k \in Int
      BY <1>2, <1>8, <3>1
    <3>3. CASE k < i
      <4>1. k \in 1..(i - 1) /\ k \in 1..(N - 1)
        BY <1>3, <3>2, <3>3
      <4>2. timer_list'[k] = u /\ Sums'[k] = Sums[k]
        BY ONLY <1>2, <3>1, <4>1
      <4>3. Remaining'[u] = Sums'[k] /\ Remaining[u] = Sums[k]
        BY ONLY <1>3, <1>4, <3>1, <4>1, <4>2, k \in 1..N
      <4>4. QED
        BY ONLY <4>2, <4>3
    <3>4. CASE i < k
      <4>1. k - 1 \in i..(N - 1) /\ k - 1 \in 1..(N - 1) /\ (k - 1) + 1 = k
        BY <1>3, <3>2, <3>4
      <4>2. timer_list'[k - 1] = timer_list[(k - 1) + 1] /\ Sums'[k - 1] = Sums[(k - 1) + 1]
        BY <1>2, <4>1
      <4>3. QED
        BY <1>3, <1>4, <3>1, <4>1, <4>2
    <3>5. QED
      BY <1>3, <3>2, <3>3, <3>4
  <2>2. CASE ~\E k \in 1..N : timer_list[k] = u
    BY <1>3, <1>6, <2>2
  <2>3. QED
    BY <2>1, <2>2
<1>9. Remaining' = [Remaining EXCEPT ![t] = 0]
  BY <1>3, <1>4, <1>7, <1>8
<1>10. wakes' = {}
  BY DEF del_timer
<1>11. QED
  BY <1>5, <1>9, <1>10 DEF Abstract!Delete

LEMMA TickStep ==
    ASSUME TimerInv, run_timer_list
    PROVE  TimerInv' /\ Abstract!Tick
<1>1. TimerTypeOK' /\ \E n \in 0..N :
              /\ Len(timer_list') = N - n
              /\ \A k \in 1..(N - n) : timer_list'[k] = timer_list[k + n] /\ Sums'[k] = Sums[k + n] - 1
              /\ \A i \in 1..n : Sums[i] = 1
              /\ \A i \in (n + 1)..N : Sums[i] > 1
              /\ wakes' = {timer_list[i] : i \in 1..n}
  BY RunTimerList
<1>2. PICK n \in 0..N :
         /\ Len(timer_list') = N - n
         /\ \A k \in 1..(N - n) : timer_list'[k] = timer_list[k + n] /\ Sums'[k] = Sums[k + n] - 1
         /\ \A i \in 1..n : Sums[i] = 1
         /\ \A i \in (n + 1)..N : Sums[i] > 1
         /\ wakes' = {timer_list[i] : i \in 1..n}
  BY <1>1
<1>3. /\ N \in Nat /\ N = Len(timer_list) /\ n \in Int /\ 0 <= n /\ n <= N
      /\ \A k \in 1..N : Sums[k] >= 1 /\ timer_list[k] \in Timers /\ Sums[k] \in Nat
      /\ \A j, l \in 1..N : j # l => timer_list[j] # timer_list[l]
      /\ Remaining \in [Timers -> Nat]
      /\ \A k \in 1..N : Remaining[timer_list[k]] = Sums[k]
      /\ \A u \in Timers : (\A k \in 1..N : timer_list[k] # u) => Remaining[u] = 0
  BY NowFacts
<1>4. /\ Remaining' \in [Timers -> Nat]
      /\ \A k \in 1..(N - n) : Remaining'[timer_list'[k]] = Sums'[k]
      /\ \A u \in Timers : (\A k \in 1..(N - n) : timer_list'[k] # u) => Remaining'[u] = 0
  BY <1>1, <1>2, NextRemaining
<1>5. TimerInv'
  <2>1. ASSUME N - n >= 1 PROVE Sums'[1] >= 1
    <3>1. 1 \in 1..(N - n) /\ 1 + n \in (n + 1)..N /\ 1 + n \in 1..N
      BY <1>3, <2>1
    <3>2. Sums'[1] = Sums[1 + n] - 1 /\ Sums[1 + n] > 1 /\ Sums[1 + n] \in Nat
      BY <1>2, <1>3, <3>1
    <3>3. QED
      BY <3>2
  <2>2. QED
    BY <1>1, <1>2, <2>1, NextInv
<1>6. ASSUME NEW u \in Timers, \A k \in (n + 1)..N : timer_list[k] # u
      PROVE  Remaining'[u] = 0
  <2>1. ASSUME NEW k \in 1..(N - n) PROVE timer_list'[k] # u
    <3>1. k + n \in (n + 1)..N
      BY <1>3
    <3>2. QED
      BY <1>2, <1>6, <3>1
  <2>2. QED
    BY <1>4, <2>1
<1>7. ASSUME NEW i \in 1..n
      PROVE  /\ i \in 1..N /\ timer_list[i] \in Timers /\ Remaining[timer_list[i]] = 1
             /\ Remaining'[timer_list[i]] = 0
  <2>1. i \in 1..N /\ \A k \in (n + 1)..N : k \in 1..N /\ k # i
    BY <1>3
  <2>2. QED
    BY <1>2, <1>3, <1>6, <2>1
<1>8. ASSUME NEW i \in (n + 1)..N
      PROVE  /\ Remaining[timer_list[i]] > 1 /\ timer_list[i] \in Timers
             /\ Remaining'[timer_list[i]] = Remaining[timer_list[i]] - 1
  <2>1. i \in 1..N /\ i - n \in 1..(N - n) /\ (i - n) + n = i
    BY <1>3
  <2>2. timer_list'[i - n] = timer_list[(i - n) + n] /\ Sums'[i - n] = Sums[(i - n) + n] - 1
    BY <1>2, <2>1
  <2>3. QED
    BY <1>2, <1>3, <1>4, <2>1, <2>2
<1>9. ASSUME NEW u \in Timers
      PROVE  \/ \E i \in 1..n : u = timer_list[i]
             \/ \E i \in (n + 1)..N : u = timer_list[i]
             \/ Remaining[u] = 0 /\ Remaining'[u] = 0
  <2>1. \A i \in 1..N : i \in 1..n \/ i \in (n + 1)..N
    BY <1>3
  <2>2. QED
    BY <1>3, <1>6, <2>1
<1>10. Remaining' = [u \in Timers |-> IF Remaining[u] = 0 THEN 0 ELSE Remaining[u] - 1]
  <2>1. ASSUME NEW u \in Timers PROVE Remaining'[u] = IF Remaining[u] = 0 THEN 0 ELSE Remaining[u] - 1
    <3>1. CASE \E i \in 1..n : u = timer_list[i]
      BY <1>7, <3>1
    <3>2. CASE \E i \in (n + 1)..N : u = timer_list[i]
      BY <1>3, <1>8, <3>2
    <3>3. QED
      BY <1>9, <3>1, <3>2
  <2>2. QED
    BY <1>4, <2>1
<1>11. wakes' = {u \in Timers : Remaining[u] = 1}
  <2>1. ASSUME NEW u \in Timers, Remaining[u] = 1 PROVE \E i \in 1..n : u = timer_list[i]
    BY <1>8, <1>9, <2>1
  <2>2. QED
    BY <1>2, <1>7, <2>1
<1>12. QED
  BY <1>5, <1>10, <1>11 DEF Abstract!Tick

LEMMA QuietStep ==
    ASSUME TimerInv, UNCHANGED <<timer_list, expires>>
    PROVE  TimerInv' /\ Remaining' = Remaining
<1>1. TimerInv'
  BY DEF TimerInv, TimerTypeOK, FirstNotExpired
<1>2. Remaining' = Remaining
  BY DEF Remaining, Due, Linked
<1>3. QED
  BY <1>1, <1>2

LEMMA TimerStep ==
    ASSUME TimerInv, [TimersNext]_timer_vars
    PROVE  TimerInv' /\ [Abstract!Next]_<<Remaining, wakes>>
<1>1. CASE run_timer_list
  BY <1>1, TickStep DEF Abstract!Next
<1>2. ASSUME NEW t \in Timers, del_timer(t) PROVE TimerInv' /\ Abstract!Next
  BY <1>2, DelStep DEF Abstract!Next
<1>3. ASSUME NEW t \in Timers, del_timer_unlinked(t) PROVE TimerInv' /\ Abstract!Next
  <2>1. TimerInv' /\ Remaining' = Remaining /\ wakes' = {} /\ ~Linked(t)
    BY <1>3, QuietStep DEF del_timer_unlinked
  <2>2. Remaining \in [Timers -> Nat] /\ Remaining[t] = 0
    BY <2>1, NowFacts DEF Linked
  <2>3. Remaining' = [Remaining EXCEPT ![t] = 0]
    BY <2>1, <2>2
  <2>4. QED
    BY <2>1, <2>3 DEF Abstract!Next, Abstract!Delete
<1>4. ASSUME NEW t \in Timers, NEW time \in 1..MaxTime, add_timer(t, time) PROVE TimerInv' /\ Abstract!Next
  BY <1>4, AddStep DEF Abstract!Next
<1>5. CASE UNCHANGED timer_vars
  BY <1>5, QuietStep DEF timer_vars
<1>6. QED
  BY <1>1, <1>2, <1>3, <1>4, <1>5 DEF TimersNext

LEMMA TimerInvariant == TimersSpec => []TimerInv
<1>1. TimerInv /\ [TimersNext]_timer_vars => TimerInv'
  BY TimerStep
<1>2. QED
  BY <1>1, TimerInit, PTL DEF TimersSpec

\* For any timers and any times: the assertion of run_timer_list holds, so the
\* unsigned difference of the first timer never wraps around.
THEOREM CountDownSafe == TimersSpec => []FirstNotExpired
<1>1. TimerInv => FirstNotExpired
  BY DEF TimerInv
<1>2. QED
  BY <1>1, TimerInvariant, PTL

\* For any timers and any times: the list of differences implements independent
\* count-downs.  Whatever is added, deleted or expires around it, a timer wakes its
\* process at its own tick, and at no other.
THEOREM TimersIndependent == TimersSpec => ImplementsTimerSpec
<1>1. TimersInit => Abstract!Init
  <2> SUFFICES ASSUME TimersInit PROVE Abstract!Init
    OBVIOUS
  <2>1. wakes = {} /\ timer_list = <<>>
    BY DEF TimersInit
  <2>2. Remaining \in [Timers -> Nat] /\ \A t \in Timers : Remaining[t] = 0
    BY <2>1, TimerInit, NowFacts
  <2>3. QED
    BY <2>1, <2>2 DEF Abstract!Init
<1>2. TimerInv /\ [TimersNext]_timer_vars => [Abstract!Next]_<<Remaining, wakes>>
  BY TimerStep
<1>3. QED
  BY <1>1, <1>2, TimerInvariant, PTL DEF TimersSpec, ImplementsTimerSpec, Abstract!Spec
-----------------------------------------------------------------------------
(* The keyboard.                                                           *)

StdinTypeOK ==
    /\ stdin_buffer \in [0..(STDIN_BUFSIZE - 1) -> Nat]
    /\ p_rpos \in Nat /\ p_wpos \in Nat
    /\ wait_queue \in Seq(Readers)
    /\ wakeup_flags \in [Readers -> {"0", "WT_KBD", "WT_INTERRUPTED"}]
    /\ sleeping \in SUBSET Readers /\ exiting \in SUBSET Readers
    /\ pc \in [Readers -> {"user", "read", "dead"}]
    /\ left \in [Readers -> Nat]
    /\ typed \in Nat /\ delivered \in Seq(Nat)

PositionsSound == p_rpos <= p_wpos /\ p_wpos - p_rpos <= STDIN_BUFSIZE

AwakeForKey ==
    \A p \in Readers :
        pc[p] = "read" /\ p \notin sleeping /\ p \notin exiting => wakeup_flags[p] = "WT_KBD"

\* What CharactersAccounted calls `seen'.
Seen == delivered \o Buffered

\* CharactersAccounted, with the order of typing also for what is still buffered.
CharactersOnce ==
    /\ IsInjective(Seen)
    /\ ToSet(Seen) = (1..typed) \ lost
    /\ lost \in SUBSET (1..typed) /\ Len(Seen) = typed - Cardinality(lost)
    /\ lost = {} => \A i \in 1..Len(Seen) : Seen[i] = i

StdinInv == StdinTypeOK /\ PositionsSound /\ WaitQueueSound /\ AwakeForKey /\ CharactersOnce
-----------------------------------------------------------------------------
(* Sequences and positions.                                                *)

LEMMA SubSeqParts ==
    ASSUME NEW S, NEW s \in Seq(S), NEW k \in 1..Len(s)
    PROVE  /\ SubSeq(s, 1, k - 1) \in Seq(S) /\ Len(SubSeq(s, 1, k - 1)) = k - 1
           /\ \A i \in 1..(k - 1) : SubSeq(s, 1, k - 1)[i] = s[i]
           /\ SubSeq(s, k + 1, Len(s)) \in Seq(S) /\ Len(SubSeq(s, k + 1, Len(s))) = Len(s) - k
           /\ \A i \in 1..(Len(s) - k) : SubSeq(s, k + 1, Len(s))[i] = s[k + i]
<1>0. Len(s) \in Nat /\ \A i \in 1..Len(s) : s[i] \in S
  OBVIOUS
<1>1. (\A i \in 1..(k - 1) : s[i] \in S) /\ (\A i \in (k + 1)..Len(s) : s[i] \in S)
  BY <1>0
<1>2. SubSeq(s, 1, k - 1) \in Seq(S) /\ Len(SubSeq(s, 1, k - 1)) = k - 1
  BY <1>0, <1>1, SubSeqProperties
<1>3. \A i \in 1..(k - 1 - 1 + 1) : SubSeq(s, 1, k - 1)[i] = s[1 + i - 1]
  BY <1>0, <1>1, SubSeqProperties
<1>4. SubSeq(s, k + 1, Len(s)) \in Seq(S) /\ Len(SubSeq(s, k + 1, Len(s))) = Len(s) - k
  BY <1>0, <1>1, SubSeqProperties
<1>5. \A i \in 1..(Len(s) - (k + 1) + 1) : SubSeq(s, k + 1, Len(s))[i] = s[(k + 1) + i - 1]
  BY <1>0, <1>1, SubSeqProperties
<1>6. QED
  BY <1>0, <1>2, <1>3, <1>4, <1>5

\* Unlinking a process from a queue that holds nobody twice.
LEMMA RemoveFirstProperties ==
    ASSUME NEW S, NEW s \in Seq(S), IsInjective(s), NEW e
    PROVE  /\ RemoveFirst(s, e) \in Seq(S)
           /\ IsInjective(RemoveFirst(s, e))
           /\ ToSet(RemoveFirst(s, e)) = ToSet(s) \ {e}
<1> DEFINE I == {i \in 1..Len(s) : s[i] = e}
<1>0. DOMAIN s = 1..Len(s) /\ Len(s) \in Nat /\ \A i \in 1..Len(s) : s[i] \in S
  OBVIOUS
<1>1. CASE I = {}
  BY <1>0, <1>1 DEF RemoveFirst, ToSet
<1>2. CASE I # {}
  <2>1. PICK k \in 1..Len(s) : s[k] = e
    BY <1>2
  <2>2. I = {k}
    BY <1>0, <2>1 DEF IsInjective
  <2>3. Min(I) = k
    BY <2>2 DEF Min
  <2>4. RemoveFirst(s, e) = RemoveAt(s, k)
    BY <1>2, <2>1, <2>3 DEF RemoveFirst, SelectInSeq
  <2> DEFINE t == RemoveAt(s, k)
  <2>5. /\ t \in Seq(S) /\ Len(t) = Len(s) - 1
        /\ \A i \in 1..(Len(s) - 1) : t[i] = IF i < k THEN s[i] ELSE s[i + 1]
    <3> DEFINE u == SubSeq(s, 1, k - 1)
               v == SubSeq(s, k + 1, Len(s))
    <3>1. /\ u \in Seq(S) /\ Len(u) = k - 1
          /\ \A i \in 1..(k - 1) : u[i] = s[i]
          /\ v \in Seq(S) /\ Len(v) = Len(s) - k
          /\ \A i \in 1..(Len(s) - k) : v[i] = s[k + i]
      BY SubSeqParts
    <3> HIDE DEF u, v
    <3>2. /\ u \o v \in Seq(S) /\ Len(u \o v) = Len(u) + Len(v)
          /\ \A i \in 1..(Len(u) + Len(v)) : (u \o v)[i] = IF i <= Len(u) THEN u[i] ELSE v[i - Len(u)]
      BY <3>1, ConcatProperties
    <3>3. ASSUME NEW i \in k..(Len(s) - 1) PROVE (u \o v)[i] = s[i + 1]
      <4>1. i - Len(u) \in 1..(Len(s) - k) /\ i \in 1..(Len(u) + Len(v)) /\ ~(i <= Len(u))
        BY <1>0, <3>1
      <4>2. (u \o v)[i] = v[i - Len(u)]
        BY <3>2, <4>1
      <4>3. v[i - Len(u)] = s[k + (i - Len(u))] /\ k + (i - Len(u)) = i + 1
        BY <1>0, <3>1, <4>1
      <4>4. QED
        BY <4>2, <4>3
    <3>4. t = u \o v
      BY DEF u, v, RemoveAt
    <3> HIDE DEF t
    <3>5. t \in Seq(S) /\ Len(t) = Len(s) - 1
      <4>1. Len(u) + Len(v) = Len(s) - 1
        BY <1>0, <2>1, <3>1
      <4>2. QED
        BY <3>2, <3>4, <4>1
    <3>6. ASSUME NEW i \in 1..(k - 1) PROVE t[i] = s[i]
      <4>1. i \in 1..(Len(u) + Len(v)) /\ i <= Len(u)
        BY <1>0, <3>1
      <4>2. QED
        BY <3>1, <3>2, <3>4, <4>1
    <3>7. ASSUME NEW i \in 1..(Len(s) - 1) PROVE i \in 1..(k - 1) \/ (i \in k..(Len(s) - 1) /\ ~(i < k))
      BY <1>0, <2>1
    <3>8. QED
      BY <1>0, <3>3, <3>4, <3>5, <3>6, <3>7
  <2>6. DOMAIN t = 1..(Len(s) - 1)
    BY <2>5
  <2> HIDE DEF t
  <2>7. IsInjective(t)
    <3>1. ASSUME NEW i \in 1..(Len(s) - 1), NEW j \in 1..(Len(s) - 1), t[i] = t[j] PROVE i = j
      <4> DEFINE x == IF i < k THEN i ELSE i + 1
                 y == IF j < k THEN j ELSE j + 1
      <4>1. x \in 1..Len(s) /\ y \in 1..Len(s) /\ (x = y => i = j)
        BY <1>0, <2>1
      <4>2. t[i] = s[x] /\ t[j] = s[y]
        BY <2>5
      <4> HIDE DEF x, y
      <4>3. x = y
        BY <1>0, <3>1, <4>1, <4>2 DEF IsInjective
      <4>4. QED
        BY <4>1, <4>3
    <3>2. QED
      BY <2>6, <3>1 DEF IsInjective
  <2>8. ToSet(t) \subseteq ToSet(s) \ {e}
    BY <1>0, <2>1, <2>5, <2>6 DEF IsInjective, ToSet
  <2>9. ASSUME NEW i \in 1..Len(s), i # k PROVE s[i] \in ToSet(t)
    <3>1. CASE i < k
      BY <1>0, <2>1, <2>5, <2>6, <2>9, <3>1 DEF ToSet
    <3>2. CASE i > k
      <4>1. i - 1 \in DOMAIN t /\ t[i - 1] = s[i]
        BY <1>0, <2>1, <2>5, <2>6, <2>9, <3>2
      <4>2. QED
        BY <4>1 DEF ToSet
    <3>3. QED
      BY <1>0, <2>9, <3>1, <3>2
  <2>10. ToSet(s) \ {e} \subseteq ToSet(t)
    BY <1>0, <2>1, <2>9 DEF ToSet
  <2>11. QED
    BY <2>4, <2>5, <2>7, <2>8, <2>10 DEF t
<1>3. QED
  BY <1>1, <1>2

LEMMA AppendNew ==
    ASSUME NEW S, NEW s \in Seq(S), IsInjective(s), NEW e \in S, e \notin ToSet(s)
    PROVE  /\ Append(s, e) \in Seq(S)
           /\ IsInjective(Append(s, e))
           /\ ToSet(Append(s, e)) = ToSet(s) \cup {e}
<1> DEFINE t == Append(s, e)
<1>1. /\ t \in Seq(S) /\ Len(t) = Len(s) + 1 /\ Len(s) \in Nat
      /\ \A i \in 1..Len(s) : t[i] = s[i]
      /\ t[Len(s) + 1] = e
  BY AppendProperties
<1>2. DOMAIN t = 1..(Len(s) + 1) /\ DOMAIN s = 1..Len(s)
  BY <1>1
<1> HIDE DEF t
<1>3. IsInjective(t)
  BY <1>1, <1>2 DEF IsInjective, ToSet
<1>4. ToSet(t) = ToSet(s) \cup {e}
  BY <1>1, <1>2 DEF ToSet
<1>5. QED
  BY <1>1, <1>3, <1>4 DEF t

LEMMA DivMod ==
    ASSUME NEW B \in Nat \ {0}, NEW i \in Nat
    PROVE  i \div B \in Nat /\ i % B \in 0..(B - 1) /\ i = B * (i \div B) + (i % B)
  OBVIOUS

LEMMA Multiples ==
    ASSUME NEW B \in Nat, NEW a \in Int, NEW b \in Int
    PROVE  /\ B * a - B * b = B * (a - b)
           /\ a >= 1 => B * a >= B
           /\ a <= -1 => B * a <= -B
  OBVIOUS

\* Two positions less than a buffer apart are two places.
LEMMA ModInjective ==
    ASSUME NEW B \in Nat \ {0}, NEW i \in Nat, NEW d \in Nat, d < B, (i + d) % B = i % B
    PROVE  d = 0
<1> DEFINE k == (i + d) \div B - i \div B
<1>1. d = B * k /\ k \in Int
  BY DivMod, Multiples
<1>2. k = 0
  BY <1>1, Multiples
<1>3. QED
  BY <1>1, <1>2

LEMMA ModPeriod ==
    ASSUME NEW B \in Nat \ {0}, NEW i \in Nat
    PROVE  (i + B) % B = i % B
<1> DEFINE k == (i + B) \div B - (i \div B + 1)
<1>0. i + B \in Nat
  OBVIOUS
<1>1. /\ i \div B \in Nat /\ (i + B) \div B \in Nat
      /\ i % B \in 0..(B - 1) /\ (i + B) % B \in 0..(B - 1)
      /\ i = B * (i \div B) + (i % B)
      /\ i + B = B * ((i + B) \div B) + ((i + B) % B)
  BY <1>0, DivMod
<1>2. B * (i \div B + 1) = B * (i \div B) + B
  BY <1>1
<1>3. B * k = B * ((i + B) \div B) - B * (i \div B + 1) /\ k \in Int
  BY <1>1, Multiples
<1>4. B * k = (i % B) - ((i + B) % B)
  BY <1>1, <1>2, <1>3
<1>5. k = 0
  BY <1>1, <1>3, <1>4, Multiples
<1>6. QED
  BY <1>1, <1>4, <1>5
-----------------------------------------------------------------------------
\* Seen, entry by entry.
SeenEntries ==
    /\ Seen \in Seq(Nat) /\ DOMAIN Seen = 1..Len(Seen)
    /\ Len(Seen) = Len(delivered) + (p_wpos - p_rpos)
    /\ \A i \in 1..Len(Seen) :
          Seen[i] = IF i <= Len(delivered) THEN delivered[i]
                    ELSE At(p_rpos + (i - Len(delivered)) - 1)

LEMMA SeenProperties == StdinTypeOK /\ PositionsSound => SeenEntries
<1> SUFFICES ASSUME StdinTypeOK, PositionsSound PROVE SeenEntries
  OBVIOUS
<1> USE StdinAssumption DEF StdinTypeOK, PositionsSound
<1> DEFINE n == p_wpos - p_rpos
<1>1. n \in Nat /\ Len(delivered) \in Nat
  OBVIOUS
<1>2. ASSUME NEW i \in 1..n PROVE At(p_rpos + i - 1) \in Nat
  <2>1. p_rpos + i - 1 \in Nat
    OBVIOUS
  <2>2. QED
    BY <2>1, DivMod DEF At
<1>3. Buffered \in Seq(Nat) /\ Len(Buffered) = n /\ \A i \in 1..n : Buffered[i] = At(p_rpos + i - 1)
  BY <1>1, <1>2 DEF Buffered
<1> HIDE DEF n
<1>4. /\ Seen \in Seq(Nat) /\ Len(Seen) = Len(delivered) + Len(Buffered)
      /\ \A i \in 1..(Len(delivered) + Len(Buffered)) :
            Seen[i] = IF i <= Len(delivered) THEN delivered[i] ELSE Buffered[i - Len(delivered)]
  <2>1. delivered \in Seq(Nat) /\ Buffered \in Seq(Nat)
    BY <1>3
  <2>2. QED
    BY ONLY <2>1, ConcatProperties DEF Seen
<1>5. ASSUME NEW i \in 1..Len(Seen), i > Len(delivered)
      PROVE  Seen[i] = At(p_rpos + (i - Len(delivered)) - 1)
  <2> DEFINE l == Len(delivered)
             k == i - l
  <2>1. l \in Nat /\ i \in 1..(l + n) /\ i > l /\ n \in Nat
    BY ONLY <1>1, <1>3, <1>4, <1>5
  <2>2. k \in 1..n /\ ~(i <= l)
    <3> HIDE DEF l
    <3>1. QED
      BY ONLY <2>1
  <2>3. Seen[i] = Buffered[k]
    BY ONLY <1>3, <1>4, <2>1, <2>2
  <2> HIDE DEF k
  <2>4. Buffered[k] = At(p_rpos + k - 1)
    BY ONLY <1>3, <2>2
  <2>5. QED
    BY ONLY <2>3, <2>4 DEF k, l
<1>6. DOMAIN Seen = 1..Len(Seen) /\ Len(Seen) = Len(delivered) + (p_wpos - p_rpos)
  BY <1>3, <1>4 DEF n
<1>7. ASSUME NEW i \in 1..Len(Seen)
      PROVE  Seen[i] = IF i <= Len(delivered) THEN delivered[i]
                       ELSE At(p_rpos + (i - Len(delivered)) - 1)
  <2>1. CASE i <= Len(delivered)
    BY <1>4, <2>1
  <2>2. CASE ~(i <= Len(delivered))
    <3>1. i > Len(delivered)
      BY <1>1, <1>4, <2>2
    <3>2. QED
      BY ONLY <1>5, <1>7, <2>2, <3>1
  <2>3. QED
    BY <2>1, <2>2
<1>8. QED
  BY ONLY <1>4, <1>6, <1>7 DEF SeenEntries

LEMMA StdinInit == Init => StdinInv
<1> SUFFICES ASSUME Init PROVE StdinInv
  OBVIOUS
<1> USE StdinAssumption DEF Init
<1>1. StdinTypeOK /\ PositionsSound /\ AwakeForKey
  BY DEF StdinTypeOK, PositionsSound, AwakeForKey
<1>2. WaitQueueSound
  BY DEF WaitQueueSound, ToSet, IsInjective
<1>3. Len(Seen) = 0 /\ DOMAIN Seen = {}
  BY <1>1, SeenProperties DEF SeenEntries
<1>4. CharactersOnce
  BY <1>3, FS_EmptySet DEF CharactersOnce, ToSet, IsInjective
<1>5. QED
  BY <1>1, <1>2, <1>4 DEF StdinInv

\* The characters a read takes go from the buffer to the reader, in order.
LEMMA ReadKeepsCharacters ==
    ASSUME StdinInv, StdinTypeOK', PositionsSound', NEW n \in 0..(p_wpos - p_rpos),
           delivered' = delivered \o [i \in 1..n |-> At(p_rpos + i - 1)],
           p_rpos' = p_rpos + n, UNCHANGED <<stdin_buffer, p_wpos, typed, lost>>
    PROVE  CharactersOnce'
<1> USE DEF StdinInv
<1> DEFINE taken == [i \in 1..n |-> At(p_rpos + i - 1)]
<1>0. p_rpos \in Nat /\ p_wpos \in Nat /\ p_rpos <= p_wpos /\ n \in Nat /\ Len(delivered) \in Nat
      /\ delivered \in Seq(Nat)
  BY DEF StdinTypeOK, PositionsSound
<1>1. ASSUME NEW i \in 1..n PROVE At(p_rpos + i - 1) \in Nat
  <2>1. p_rpos + i - 1 \in Nat
    BY <1>0
  <2>2. QED
    BY <2>1, StdinAssumption, DivMod DEF At, StdinTypeOK
<1>2. taken \in Seq(Nat) /\ Len(taken) = n /\ \A i \in 1..n : taken[i] = At(p_rpos + i - 1)
  BY <1>0, <1>1
<1> HIDE DEF taken
<1>3. /\ Len(delivered') = Len(delivered) + n
      /\ \A i \in 1..(Len(delivered) + n) :
            delivered'[i] = IF i <= Len(delivered) THEN delivered[i] ELSE taken[i - Len(delivered)]
  BY <1>0, <1>2, ConcatProperties DEF taken
<1>4. SeenEntries
  BY SeenProperties
<1>5. SeenEntries'
  BY SeenProperties, PTL
<1>6. Len(Seen') = Len(Seen) /\ Len(Seen) = Len(delivered) + (p_wpos - p_rpos)
  BY <1>0, <1>3, <1>4, <1>5 DEF SeenEntries
<1>7. ASSUME NEW i \in 1..Len(Seen) PROVE Seen'[i] = Seen[i]
  <2> DEFINE d == Len(delivered)
  <2>0. d \in Nat /\ i \in Nat /\ Len(delivered') = d + n
    BY <1>0, <1>3, <1>6
  <2>1. Seen[i] = IF i <= d THEN delivered[i] ELSE stdin_buffer[(p_rpos + (i - d) - 1) % STDIN_BUFSIZE]
    BY <1>4 DEF SeenEntries, At
  <2>2. Seen'[i] = IF i <= d + n THEN delivered'[i]
                   ELSE stdin_buffer[((p_rpos + n) + (i - (d + n)) - 1) % STDIN_BUFSIZE]
    BY <1>3, <1>5, <1>6 DEF SeenEntries, At
  <2> HIDE DEF d
  <2>3. CASE i <= d
    BY <1>0, <1>3, <2>0, <2>1, <2>2, <2>3 DEF d
  <2>4. CASE i > d /\ i <= d + n
    <3>1. i - d \in 1..n /\ i \in 1..(d + n) /\ ~(i <= d)
      BY <1>0, <2>0, <2>4
    <3>2. Seen'[i] = taken[i - d]
      <4>1. delivered'[i] = taken[i - d]
        BY <1>3, <3>1 DEF d
      <4>2. Seen'[i] = delivered'[i]
        BY <2>2, <2>4
      <4>3. QED
        BY <4>1, <4>2
    <3>3. taken[i - d] = stdin_buffer[(p_rpos + (i - d) - 1) % STDIN_BUFSIZE]
      BY <1>2, <3>1 DEF At
    <3>4. QED
      BY <2>1, <3>1, <3>2, <3>3
  <2>5. CASE i > d + n
    <3>1. ~(i <= d) /\ ~(i <= d + n)
      BY <1>0, <2>0, <2>5
    <3>2. (p_rpos + n) + (i - (d + n)) - 1 = p_rpos + (i - d) - 1
      BY <1>0, <2>0
    <3>3. QED
      BY <2>1, <2>2, <3>1, <3>2
  <2>6. QED
    BY <1>0, <2>0, <2>3, <2>4, <2>5
<1>8. Seen' = Seen
  BY <1>4, <1>5, <1>6, <1>7, SeqEqual DEF SeenEntries
<1>9. QED
  BY <1>8 DEF CharactersOnce

\* Who sleeps, who is queued and where: what a pass of the reading loop in process p
\* does to them.  `queue' is the wait queue without p.
LEMMA ReadLoopStep ==
    ASSUME StdinInv, NEW p \in Readers, NEW len \in Nat, NEW queue \in Seq(Readers),
           IsInjective(queue), ToSet(queue) = ToSet(wait_queue) \ {p}, p \notin sleeping,
           ReadLoop(p, len, queue), UNCHANGED <<stdin_buffer, p_wpos, exiting, typed, lost>>
    PROVE  StdinInv' /\ (pc'[p] # "read" => p_rpos' - p_rpos = len)
<1> USE DEF StdinInv
<1> DEFINE n == IF len <= p_wpos - p_rpos THEN len ELSE p_wpos - p_rpos
<1>0. p_rpos \in Nat /\ p_wpos \in Nat /\ p_rpos <= p_wpos /\ p_wpos - p_rpos <= STDIN_BUFSIZE
      /\ STDIN_BUFSIZE \in Nat \ {0}
  BY StdinAssumption DEF StdinTypeOK, PositionsSound
<1>1. n \in 0..(p_wpos - p_rpos) /\ n \in Nat /\ (n # len => n = p_wpos - p_rpos /\ len - n \in Nat)
  BY <1>0
<1>2. /\ delivered' = delivered \o [i \in 1..n |-> At(p_rpos + i - 1)]
      /\ p_rpos' = p_rpos + n
      /\ n = len  => /\ Return(p)
                     /\ left' = [left EXCEPT ![p] = 0]
                     /\ wait_queue' = queue
                     /\ wakeup_flags' = [wakeup_flags EXCEPT ![p] = "0"]
                     /\ UNCHANGED sleeping
      /\ n # len => /\ pc' = [pc EXCEPT ![p] = "read"]
                    /\ left' = [left EXCEPT ![p] = len - n]
                    /\ wait_queue' = Append(queue, p)
                    /\ wakeup_flags' = [wakeup_flags EXCEPT ![p] = "WT_INTERRUPTED"]
                    /\ sleeping' = sleeping \cup {p}
  BY DEF ReadLoop
<1> HIDE DEF n
<1>3. PositionsSound'
  BY <1>0, <1>1, <1>2 DEF PositionsSound
<1>4. delivered' \in Seq(Nat)
  <2>1. ASSUME NEW i \in 1..n PROVE At(p_rpos + i - 1) \in Nat
    <3>1. p_rpos + i - 1 \in Nat
      BY <1>0, <1>1
    <3>2. QED
      BY <1>0, <3>1, DivMod DEF At, StdinTypeOK
  <2>2. [i \in 1..n |-> At(p_rpos + i - 1)] \in Seq(Nat)
    BY <1>1, <2>1
  <2>3. QED
    BY <1>2, <2>2, ConcatProperties DEF StdinTypeOK
<1>5. p \notin ToSet(queue)
  OBVIOUS
<1>6. CASE n = len
  <2>0. /\ pc' = [pc EXCEPT ![p] = IF p \in exiting THEN "dead" ELSE "user"]
        /\ left' = [left EXCEPT ![p] = 0] /\ wait_queue' = queue
        /\ wakeup_flags' = [wakeup_flags EXCEPT ![p] = "0"] /\ UNCHANGED sleeping
    BY <1>2, <1>6 DEF Return
  <2>1. StdinTypeOK'
    <3>1. p_rpos' \in Nat /\ p_wpos' \in Nat
      BY <1>0, <1>1, <1>2
    <3>2. QED
      BY <1>4, <2>0, <3>1 DEF StdinTypeOK
  <2>2. WaitQueueSound'
    <3>1. sleeping' # {} => p_rpos' = p_wpos'
      BY <1>0, <1>1, <1>2, <2>0 DEF WaitQueueSound
    <3>2. sleeping' \subseteq ToSet(wait_queue')
      BY <2>0 DEF WaitQueueSound
    <3>3. \A q \in ToSet(wait_queue') : pc'[q] = "read"
      BY <1>5, <2>0 DEF WaitQueueSound, StdinTypeOK
    <3>4. QED
      BY <2>0, <3>1, <3>2, <3>3 DEF WaitQueueSound
  <2>3. AwakeForKey'
    BY <1>2, <1>6 DEF AwakeForKey, StdinTypeOK, Return
  <2>4. CharactersOnce'
    BY <1>1, <1>2, <1>3, <2>1, ReadKeepsCharacters
  <2>5. QED
    BY <1>0, <1>1, <1>2, <1>3, <1>6, <2>1, <2>2, <2>3, <2>4
<1>7. CASE n # len
  <2>a. /\ Append(queue, p) \in Seq(Readers) /\ IsInjective(Append(queue, p))
        /\ ToSet(Append(queue, p)) = ToSet(queue) \cup {p}
    BY <1>5, AppendNew
  <2>0. /\ wait_queue' \in Seq(Readers) /\ IsInjective(wait_queue')
        /\ ToSet(wait_queue') = ToSet(queue) \cup {p}
    BY <1>2, <1>7, <2>a
  <2>b. /\ pc' = [pc EXCEPT ![p] = "read"] /\ left' = [left EXCEPT ![p] = len - n]
        /\ wakeup_flags' = [wakeup_flags EXCEPT ![p] = "WT_INTERRUPTED"]
        /\ sleeping' = sleeping \cup {p}
    BY <1>2, <1>7
  <2>1. StdinTypeOK'
    <3>1. p_rpos' \in Nat /\ p_wpos' \in Nat /\ len - n \in Nat
      BY <1>0, <1>1, <1>2, <1>7
    <3>2. QED
      BY <1>4, <2>0, <2>b, <3>1 DEF StdinTypeOK
  <2>2. WaitQueueSound'
    <3>1. p_rpos' = p_wpos'
      BY <1>0, <1>1, <1>2, <1>7
    <3>2. sleeping' \subseteq ToSet(wait_queue')
      BY <1>2, <1>7, <2>0 DEF WaitQueueSound
    <3>3. \A q \in ToSet(wait_queue') : pc'[q] = "read"
      <4>1. ToSet(wait_queue) \subseteq Readers
        BY DEF ToSet, StdinTypeOK
      <4>2. QED
        BY <2>0, <2>b, <4>1 DEF WaitQueueSound, StdinTypeOK
    <3>4. QED
      BY <2>0, <3>1, <3>2, <3>3 DEF WaitQueueSound
  <2>3. AwakeForKey'
    BY <1>2, <1>7 DEF AwakeForKey, StdinTypeOK
  <2>4. CharactersOnce'
    BY <1>1, <1>2, <1>3, <2>1, ReadKeepsCharacters
  <2>5. QED
    BY <1>2, <1>3, <1>7, <2>1, <2>2, <2>3, <2>4 DEF StdinTypeOK
<1>8. QED
  BY <1>6, <1>7

\* dev_stdin_write with room: the character goes behind all others.
LEMMA WriteWithRoom ==
    ASSUME StdinInv, SeenEntries', dev_stdin_write, has_room
    PROVE  CharactersOnce'
<1> USE DEF StdinInv
<1>0. /\ p_rpos \in Nat /\ p_wpos \in Nat /\ p_rpos <= p_wpos /\ p_wpos - p_rpos < STDIN_BUFSIZE
      /\ STDIN_BUFSIZE \in Nat \ {0} /\ typed \in Nat /\ Len(delivered) \in Nat
      /\ p_wpos' = p_wpos + 1 /\ p_rpos' = p_rpos /\ lost' = lost /\ typed' = typed + 1
      /\ delivered' = delivered
  BY StdinAssumption DEF StdinTypeOK, PositionsSound, dev_stdin_write, has_room
<1>1. SeenEntries
  BY SeenProperties
<1>2. /\ Len(Seen) \in Nat /\ Len(Seen) = Len(delivered) + (p_wpos - p_rpos)
      /\ Len(Seen') = Len(Seen) + 1
      /\ DOMAIN Seen = 1..Len(Seen) /\ DOMAIN Seen' = 1..(Len(Seen) + 1)
  <2>1. Len(Seen) = Len(delivered) + (p_wpos - p_rpos) /\ DOMAIN Seen = 1..Len(Seen)
    BY <1>1 DEF SeenEntries
  <2>2. Len(Seen') = Len(delivered) + ((p_wpos + 1) - p_rpos) /\ DOMAIN Seen' = 1..Len(Seen')
    BY <1>0 DEF SeenEntries
  <2>3. Len(Seen) \in Nat /\ Len(Seen') = Len(Seen) + 1
    BY <1>0, <2>1, <2>2
  <2>4. QED
    BY <2>1, <2>2, <2>3
<1>3. ASSUME NEW i \in 1..Len(Seen) PROVE Seen'[i] = Seen[i]
  <2> DEFINE pos == p_rpos + (i - Len(delivered)) - 1
  <2>0. i \in 1..Len(Seen')
    BY <1>2
  <2>1. CASE i <= Len(delivered)
    <3>1. Seen[i] = delivered[i]
      BY <1>1, <2>1 DEF SeenEntries
    <3>2. Seen'[i] = delivered[i]
      BY <1>0, <2>0, <2>1 DEF SeenEntries
    <3>3. QED
      BY <3>1, <3>2
  <2>2. CASE i > Len(delivered)
    <3>1. pos \in Nat /\ p_wpos - pos \in Nat /\ p_wpos - pos < STDIN_BUFSIZE /\ p_wpos - pos # 0
          /\ pos + (p_wpos - pos) = p_wpos
      BY <1>0, <1>2, <2>2
    <3>a. ~(i <= Len(delivered))
      BY <1>0, <2>2
    <3>b. Seen[i] = stdin_buffer[pos % STDIN_BUFSIZE]
      BY <1>1, <3>a DEF SeenEntries, At
    <3>c. Seen'[i] = stdin_buffer'[pos % STDIN_BUFSIZE]
      BY <1>0, <2>0, <3>a DEF SeenEntries, At
    <3>2. Seen[i] = stdin_buffer[pos % STDIN_BUFSIZE] /\ Seen'[i] = stdin_buffer'[pos % STDIN_BUFSIZE]
      BY <3>b, <3>c
    <3> HIDE DEF pos
    <3>3. pos % STDIN_BUFSIZE # p_wpos % STDIN_BUFSIZE
      BY <1>0, <3>1, ModInjective
    <3>4. pos % STDIN_BUFSIZE \in 0..(STDIN_BUFSIZE - 1)
      BY <1>0, <3>1, DivMod
    <3>5. stdin_buffer' = [stdin_buffer EXCEPT ![p_wpos % STDIN_BUFSIZE] = typed + 1]
      BY DEF dev_stdin_write
    <3>6. QED
      BY <3>2, <3>3, <3>4, <3>5 DEF StdinTypeOK
  <2>3. QED
    BY <1>0, <1>2, <2>1, <2>2
<1>4. Seen'[Len(Seen) + 1] = typed + 1
  <2>1. Len(Seen) + 1 \in 1..Len(Seen') /\ ~(Len(Seen) + 1 <= Len(delivered'))
        /\ p_rpos' + ((Len(Seen) + 1) - Len(delivered')) - 1 = p_wpos
    BY <1>0, <1>2
  <2>2. Seen'[Len(Seen) + 1] = stdin_buffer'[p_wpos % STDIN_BUFSIZE]
    BY <2>1 DEF SeenEntries, At
  <2>3. p_wpos % STDIN_BUFSIZE \in 0..(STDIN_BUFSIZE - 1)
    BY <1>0, DivMod
  <2>4. QED
    BY <2>2, <2>3 DEF StdinTypeOK, dev_stdin_write
<1>5. /\ ToSet(Seen) = (1..typed) \ lost /\ lost \in SUBSET (1..typed)
      /\ Len(Seen) = typed - Cardinality(lost)
      /\ \A i \in 1..Len(Seen) : Seen[i] \in 1..typed
      /\ IsInjective(Seen)
  BY <1>2 DEF CharactersOnce, ToSet
<1>6. ToSet(Seen') = ToSet(Seen) \cup {typed + 1}
  BY <1>2, <1>3, <1>4 DEF ToSet
<1>7. ToSet(Seen') = (1..typed') \ lost'
  BY <1>0, <1>5, <1>6
<1>8. IsInjective(Seen')
  <2> SUFFICES ASSUME NEW i \in 1..(Len(Seen) + 1), NEW j \in 1..(Len(Seen) + 1), Seen'[i] = Seen'[j]
               PROVE  i = j
    BY <1>2 DEF IsInjective
  <2>1. \A k \in 1..(Len(Seen) + 1) : k \in 1..Len(Seen) \/ k = Len(Seen) + 1
    BY <1>2
  <2>2. \A k \in 1..Len(Seen) : Seen'[k] = Seen[k] /\ Seen[k] # typed + 1
    BY <1>0, <1>3, <1>5
  <2>3. CASE i \in 1..Len(Seen) /\ j \in 1..Len(Seen)
    BY <1>2, <1>5, <2>2, <2>3 DEF IsInjective
  <2>4. QED
    BY <1>4, <2>1, <2>2, <2>3
<1>9. lost' \in SUBSET (1..typed') /\ Len(Seen') = typed' - Cardinality(lost')
  <2>1. Cardinality(lost) \in Nat
    <3>1. IsFiniteSet(1..typed)
      BY <1>0, FS_Interval
    <3>2. QED
      BY <1>5, <3>1, FS_Subset, FS_CardinalityType
  <2>2. QED
    BY <1>0, <1>2, <1>5, <2>1
<1>10. ASSUME lost' = {}, NEW i \in 1..Len(Seen') PROVE Seen'[i] = i
  <2>1. Cardinality(lost) = 0 /\ \A j \in 1..Len(Seen) : Seen[j] = j
    BY <1>0, <1>10, FS_EmptySet DEF CharactersOnce
  <2>2. Len(Seen) = typed
    BY <1>0, <1>5, <2>1
  <2>3. QED
    BY <1>2, <1>3, <1>4, <2>1, <2>2
<1>11. QED
  BY <1>7, <1>8, <1>9, <1>10 DEF CharactersOnce

\* dev_stdin_write without room: the oldest character is overwritten and lost, and
\* the new one is read in its place.
LEMMA WriteWithoutRoom ==
    ASSUME StdinInv, SeenEntries', dev_stdin_write, ~has_room
    PROVE  CharactersOnce'
<1> USE DEF StdinInv
<1> DEFINE d == Len(delivered)
           k == d + 1
<1>0. /\ p_rpos \in Nat /\ p_wpos = p_rpos + STDIN_BUFSIZE
      /\ STDIN_BUFSIZE \in Nat \ {0} /\ typed \in Nat /\ d \in Nat
      /\ p_wpos' = p_wpos /\ p_rpos' = p_rpos /\ typed' = typed + 1
      /\ delivered' = delivered /\ lost' = lost \cup {At(p_rpos)}
      /\ stdin_buffer' = [stdin_buffer EXCEPT ![p_wpos % STDIN_BUFSIZE] = typed + 1]
  BY StdinAssumption DEF StdinTypeOK, PositionsSound, dev_stdin_write, has_room
<1>1. SeenEntries
  BY SeenProperties
<1>2. /\ Len(Seen) = d + STDIN_BUFSIZE /\ Len(Seen') = Len(Seen)
      /\ DOMAIN Seen = 1..Len(Seen) /\ DOMAIN Seen' = 1..Len(Seen)
  <2>1. Len(Seen) = d + (p_wpos - p_rpos) /\ DOMAIN Seen = 1..Len(Seen)
    BY <1>1 DEF SeenEntries
  <2>2. Len(Seen') = d + (p_wpos - p_rpos) /\ DOMAIN Seen' = 1..Len(Seen')
    BY <1>0 DEF SeenEntries
  <2>3. QED
    BY <1>0, <2>1, <2>2
<1>3. k \in 1..Len(Seen) /\ Len(Seen) \in Nat /\ ~(k <= Len(delivered)) /\ p_rpos + (k - Len(delivered)) - 1 = p_rpos
  BY <1>0, <1>2
<1>4. p_wpos % STDIN_BUFSIZE = p_rpos % STDIN_BUFSIZE /\ p_rpos % STDIN_BUFSIZE \in 0..(STDIN_BUFSIZE - 1)
  BY <1>0, ModPeriod, DivMod
<1>5. Seen[k] = At(p_rpos) /\ Seen'[k] = typed + 1
  <2>1. Seen[k] = At(p_rpos)
    BY <1>1, <1>3 DEF SeenEntries
  <2>2. Seen'[k] = stdin_buffer'[p_rpos % STDIN_BUFSIZE]
    BY <1>0, <1>2, <1>3 DEF SeenEntries, At
  <2>3. QED
    BY <1>0, <1>4, <2>1, <2>2 DEF StdinTypeOK
<1>6. ASSUME NEW i \in 1..Len(Seen), i # k PROVE Seen'[i] = Seen[i]
  <2> DEFINE pos == p_rpos + (i - Len(delivered)) - 1
  <2>1. CASE i <= Len(delivered)
    <3>1. Seen[i] = delivered[i]
      BY <1>1, <2>1 DEF SeenEntries
    <3>2. Seen'[i] = delivered[i]
      BY <1>0, <1>2, <2>1 DEF SeenEntries
    <3>3. QED
      BY <3>1, <3>2
  <2>2. CASE i > Len(delivered)
    <3>1. /\ ~(i <= Len(delivered)) /\ pos \in Nat /\ pos - p_rpos \in Nat
          /\ pos - p_rpos < STDIN_BUFSIZE /\ pos - p_rpos # 0 /\ p_rpos + (pos - p_rpos) = pos
      BY <1>0, <1>2, <1>6, <2>2
    <3>2. Seen[i] = stdin_buffer[pos % STDIN_BUFSIZE]
      BY <1>1, <3>1 DEF SeenEntries, At
    <3>3. Seen'[i] = stdin_buffer'[pos % STDIN_BUFSIZE]
      BY <1>0, <1>2, <3>1 DEF SeenEntries, At
    <3> HIDE DEF pos
    <3>4. pos % STDIN_BUFSIZE # p_rpos % STDIN_BUFSIZE
      BY <1>0, <3>1, ModInjective
    <3>5. pos % STDIN_BUFSIZE \in 0..(STDIN_BUFSIZE - 1)
      BY <1>0, <3>1, DivMod
    <3>6. QED
      BY <1>0, <1>4, <3>2, <3>3, <3>4, <3>5 DEF StdinTypeOK
  <2>3. QED
    BY <1>0, <1>2, <2>1, <2>2
<1> HIDE DEF k
<1>7. /\ ToSet(Seen) = (1..typed) \ lost /\ lost \in SUBSET (1..typed)
      /\ Len(Seen) = typed - Cardinality(lost)
      /\ \A i \in 1..Len(Seen) : Seen[i] \in (1..typed) \ lost
      /\ \A i, j \in 1..Len(Seen) : Seen[i] = Seen[j] => i = j
  BY <1>2 DEF CharactersOnce, ToSet, IsInjective
<1>8. ToSet(Seen') = (ToSet(Seen) \ {Seen[k]}) \cup {typed + 1}
  <2>1. \A i \in 1..Len(Seen) : i # k => Seen'[i] = Seen[i] /\ Seen[i] # Seen[k]
    BY <1>3, <1>6, <1>7
  <2>2. QED
    BY <1>2, <1>3, <1>5, <2>1 DEF ToSet
<1>9. ToSet(Seen') = (1..typed') \ lost'
  <2>1. typed + 1 \notin lost /\ Seen[k] # typed + 1 /\ 1..typed' = (1..typed) \cup {typed + 1}
    BY <1>0, <1>3, <1>7
  <2>2. QED
    BY <1>0, <1>5, <1>7, <1>8, <2>1
<1>10. IsInjective(Seen')
  <2> SUFFICES ASSUME NEW i \in 1..Len(Seen), NEW j \in 1..Len(Seen), Seen'[i] = Seen'[j]
               PROVE  i = j
    BY <1>2 DEF IsInjective
  <2>1. \A l \in 1..Len(Seen) : l # k => Seen'[l] = Seen[l] /\ Seen[l] # typed + 1
    BY <1>0, <1>6, <1>7
  <2>2. QED
    BY <1>5, <1>7, <2>1
<1>11. lost' \in SUBSET (1..typed') /\ Len(Seen') = typed' - Cardinality(lost')
  <2>1. IsFiniteSet(1..typed)
    BY <1>0, FS_Interval
  <2>2. IsFiniteSet(lost) /\ Cardinality(lost) \in Nat
    BY <1>7, <2>1, FS_Subset, FS_CardinalityType
  <2>3. Seen[k] \in 1..typed /\ Seen[k] \notin lost
    BY <1>3, <1>7
  <2>4. Cardinality(lost') = Cardinality(lost) + 1
    BY <1>0, <1>5, <2>2, <2>3, FS_AddElement
  <2>5. lost' \in SUBSET (1..typed')
    <3>1. \A x \in 1..typed : x \in 1..typed'
      BY <1>0
    <3>2. lost' = lost \cup {Seen[k]}
      BY <1>0, <1>5
    <3>3. QED
      BY <1>7, <2>3, <3>1, <3>2
  <2>6. QED
    BY <1>0, <1>2, <1>7, <2>2, <2>4, <2>5
<1>12. lost' # {}
  BY <1>0
<1>13. QED
  BY <1>9, <1>10, <1>11, <1>12 DEF CharactersOnce

LEMMA WriteStep ==
    ASSUME StdinInv, dev_stdin_write
    PROVE  StdinInv'
<1> USE StdinAssumption DEF StdinInv, dev_stdin_write
<1>1. StdinTypeOK'
  <2>1. p_wpos % STDIN_BUFSIZE \in 0..(STDIN_BUFSIZE - 1)
    BY DivMod DEF StdinTypeOK
  <2>2. p_wpos' \in Nat
    BY DEF StdinTypeOK
  <2>3. QED
    BY <2>1, <2>2 DEF StdinTypeOK, wakeup_queue
<1>2. PositionsSound'
  BY DEF PositionsSound, has_room, StdinTypeOK
<1>3. sleeping' = {} /\ wait_queue' = <<>>
  BY DEF wakeup_queue, WaitQueueSound
<1>4. WaitQueueSound'
  BY <1>3 DEF WaitQueueSound, ToSet, IsInjective
<1>5. AwakeForKey'
  BY DEF AwakeForKey, wakeup_queue, WaitQueueSound, StdinTypeOK
<1>6. SeenEntries'
  BY <1>1, <1>2, SeenProperties, PTL
<1>7. CharactersOnce'
  BY <1>6, WriteWithRoom, WriteWithoutRoom
<1>8. QED
  BY <1>1, <1>2, <1>4, <1>5, <1>7

\* A pass of the reading loop by a process that was in user mode, or was woken.
LEMMA ReadStep ==
    ASSUME StdinInv, NEW p \in Readers, NEW len \in 1..MaxLen, dev_stdin_read(p, len)
    PROVE  StdinInv'
<1> USE DEF StdinInv, dev_stdin_read
<1>1. p \notin ToSet(wait_queue) /\ p \notin sleeping
  BY DEF WaitQueueSound
<1>2. wait_queue \in Seq(Readers) /\ IsInjective(wait_queue) /\ len \in Nat
      /\ ToSet(wait_queue) = ToSet(wait_queue) \ {p}
  BY <1>1, StdinAssumption DEF StdinTypeOK, WaitQueueSound
<1>3. QED
  BY <1>1, <1>2, ReadLoopStep

LEMMA UnlinkedProperties ==
    ASSUME StdinInv, NEW p \in Readers
    PROVE  /\ unlinked(p) \in Seq(Readers) /\ IsInjective(unlinked(p))
           /\ ToSet(unlinked(p)) = ToSet(wait_queue) \ {p}
  BY RemoveFirstProperties DEF unlinked, StdinInv, StdinTypeOK, WaitQueueSound

LEMMA AgainStep ==
    ASSUME StdinInv, NEW p \in Readers, dev_stdin_read_again(p)
    PROVE  StdinInv' /\ (pc'[p] # "read" => p_rpos' - p_rpos = left[p])
<1> USE DEF StdinInv, dev_stdin_read_again
<1>1. left[p] \in Nat
  BY DEF StdinTypeOK
<1>2. QED
  BY <1>1, UnlinkedProperties, ReadLoopStep

LEMMA CharactersKept ==
    ASSUME StdinInv, UNCHANGED <<stdin_buffer, p_rpos, p_wpos, typed, lost, delivered>>
    PROVE  CharactersOnce' /\ PositionsSound'
<1>1. Seen' = Seen
  BY DEF Seen, Buffered, At
<1>2. QED
  BY <1>1 DEF StdinInv, CharactersOnce, PositionsSound

LEMMA BreakStep ==
    ASSUME StdinInv, NEW p \in Readers, dev_stdin_read_break(p)
    PROVE  StdinInv' /\ p \in exiting
<1> USE DEF StdinInv, dev_stdin_read_break, Return
<1>1. StdinTypeOK'
  BY UnlinkedProperties DEF StdinTypeOK
<1>2. WaitQueueSound'
  <2>1. ToSet(wait_queue') = ToSet(wait_queue) \ {p} /\ IsInjective(wait_queue')
    BY UnlinkedProperties
  <2>2. QED
    BY <2>1 DEF WaitQueueSound, StdinTypeOK
<1>3. AwakeForKey' /\ p \in exiting
  BY DEF AwakeForKey, StdinTypeOK
<1>4. QED
  BY <1>1, <1>2, <1>3, CharactersKept

LEMMA KillStep ==
    ASSUME StdinInv, NEW p \in Readers, do_kill(p)
    PROVE  StdinInv'
<1> USE DEF StdinInv, do_kill
<1>1. StdinTypeOK' /\ WaitQueueSound' /\ AwakeForKey'
  BY DEF StdinTypeOK, WaitQueueSound, AwakeForKey
<1>2. QED
  BY <1>1, CharactersKept

LEMMA StdinStep == StdinInv /\ [Next]_vars => StdinInv'
<1> SUFFICES ASSUME StdinInv, [Next]_vars PROVE StdinInv'
  OBVIOUS
<1>1. CASE UNCHANGED vars
  <2>1. StdinTypeOK' /\ WaitQueueSound' /\ AwakeForKey'
    BY <1>1 DEF vars, StdinInv, StdinTypeOK, WaitQueueSound, AwakeForKey
  <2>2. QED
    BY <1>1, <2>1, CharactersKept DEF vars, StdinInv
<1>2. CASE dev_stdin_write
  BY <1>2, WriteStep
<1>3. ASSUME NEW p \in Readers, NEW len \in 1..MaxLen, dev_stdin_read(p, len) PROVE StdinInv'
  BY <1>3, ReadStep
<1>4. ASSUME NEW p \in Readers, dev_stdin_read_again(p) PROVE StdinInv'
  BY <1>4, AgainStep
<1>5. ASSUME NEW p \in Readers, dev_stdin_read_break(p) PROVE StdinInv'
  BY <1>5, BreakStep
<1>6. ASSUME NEW p \in Readers, do_kill(p) PROVE StdinInv'
  BY <1>6, KillStep
<1>7. QED
  BY <1>1, <1>2, <1>3, <1>4, <1>5, <1>6 DEF Next

LEMMA StdinInvariant == Spec => []StdinInv
  BY StdinInit, StdinStep, PTL DEF Spec

\* No wake-up is lost: nobody sleeps in dev_stdin_read while there is a character,
\* every sleeper is in the wait queue, and the queue refers to no wait_t of a process
\* that has left dev_stdin_read.
THEOREM NoLostKey == Spec => []WaitQueueSound
<1>1. StdinInv => WaitQueueSound
  BY DEF StdinInv
<1>2. QED
  BY StdinInvariant, <1>1, PTL

\* Every character typed is delivered, buffered or lost to a full buffer, once, and
\* in the order of typing until one is lost.
THEOREM CharactersCorrect == Spec => []CharactersAccounted
<1>1. StdinInv => CharactersAccounted
  <2> SUFFICES ASSUME StdinInv PROVE CharactersAccounted
    OBVIOUS
  <2>1. SeenEntries
    BY SeenProperties DEF StdinInv
  <2>2. Len(delivered) \in Nat /\ p_wpos - p_rpos \in Nat
    BY DEF StdinInv, StdinTypeOK, PositionsSound
  <2>3. \A i \in 1..Len(delivered) : i \in 1..Len(Seen) /\ Seen[i] = delivered[i]
    BY <2>1, <2>2 DEF SeenEntries
  <2>4. QED
    BY <2>3 DEF StdinInv, CharactersOnce, CharactersAccounted, Seen
<1>2. QED
  BY StdinInvariant, <1>1, PTL

\* A read that nobody killed returns with everything that was left to read: the
\* path of dev_stdin_read that gives up is taken by killed processes only.
THEOREM ReadsComplete == Spec => ReadAccounted
<1> DEFINE A == \A p \in Readers : pc[p] = "read" /\ pc'[p] # "read" /\ p \notin exiting =>
                    p_rpos' - p_rpos = left[p]
<1>1. ASSUME StdinInv, [Next]_vars PROVE [A]_vars
  <2> SUFFICES ASSUME Next, NEW p \in Readers, pc[p] = "read", pc'[p] # "read", p \notin exiting
               PROVE  p_rpos' - p_rpos = left[p]
    BY <1>1
  <2>0. pc \in [Readers -> {"user", "read", "dead"}]
    BY <1>1 DEF StdinInv, StdinTypeOK
  <2>1. ASSUME NEW q \in Readers, q # p, \E len \in Nat, queue \in Seq(Readers) : ReadLoop(q, len, queue)
        PROVE  FALSE
    BY <2>0, <2>1 DEF ReadLoop, Return
  <2>2. CASE dev_stdin_write
    BY <2>2 DEF dev_stdin_write
  <2>3. ASSUME NEW q \in Readers, NEW len \in 1..MaxLen, dev_stdin_read(q, len)
        PROVE  FALSE
    <3>1. wait_queue \in Seq(Readers) /\ len \in Nat /\ q # p
      BY <1>1, <2>3, StdinAssumption DEF StdinInv, StdinTypeOK, dev_stdin_read
    <3>2. QED
      BY <2>1, <2>3, <3>1 DEF dev_stdin_read
  <2>4. ASSUME NEW q \in Readers, dev_stdin_read_again(q)
        PROVE  p_rpos' - p_rpos = left[p]
    <3>1. CASE q = p
      BY <1>1, <2>4, <3>1, AgainStep
    <3>2. CASE q # p
      <4>1. left[q] \in Nat /\ unlinked(q) \in Seq(Readers)
        BY <1>1, UnlinkedProperties DEF StdinInv, StdinTypeOK
      <4>2. QED
        BY <2>1, <2>4, <3>2, <4>1 DEF dev_stdin_read_again
    <3>3. QED
      BY <3>1, <3>2
  <2>5. ASSUME NEW q \in Readers, dev_stdin_read_break(q)
        PROVE  FALSE
    <3>1. q # p
      BY <1>1, <2>5, BreakStep
    <3>2. QED
      BY <2>0, <2>5, <3>1 DEF dev_stdin_read_break, Return
  <2>6. ASSUME NEW q \in Readers, do_kill(q)
        PROVE  FALSE
    BY <2>6 DEF do_kill
  <2>7. QED
    BY <2>2, <2>3, <2>4, <2>5, <2>6 DEF Next
<1>2. QED
  BY StdinInvariant, <1>1, PTL DEF Spec, ReadAccounted
-----------------------------------------------------------------------------
(* Strides.                                                                *)

\* A multiple of Wrap that is smaller than Wrap is 0.
LEMMA SmallMultiple ==
    ASSUME NEW k \in Int, -Wrap < k * Wrap, k * Wrap < Wrap
    PROVE  k = 0
<1>0. Wrap \in Nat /\ Wrap > 0
  BY StrideAssumption
<1>1. CASE k >= 1
  <2>1. k * Wrap >= 1 * Wrap
    BY ONLY <1>0, <1>1, k \in Int
  <2>2. QED
    BY ONLY <1>0, <2>1, k \in Int, k * Wrap < Wrap
<1>2. CASE k <= -1
  <2>1. k * Wrap <= (-1) * Wrap
    BY ONLY <1>0, <1>2, k \in Int
  <2>2. QED
    BY ONLY <1>0, <2>1, k \in Int, -Wrap < k * Wrap
<1>3. QED
  BY <1>1, <1>2

\* Signed(d) is d up to a multiple of Wrap.
LEMMA SignedValue ==
    ASSUME NEW d \in Int
    PROVE  /\ Signed(d) \in Int /\ -Wrap <= 2 * Signed(d) /\ 2 * Signed(d) < Wrap
           /\ \E k \in Int : Signed(d) = d - k * Wrap
<1>0. Wrap \in Nat /\ Wrap > 0
  BY StrideAssumption
<1> DEFINE m == d % Wrap
           q == d \div Wrap
<1>1. m \in 0..(Wrap - 1) /\ q \in Int /\ d = Wrap * q + m
  BY ONLY <1>0, d \in Int
<1> HIDE DEF m, q
<1>2. Signed(d) = IF 2 * m >= Wrap THEN m - Wrap ELSE m
  BY DEF Signed, m
<1>3. m = d - q * Wrap /\ m - Wrap = d - (q + 1) * Wrap
  BY ONLY <1>0, <1>1, d \in Int
<1>4. \E k \in Int : Signed(d) = d - k * Wrap
  <2>1. q \in Int /\ q + 1 \in Int
    BY ONLY <1>1
  <2>2. CASE 2 * m >= Wrap
    BY ONLY <1>2, <1>3, <2>1, <2>2
  <2>3. CASE ~(2 * m >= Wrap)
    BY ONLY <1>2, <1>3, <2>1, <2>3
  <2>4. QED
    BY <2>2, <2>3
<1>5. Signed(d) \in Int /\ -Wrap <= 2 * Signed(d) /\ 2 * Signed(d) < Wrap
  BY ONLY <1>0, <1>1, <1>2
<1>6. QED
  BY <1>4, <1>5

\* It is the only such number near 0.
LEMMA SignedUnique ==
    ASSUME NEW d \in Int, NEW e \in Int, NEW k \in Int, e = d - k * Wrap,
           -Wrap < 2 * e, 2 * e < Wrap
    PROVE  Signed(d) = e
<1>0. Wrap \in Nat /\ Wrap > 0
  BY StrideAssumption
<1> DEFINE s == Signed(d)
<1>1. s \in Int /\ -Wrap <= 2 * s /\ 2 * s < Wrap
  BY SignedValue
<1>2. PICK j \in Int : s = d - j * Wrap
  BY SignedValue
<1> HIDE DEF s
<1>3. j - k \in Int /\ (j - k) * Wrap = j * Wrap - k * Wrap /\ j * Wrap \in Int /\ k * Wrap \in Int
  BY ONLY <1>0, j \in Int, k \in Int
<1>4. e - s = (j - k) * Wrap
  BY ONLY <1>2, <1>3, d \in Int, e = d - k * Wrap
<1>5. -Wrap < e - s /\ e - s < Wrap
  BY ONLY <1>0, <1>1, e \in Int, -Wrap < 2 * e, 2 * e < Wrap
<1>6. j - k = 0
  BY <1>3, <1>4, <1>5, SmallMultiple
<1>7. 0 * Wrap = 0
  BY ONLY <1>0
<1>8. QED
  BY <1>1, <1>4, <1>6, <1>7 DEF s

Short == -BIG_STRIDE..BIG_STRIDE

LEMMA SignedNeg ==
    ASSUME NEW d \in Int, Signed(d) \in Short
    PROVE  Signed(-d) = -Signed(d)
<1>0. Wrap \in Nat /\ BIG_STRIDE \in Nat /\ 3 * BIG_STRIDE < Wrap
  BY StrideAssumption
<1>1. PICK k \in Int : Signed(d) = d - k * Wrap
  BY SignedValue
<1>2. -Signed(d) = -d - (-k) * Wrap /\ -k \in Int /\ -d \in Int
  BY ONLY <1>0, <1>1, d \in Int
<1> DEFINE s == Signed(d)
<1>3. s \in Int /\ s >= -BIG_STRIDE /\ s <= BIG_STRIDE
  BY <1>0 DEF Short
<1>4. -s \in Int /\ -Wrap < 2 * (-s) /\ 2 * (-s) < Wrap
  <2> HIDE DEF s
  <2>1. QED
    BY ONLY <1>0, <1>3
<1>5. QED
  BY <1>2, <1>4, SignedUnique

\* Short differences add up.
LEMMA SignedAdd ==
    ASSUME NEW d \in Int, NEW e \in Int,
           Signed(d) \in Short, Signed(e) \in Short, Signed(d + e) \in Short
    PROVE  Signed(d + e) = Signed(d) + Signed(e)
<1>0. Wrap \in Nat /\ BIG_STRIDE \in Nat /\ 3 * BIG_STRIDE < Wrap
  BY StrideAssumption
<1> DEFINE s == Signed(d)
           t == Signed(e)
           u == Signed(d + e)
<1>1. PICK i \in Int : s = d - i * Wrap
  BY SignedValue
<1>2. PICK j \in Int : t = e - j * Wrap
  BY SignedValue
<1>3. d + e \in Int
  OBVIOUS
<1>4. PICK k \in Int : u = (d + e) - k * Wrap
  BY <1>3, SignedValue
<1>5. /\ s \in Int /\ s >= -BIG_STRIDE /\ s <= BIG_STRIDE
      /\ t \in Int /\ t >= -BIG_STRIDE /\ t <= BIG_STRIDE
      /\ u \in Int /\ u >= -BIG_STRIDE /\ u <= BIG_STRIDE
  BY <1>0 DEF Short
<1> HIDE DEF s, t, u
<1>6. /\ k - i - j \in Int /\ (k - i - j) * Wrap = k * Wrap - i * Wrap - j * Wrap
      /\ i * Wrap \in Int /\ j * Wrap \in Int /\ k * Wrap \in Int
  BY ONLY <1>0, i \in Int, j \in Int, k \in Int
<1>7. s + t - u = (k - i - j) * Wrap
  BY ONLY <1>1, <1>2, <1>4, <1>6, d \in Int, e \in Int
<1>8. -Wrap < s + t - u /\ s + t - u < Wrap
  BY ONLY <1>0, <1>5
<1>9. k - i - j = 0
  BY <1>6, <1>7, <1>8, SmallMultiple
<1>10. 0 * Wrap = 0
  BY ONLY <1>0
<1>11. s + t - u = 0
  BY ONLY <1>7, <1>9, <1>10
<1>12. u = s + t
  BY ONLY <1>5, <1>11
<1>13. QED
  BY <1>12 DEF s, t, u

\* x advances by c, modulo Wrap.
LEMMA SignedAdvance ==
    ASSUME NEW x \in Int, NEW y \in Int, NEW c \in Int, Signed(x - y) + c \in Short
    PROVE  Signed(((x + c) % Wrap) - y) = Signed(x - y) + c
<1>0. Wrap \in Nat /\ Wrap > 0 /\ BIG_STRIDE \in Nat /\ 3 * BIG_STRIDE < Wrap
  BY StrideAssumption
<1> DEFINE s == Signed(x - y)
           m == (x + c) % Wrap
           q == (x + c) \div Wrap
<1>1. m \in Int /\ q \in Int /\ x + c = Wrap * q + m
  BY ONLY <1>0, x \in Int, c \in Int
<1>2. x - y \in Int
  OBVIOUS
<1>3. s \in Int
  BY <1>2, SignedValue
<1>4. PICK k \in Int : s = (x - y) - k * Wrap
  BY <1>2, SignedValue
<1>5. s + c \in Int /\ s + c >= -BIG_STRIDE /\ s + c <= BIG_STRIDE
  BY <1>0, <1>3 DEF Short
<1> HIDE DEF s, m, q
<1>6. /\ k - q \in Int /\ (k - q) * Wrap = k * Wrap - Wrap * q
      /\ k * Wrap \in Int /\ Wrap * q \in Int
  BY ONLY <1>0, <1>1, k \in Int
<1>7. s + c = (m - y) - (k - q) * Wrap
  BY ONLY <1>1, <1>3, <1>4, <1>6, x \in Int, y \in Int, c \in Int
<1>8. m - y \in Int /\ -Wrap < 2 * (s + c) /\ 2 * (s + c) < Wrap
  BY ONLY <1>0, <1>1, <1>5, y \in Int
<1>9. Signed(m - y) = s + c
  BY <1>5, <1>6, <1>7, <1>8, SignedUnique
<1>10. QED
  BY <1>9 DEF m, s
-----------------------------------------------------------------------------
(* Heaps.                                                                  *)

Heaps == [root : Nodes, left : [Procs -> Nodes], right : [Procs -> Nodes], parent : [Procs -> Nodes]]

\* The nodes S are the tree with root r; sub gives the nodes below each of them.
IsTree(h, r, S, sub) ==
    /\ S \in SUBSET Procs /\ r \in S \cup {NULL}
    /\ sub[NULL] = {} /\ sub[r] = S
    /\ \A p \in S :
          /\ h.left[p] \in S \cup {NULL} /\ h.right[p] \in S \cup {NULL}
          /\ sub[p] = {p} \cup sub[h.left[p]] \cup sub[h.right[p]]
          /\ p \notin sub[h.left[p]] /\ p \notin sub[h.right[p]]
          /\ sub[h.left[p]] \cap sub[h.right[p]] = {}
          /\ \A q \in sub[p] : sub[q] \subseteq sub[p]

LEMMA NodesFacts == NULL \notin Procs /\ NULL \in Nodes /\ Procs \subseteq Nodes /\ Nodes \ {NULL} = Procs
  BY StrideAssumption DEF Nodes

LEMMA TreeFacts ==
    ASSUME NEW h, NEW r, NEW S, NEW sub, IsTree(h, r, S, sub)
    PROVE  /\ NULL \notin S /\ (r = NULL <=> S = {})
           /\ \A p \in S : p \in sub[p] /\ sub[p] \subseteq S
<1>1. NULL \notin S
  BY NodesFacts DEF IsTree
<1>2. \A p \in S : p \in sub[p] /\ sub[p] \subseteq S
  <2> SUFFICES ASSUME NEW p \in S PROVE p \in sub[p] /\ sub[p] \subseteq S
    OBVIOUS
  <2>1. r # NULL /\ sub[r] = S /\ r \in S
    BY DEF IsTree
  <2>2. QED
    BY <2>1 DEF IsTree
<1>3. QED
  BY <1>1, <1>2 DEF IsTree

LEMMA Subtree ==
    ASSUME NEW h, NEW r, NEW S, NEW sub, IsTree(h, r, S, sub), NEW p \in S,
           NEW c \in {h.left[p], h.right[p]}
    PROVE  IsTree(h, c, sub[c], sub) /\ sub[c] \subseteq sub[p] /\ p \notin sub[c]
<1>0. /\ S \in SUBSET Procs /\ sub[NULL] = {} /\ c \in S \cup {NULL}
      /\ sub[c] \subseteq sub[p] /\ p \notin sub[c]
  BY DEF IsTree
<1>1. CASE c = NULL
  BY <1>0, <1>1 DEF IsTree
<1>2. CASE c # NULL
  <2>1. c \in S /\ c \in sub[c] /\ sub[c] \subseteq S
    BY <1>0, <1>2, TreeFacts
  <2>2. ASSUME NEW q \in sub[c], NEW d \in {h.left[q], h.right[q]} PROVE d \in sub[c] \cup {NULL}
    <3>1. q \in S /\ sub[q] \subseteq sub[c]
      BY <2>1 DEF IsTree
    <3>2. d \in S \cup {NULL} /\ sub[d] \subseteq sub[q]
      BY <3>1 DEF IsTree
    <3>3. d \in S => d \in sub[d]
      BY TreeFacts
    <3>4. QED
      BY <3>1, <3>2, <3>3
  <2>3. QED
    BY <1>0, <2>1, <2>2 DEF IsTree
<1>3. QED
  BY <1>1, <1>2

\* A tree does not depend on the pointers of other nodes.
LEMMA TreeFrame ==
    ASSUME NEW h, NEW r, NEW S, NEW sub, IsTree(h, r, S, sub), NEW g,
           \A p \in S : g.left[p] = h.left[p] /\ g.right[p] = h.right[p]
    PROVE  IsTree(g, r, S, sub)
  BY DEF IsTree

\* Two trees and a node above them.
LEMMA TreeJoin ==
    ASSUME NEW g, NEW L, NEW R, NEW subl, NEW subr, NEW a \in Procs,
           IsTree(g, g.left[a], L, subl), IsTree(g, g.right[a], R, subr),
           L \cap R = {}, a \notin L, a \notin R
    PROVE  \E sub : IsTree(g, a, {a} \cup L \cup R, sub)
<1> DEFINE S == {a} \cup L \cup R
           sub == [x \in Nodes |-> IF x = a THEN S ELSE IF x \in L THEN subl[x]
                                   ELSE IF x \in R THEN subr[x] ELSE {}]
<1>0. S \in SUBSET Procs /\ NULL \notin S
  BY NodesFacts DEF IsTree
<1>1. sub[NULL] = {} /\ sub[a] = S
  BY <1>0, NodesFacts
<1>2. \A x \in L : sub[x] = subl[x] /\ x \in subl[x] /\ subl[x] \subseteq L
  BY <1>0, NodesFacts, TreeFacts
<1>3. \A x \in R : sub[x] = subr[x] /\ x \in subr[x] /\ subr[x] \subseteq R
  BY <1>0, NodesFacts, TreeFacts
<1>4. /\ g.left[a] \in L \cup {NULL} /\ g.right[a] \in R \cup {NULL}
      /\ subl[NULL] = {} /\ subr[NULL] = {} /\ subl[g.left[a]] = L /\ subr[g.right[a]] = R
  BY DEF IsTree
<1> HIDE DEF sub
<1>5. sub[g.left[a]] = L /\ sub[g.right[a]] = R
  BY <1>1, <1>2, <1>3, <1>4
<1>6. ASSUME NEW p \in S
      PROVE  /\ g.left[p] \in S \cup {NULL} /\ g.right[p] \in S \cup {NULL}
             /\ sub[p] = {p} \cup sub[g.left[p]] \cup sub[g.right[p]]
             /\ p \notin sub[g.left[p]] /\ p \notin sub[g.right[p]]
             /\ sub[g.left[p]] \cap sub[g.right[p]] = {}
             /\ \A q \in sub[p] : sub[q] \subseteq sub[p]
  <2>1. CASE p = a
    BY <1>1, <1>2, <1>3, <1>4, <1>5, <2>1
  <2>2. CASE p \in L
    <3>1. /\ g.left[p] \in L \cup {NULL} /\ g.right[p] \in L \cup {NULL}
          /\ subl[p] = {p} \cup subl[g.left[p]] \cup subl[g.right[p]]
          /\ p \notin subl[g.left[p]] /\ p \notin subl[g.right[p]]
          /\ subl[g.left[p]] \cap subl[g.right[p]] = {}
          /\ \A q \in subl[p] : subl[q] \subseteq subl[p]
      BY <2>2 DEF IsTree
    <3>2. \A x \in L \cup {NULL} : sub[x] = subl[x]
      BY <1>1, <1>2, <1>4
    <3>3. subl[p] \subseteq L
      BY <1>2, <2>2
    <3>4. QED
      BY <2>2, <3>1, <3>2, <3>3
  <2>3. CASE p \in R
    <3>1. /\ g.left[p] \in R \cup {NULL} /\ g.right[p] \in R \cup {NULL}
          /\ subr[p] = {p} \cup subr[g.left[p]] \cup subr[g.right[p]]
          /\ p \notin subr[g.left[p]] /\ p \notin subr[g.right[p]]
          /\ subr[g.left[p]] \cap subr[g.right[p]] = {}
          /\ \A q \in subr[p] : subr[q] \subseteq subr[p]
      BY <2>3 DEF IsTree
    <3>2. \A x \in R \cup {NULL} : sub[x] = subr[x]
      BY <1>1, <1>3, <1>4
    <3>3. subr[p] \subseteq R
      BY <1>3, <2>3
    <3>4. QED
      BY <2>3, <3>1, <3>2, <3>3
  <2>4. QED
    BY <2>1, <2>2, <2>3
<1> HIDE DEF S
<1>7. a \in S
  BY DEF S
<1>8. IsTree(g, a, S, sub)
  BY ONLY <1>0, <1>1, <1>6, <1>7 DEF IsTree
<1>9. QED
  BY <1>8 DEF S
-----------------------------------------------------------------------------
(* Merging.                                                                *)

\* q does not come after p.
NotAfter(stride, q, p) == Signed(stride[p] - stride[q]) >= 0

Comparable(stride, S) == \A p, q \in S : Signed(stride[p] - stride[q]) \in Short

\* No node comes after the ones below it.
Ordered(stride, h, S) ==
    \A p \in S : \A c \in {h.left[p], h.right[p]} : c # NULL => NotAfter(stride, p, c)

\* m is what a merge of the trees a and b of the heap h must be, S the nodes of both.
Merged(stride, h, a, b, S, m) ==
    /\ m \in Heaps /\ m.root \in {a, b}
    /\ \E sub : IsTree(m, m.root, S, sub)
    /\ \A p \in Procs \ S : m.left[p] = h.left[p] /\ m.right[p] = h.right[p] /\ m.parent[p] = h.parent[p]
    /\ m.root # NULL => m.parent[m.root] = h.parent[m.root]
    /\ Comparable(stride, S) /\ Ordered(stride, h, S) => Ordered(stride, m, S)

\* p is put above the merge m of its right subtree and the tree of o.
LEMMA AboveMerged ==
    ASSUME NEW stride \in [Procs -> Int], NEW h \in Heaps, NEW sub,
           NEW p \in Procs, NEW o \in Procs,
           IsTree(h, p, sub[p], sub), IsTree(h, o, sub[o], sub), sub[p] \cap sub[o] = {},
           NEW m, Merged(stride, h, h.right[p], o, sub[h.right[p]] \cup sub[o], m),
           Comparable(stride, sub[p] \cup sub[o]) => NotAfter(stride, p, o)
    PROVE  /\ Above(h, p, m).root = p
           /\ Merged(stride, h, p, o, sub[p] \cup sub[o], Above(h, p, m))
<1> DEFINE l == h.left[p]
           r == h.right[p]
           R == sub[r] \cup sub[o]
           S == sub[p] \cup sub[o]
           g == Above(h, p, m)
<1>0. /\ p \in sub[p] /\ o \in sub[o] /\ l \in Nodes /\ r \in Nodes
      /\ sub[p] = {p} \cup sub[l] \cup sub[r] /\ p \notin sub[l] /\ p \notin sub[r]
      /\ sub[l] \cap sub[r] = {} /\ sub[l] \subseteq Procs /\ sub[r] \subseteq Procs
      /\ sub[p] \subseteq Procs /\ sub[o] \subseteq Procs
  <2>1. p \in sub[p] /\ o \in sub[o]
    BY NodesFacts, TreeFacts DEF IsTree
  <2>2. QED
    BY <2>1 DEF IsTree, Heaps, Nodes
<1>1. S = {p} \cup sub[l] \cup R /\ p \notin R /\ sub[l] \cap R = {} /\ R \subseteq Procs
  BY <1>0
<1>2. /\ m \in Heaps /\ m.root \in {r, o}
      /\ \E t : IsTree(m, m.root, R, t)
      /\ \A x \in Procs \ R : m.left[x] = h.left[x] /\ m.right[x] = h.right[x] /\ m.parent[x] = h.parent[x]
      /\ Comparable(stride, R) /\ Ordered(stride, h, R) => Ordered(stride, m, R)
  BY DEF Merged
<1>3. m.root \in R /\ m.root \in Procs
  <2>1. o \in R /\ R # {}
    BY <1>0
  <2>2. QED
    BY <1>1, <1>2, <2>1, TreeFacts DEF IsTree
<1>4. /\ g \in Heaps /\ g.root = p
      /\ g.left = [m.left EXCEPT ![p] = m.root] /\ g.right = [m.right EXCEPT ![p] = l]
      /\ g.parent = [m.parent EXCEPT ![m.root] = p]
  <2>1. m.root # NULL
    BY <1>3, NodesFacts
  <2>2. m.root \in Nodes /\ p \in Nodes /\ l \in Nodes
    BY <1>0, <1>3, NodesFacts
  <2>3. /\ m.left \in [Procs -> Nodes] /\ m.right \in [Procs -> Nodes] /\ m.parent \in [Procs -> Nodes]
    BY <1>2 DEF Heaps
  <2>4. /\ g.root = p
        /\ g.left = [m.left EXCEPT ![p] = m.root] /\ g.right = [m.right EXCEPT ![p] = l]
        /\ g.parent = [m.parent EXCEPT ![m.root] = p]
    BY <1>2, <2>1 DEF Above, Heaps
  <2>5. g \in Heaps
    BY <1>2, <2>1, <2>2, <2>3 DEF Above, Heaps
  <2>6. QED
    BY <2>4, <2>5
<1> HIDE DEF g
<1>5. /\ g.left[p] = m.root /\ g.right[p] = l
      /\ \A x \in Procs \ {p} : g.left[x] = m.left[x] /\ g.right[x] = m.right[x]
      /\ \A x \in Procs \ {m.root} : g.parent[x] = m.parent[x]
  BY <1>2, <1>3, <1>4 DEF Heaps
<1> HIDE DEF l, r, R, S
<1>6. \E t : IsTree(g, p, S, t)
  <2>1. PICK t : IsTree(m, m.root, R, t)
    BY <1>2
  <2>2. IsTree(g, g.left[p], R, t)
    <3>1. \A x \in R : g.left[x] = m.left[x] /\ g.right[x] = m.right[x]
      BY <1>1, <1>5
    <3>2. QED
      BY <1>5, <2>1, <3>1, TreeFrame
  <2>3. IsTree(g, g.right[p], sub[l], sub)
    <3>1. IsTree(h, l, sub[l], sub)
      BY <1>0, Subtree DEF l
    <3>2. \A x \in sub[l] : g.left[x] = h.left[x] /\ g.right[x] = h.right[x]
      BY <1>0, <1>1, <1>2, <1>5
    <3>3. QED
      BY <1>5, <3>1, <3>2, TreeFrame
  <2>4. \E u : IsTree(g, p, {p} \cup R \cup sub[l], u)
    BY ONLY <1>0, <1>1, <2>2, <2>3, TreeJoin, p \in Procs
  <2>5. {p} \cup R \cup sub[l] = S
    BY <1>1
  <2>6. QED
    BY <2>4, <2>5
<1>7. \A x \in Procs \ S : g.left[x] = h.left[x] /\ g.right[x] = h.right[x] /\ g.parent[x] = h.parent[x]
  BY <1>1, <1>2, <1>3, <1>5
<1>8. g.parent[p] = h.parent[p]
  BY <1>1, <1>2, <1>3, <1>5
<1>9. ASSUME Comparable(stride, S), Ordered(stride, h, S) PROVE Ordered(stride, g, S)
  <2>1. Comparable(stride, R) /\ Ordered(stride, h, R)
    BY <1>1, <1>9 DEF Comparable, Ordered
  <2>2. Ordered(stride, m, R)
    BY <1>2, <2>1
  <2>3. NotAfter(stride, p, o) /\ (r # NULL => NotAfter(stride, p, r)) /\ (l # NULL => NotAfter(stride, p, l))
    BY <1>1, <1>9 DEF Ordered, S, l, r
  <2>4. ASSUME NEW x \in S, NEW c \in {g.left[x], g.right[x]}, c # NULL PROVE NotAfter(stride, x, c)
    <3>1. CASE x = p
      BY <1>2, <1>5, <2>3, <2>4, <3>1
    <3>2. CASE x \in R
      <4>1. x # p /\ x \in Procs
        BY <1>1, <3>2
      <4>2. QED
        BY <1>5, <2>2, <2>4, <3>2, <4>1 DEF Ordered
    <3>3. CASE x \in sub[l]
      <4>1. x # p /\ x \in Procs /\ x \notin R
        BY <1>0, <1>1, <3>3
      <4>2. c \in {h.left[x], h.right[x]}
        BY <1>2, <1>5, <2>4, <4>1
      <4>3. QED
        BY <1>9, <2>4, <4>2 DEF Ordered
    <3>4. QED
      BY <1>1, <3>1, <3>2, <3>3
  <2>5. QED
    BY <2>4 DEF Ordered
<1>10. Merged(stride, h, p, o, S, g)
  BY <1>4, <1>6, <1>7, <1>8, <1>9 DEF Merged
<1>11. QED
  BY <1>4, <1>10 DEF g, S

\* What a call of skew_heap_merge does with the result of its inner call.
MergeRound(stride, h, p, q, inner) ==
    IF p = NULL THEN [h EXCEPT !.root = q]
    ELSE IF q = NULL THEN [h EXCEPT !.root = p]
    ELSE IF proc_stride_comp_f(stride, p, q) = -1 THEN Above(h, p, inner) ELSE Above(h, q, inner)

Inner(stride, h, p, q) ==
    IF p = NULL \/ q = NULL THEN <<NULL, NULL>>
    ELSE IF proc_stride_comp_f(stride, p, q) = -1 THEN <<h.right[p], q>> ELSE <<p, h.right[q]>>

\* f gives the results of all calls on pairs up to a depth of n.
MergeCalls(f, stride, h, rank, n) ==
    \A x \in Nodes \X Nodes : rank[x[1]] + rank[x[2]] <= n =>
        f[x] = MergeRound(stride, h, x[1], x[2], f[Inner(stride, h, x[1], x[2])])

IsFunctionOn(f, D) == f = [x \in D |-> f[x]]

LEMMA InnerSmaller ==
    ASSUME NEW stride, NEW h \in Heaps, NEW rank \in [Nodes -> Nat],
           \A p \in Procs : rank[h.right[p]] < rank[p],
           NEW x \in Nodes \X Nodes, x[1] # NULL, x[2] # NULL
    PROVE  LET y == Inner(stride, h, x[1], x[2])
           IN y \in Nodes \X Nodes /\ rank[y[1]] + rank[y[2]] < rank[x[1]] + rank[x[2]]
<1>1. x[1] \in Procs /\ x[2] \in Procs /\ x[1] \in Nodes /\ x[2] \in Nodes
  BY NodesFacts
<1>2. h.right[x[1]] \in Nodes /\ h.right[x[2]] \in Nodes
  BY <1>1 DEF Heaps
<1>3. /\ rank[h.right[x[1]]] < rank[x[1]] /\ rank[h.right[x[2]]] < rank[x[2]]
      /\ rank[x[1]] \in Nat /\ rank[x[2]] \in Nat
      /\ rank[h.right[x[1]]] \in Nat /\ rank[h.right[x[2]]] \in Nat
  BY <1>1, <1>2
<1>4. CASE proc_stride_comp_f(stride, x[1], x[2]) = -1
  <2>1. Inner(stride, h, x[1], x[2]) = <<h.right[x[1]], x[2]>>
    BY <1>1, <1>4, NodesFacts DEF Inner
  <2>2. QED
    BY <1>1, <1>2, <1>3, <2>1
<1>5. CASE proc_stride_comp_f(stride, x[1], x[2]) # -1
  <2>1. Inner(stride, h, x[1], x[2]) = <<x[1], h.right[x[2]]>>
    BY <1>1, <1>5, NodesFacts DEF Inner
  <2>2. QED
    BY <1>1, <1>2, <1>3, <2>1
<1>6. QED
  BY <1>4, <1>5

\* The result of a call that ends at once does not depend on an inner call.
LEMMA RoundLocal ==
    ASSUME NEW stride, NEW h, NEW p, NEW q, p = NULL \/ q = NULL, NEW u, NEW v
    PROVE  MergeRound(stride, h, p, q, u) = MergeRound(stride, h, p, q, v)
  BY DEF MergeRound

LEMMA MergeCallsExist ==
    ASSUME NEW stride, NEW h \in Heaps, NEW K \in Nat, NEW rank \in [Nodes -> 0..K],
           \A p \in Procs : rank[h.right[p]] < rank[p]
    PROVE  \E f : IsFunctionOn(f, Nodes \X Nodes) /\ MergeCalls(f, stride, h, rank, K + K)
<1> DEFINE D == Nodes \X Nodes
           r(x) == rank[x[1]] + rank[x[2]]
           Exist == {n \in 0..(K + K) : \E f : IsFunctionOn(f, D) /\ MergeCalls(f, stride, h, rank, n)}
           step(f, x) == MergeRound(stride, h, x[1], x[2], f[Inner(stride, h, x[1], x[2])])
<1>0. K + K \in Nat /\ rank \in [Nodes -> Nat]
  OBVIOUS
<1>1. ASSUME NEW x \in D PROVE r(x) \in Nat /\ r(x) <= K + K /\ x[1] \in Nodes /\ x[2] \in Nodes
  <2>1. rank[x[1]] \in 0..K /\ rank[x[2]] \in 0..K
    OBVIOUS
  <2>2. QED
    BY <2>1
<1>2. ASSUME NEW x \in D, x[1] # NULL, x[2] # NULL
      PROVE  Inner(stride, h, x[1], x[2]) \in D /\ r(Inner(stride, h, x[1], x[2])) < r(x)
  BY <1>0, <1>2, InnerSmaller
<1>3. ASSUME NEW f, IsFunctionOn(f, D), NEW n \in -1..(K + K), MergeCalls(f, stride, h, rank, n)
      PROVE  \E g : IsFunctionOn(g, D) /\ MergeCalls(g, stride, h, rank, n + 1)
  <2> DEFINE g == [x \in D |-> IF r(x) = n + 1 THEN step(f, x) ELSE f[x]]
  <2>1. IsFunctionOn(g, D)
    BY DEF IsFunctionOn
  <2>2. ASSUME NEW x \in D, r(x) <= n + 1 PROVE g[x] = step(g, x)
    <3>1. step(g, x) = step(f, x)
      <4>1. CASE x[1] # NULL /\ x[2] # NULL
        <5> DEFINE y == Inner(stride, h, x[1], x[2])
        <5>1. y \in D /\ r(y) < r(x) /\ r(y) \in Nat /\ r(x) \in Nat
          BY <1>1, <1>2, <4>1
        <5>2. r(y) # n + 1
          BY <2>2, <5>1
        <5>3. g[y] = f[y]
          BY <5>1, <5>2
        <5> HIDE DEF g
        <5>4. QED
          BY <5>3
      <4>2. CASE x[1] = NULL \/ x[2] = NULL
        <5> HIDE DEF g
        <5>1. QED
          BY <4>2, RoundLocal
      <4>3. QED
        BY <4>1, <4>2
    <3>2. CASE r(x) = n + 1
      <4>1. g[x] = step(f, x)
        BY <3>2
      <4> HIDE DEF g, step
      <4>2. QED
        BY <3>1, <4>1
    <3>3. CASE r(x) # n + 1
      <4>1. r(x) <= n
        BY <1>1, <2>2, <3>3
      <4>2. f[x] = step(f, x)
        BY <1>3, <4>1 DEF MergeCalls
      <4>3. g[x] = f[x]
        BY <3>3
      <4> HIDE DEF g, step
      <4>4. QED
        BY <3>1, <4>2, <4>3
    <3>4. QED
      BY <3>2, <3>3
  <2> HIDE DEF g
  <2>3. MergeCalls(g, stride, h, rank, n + 1)
    BY <2>2 DEF MergeCalls
  <2>4. QED
    BY <2>1, <2>3
<1>4. 0 \in Exist
  <2> DEFINE f == [x \in D |-> NULL]
  <2>1. IsFunctionOn(f, D)
    BY DEF IsFunctionOn
  <2>2. MergeCalls(f, stride, h, rank, -1)
    BY <1>1 DEF MergeCalls
  <2> HIDE DEF f
  <2>3. -1 \in -1..(K + K) /\ -1 + 1 = 0 /\ 0 \in 0..(K + K)
    BY <1>0
  <2>4. QED
    BY <1>3, <2>1, <2>2, <2>3
<1>5. ASSUME NEW n \in 0..(K + K - 1), n \in Exist PROVE n + 1 \in Exist
  <2>1. PICK f : IsFunctionOn(f, D) /\ MergeCalls(f, stride, h, rank, n)
    BY <1>5
  <2>2. n \in -1..(K + K) /\ n + 1 \in 0..(K + K)
    BY <1>0
  <2>3. QED
    BY <1>3, <2>1, <2>2
<1> HIDE DEF Exist
<1>6. \A n \in 0..(K + K) : n \in Exist
  BY ONLY <1>0, <1>4, <1>5, IntervalInduction
<1>7. K + K \in Exist
  BY <1>0, <1>6
<1>8. QED
  BY <1>7 DEF Exist

\* skew_heap_merge computes such results, for pairs of any depth.
LEMMA MergeRuns ==
    ASSUME NEW stride, NEW h \in Heaps, NEW K \in Nat, NEW rank \in [Nodes -> 0..K],
           \A p \in Procs : rank[h.right[p]] < rank[p],
           NEW a \in Nodes, NEW b \in Nodes
    PROVE  \E f : /\ skew_heap_merge(stride, h, a, b) = f[<<a, b>>]
                  /\ \A x \in Nodes \X Nodes :
                        f[x] = MergeRound(stride, h, x[1], x[2], f[Inner(stride, h, x[1], x[2])])
<1> DEFINE D == Nodes \X Nodes
           P(f) == f = [x \in D |->
                LET p == x[1]
                    q == x[2]
                IN IF p = NULL THEN [h EXCEPT !.root = q]
                   ELSE IF q = NULL THEN [h EXCEPT !.root = p]
                   ELSE IF proc_stride_comp_f(stride, p, q) = -1
                   THEN Above(h, p, f[<<h.right[p], q>>])
                   ELSE Above(h, q, f[<<p, h.right[q]>>])]
           Q(f) == f = [x \in D |-> MergeRound(stride, h, x[1], x[2], f[Inner(stride, h, x[1], x[2])])]
           calls == CHOOSE f : P(f)
<1>1. skew_heap_merge(stride, h, a, b) = calls[<<a, b>>]
  BY DEF skew_heap_merge
<1>2. ASSUME NEW f PROVE P(f) <=> Q(f)
  <2>1. ASSUME NEW x \in D
        PROVE  (LET p == x[1]
                    q == x[2]
                IN IF p = NULL THEN [h EXCEPT !.root = q]
                   ELSE IF q = NULL THEN [h EXCEPT !.root = p]
                   ELSE IF proc_stride_comp_f(stride, p, q) = -1
                   THEN Above(h, p, f[<<h.right[p], q>>])
                   ELSE Above(h, q, f[<<p, h.right[q]>>]))
               = MergeRound(stride, h, x[1], x[2], f[Inner(stride, h, x[1], x[2])])
    BY DEF MergeRound, Inner
  <2> HIDE DEF D
  <2>2. QED
    BY <2>1
<1> HIDE DEF P
<1>3. PICK f : IsFunctionOn(f, D) /\ MergeCalls(f, stride, h, rank, K + K)
  BY MergeCallsExist
<1>4. ASSUME NEW x \in D
      PROVE  f[x] = MergeRound(stride, h, x[1], x[2], f[Inner(stride, h, x[1], x[2])])
  <2>1. rank[x[1]] \in 0..K /\ rank[x[2]] \in 0..K
    OBVIOUS
  <2>2. rank[x[1]] + rank[x[2]] <= K + K
    BY <2>1
  <2>3. QED
    BY <1>3, <2>2 DEF MergeCalls
<1>5. Q(f)
  <2> DEFINE g == [x \in D |-> MergeRound(stride, h, x[1], x[2], f[Inner(stride, h, x[1], x[2])])]
  <2> HIDE DEF D
  <2>1. \A x \in D : f[x] = g[x]
    BY <1>4
  <2>2. g = [x \in D |-> g[x]]
    OBVIOUS
  <2> HIDE DEF g
  <2>3. f = g
    BY <1>3, <2>1, <2>2 DEF IsFunctionOn
  <2>4. QED
    BY <2>3 DEF g
<1>6. P(calls)
  BY <1>2, <1>5
<1> HIDE DEF calls
<1>7. Q(calls)
  BY <1>2, <1>6
<1>8. \A x \in D : calls[x] = MergeRound(stride, h, x[1], x[2], calls[Inner(stride, h, x[1], x[2])])
  BY <1>7
<1>9. QED
  BY <1>1, <1>8

LEMMA CompOrders ==
    ASSUME NEW stride \in [Procs -> Int], NEW p \in Procs, NEW q \in Procs
    PROVE  /\ proc_stride_comp_f(stride, p, q) # -1 => NotAfter(stride, q, p)
           /\ proc_stride_comp_f(stride, p, q) = -1 /\ Signed(stride[p] - stride[q]) \in Short
                => NotAfter(stride, p, q)
<1> DEFINE d == stride[p] - stride[q]
<1>1. d \in Int /\ stride[q] - stride[p] = -d
  OBVIOUS
<1>2. Signed(d) \in Int
  BY <1>1, SignedValue
<1>3. Signed(d) \in Short => Signed(-d) = -Signed(d)
  BY <1>1, SignedNeg
<1>4. proc_stride_comp_f(stride, p, q) = IF Signed(d) > 0 THEN 1 ELSE IF Signed(d) = 0 THEN 0 ELSE -1
  BY DEF proc_stride_comp_f
<1>5. NotAfter(stride, q, p) <=> Signed(d) >= 0
  BY DEF NotAfter
<1>6. NotAfter(stride, p, q) <=> Signed(-d) >= 0
  BY <1>1 DEF NotAfter
<1>7. Signed(d) \in Short => Signed(d) \in Int /\ Signed(-d) \in Int
  BY <1>1, <1>2, SignedValue
<1>8. QED
  BY ONLY <1>2, <1>3, <1>4, <1>5, <1>6, <1>7

LEMMA MergedSwap ==
    ASSUME NEW stride, NEW h, NEW a, NEW b, NEW A, NEW B, NEW m, Merged(stride, h, a, b, A \cup B, m)
    PROVE  Merged(stride, h, b, a, B \cup A, m)
<1>1. {a, b} = {b, a} /\ A \cup B = B \cup A
  OBVIOUS
<1>2. QED
  BY <1>1 DEF Merged

\* A merge with NULL.
LEMMA MergedAlone ==
    ASSUME NEW stride, NEW h \in Heaps, NEW a \in Nodes, NEW sub, IsTree(h, a, sub[a], sub)
    PROVE  Merged(stride, h, NULL, a, sub[NULL] \cup sub[a], [h EXCEPT !.root = a])
<1> DEFINE m == [h EXCEPT !.root = a]
<1>1. m \in Heaps /\ m.root = a /\ m.left = h.left /\ m.right = h.right /\ m.parent = h.parent
  BY DEF Heaps
<1> HIDE DEF m
<1>2. sub[NULL] \cup sub[a] = sub[a]
  BY DEF IsTree
<1>3. IsTree(m, a, sub[a], sub)
  BY <1>1, TreeFrame
<1>4. Ordered(stride, h, sub[a]) => Ordered(stride, m, sub[a])
  BY <1>1 DEF Ordered
<1>5. QED
  BY <1>1, <1>2, <1>3, <1>4 DEF Merged, m

\* skew_heap_merge of two trees that have no node in common.
LEMMA MergeCorrect ==
    ASSUME NEW stride \in [Procs -> Int], NEW h \in Heaps,
           NEW K \in Nat, NEW rank \in [Nodes -> 0..K], \A p \in Procs : rank[h.right[p]] < rank[p],
           NEW sub, NEW a \in Nodes, NEW b \in Nodes,
           IsTree(h, a, sub[a], sub), IsTree(h, b, sub[b], sub), sub[a] \cap sub[b] = {}
    PROVE  Merged(stride, h, a, b, sub[a] \cup sub[b], skew_heap_merge(stride, h, a, b))
<1>0. PICK f : /\ skew_heap_merge(stride, h, a, b) = f[<<a, b>>]
               /\ \A x \in Nodes \X Nodes :
                     f[x] = MergeRound(stride, h, x[1], x[2], f[Inner(stride, h, x[1], x[2])])
  BY MergeRuns
<1> DEFINE Trees(x) == IsTree(h, x[1], sub[x[1]], sub) /\ IsTree(h, x[2], sub[x[2]], sub)
                       /\ sub[x[1]] \cap sub[x[2]] = {}
           Good(x) == Merged(stride, h, x[1], x[2], sub[x[1]] \cup sub[x[2]], f[x])
           r(x) == rank[x[1]] + rank[x[2]]
           Done == {n \in 0..(K + K + 1) : \A x \in Nodes \X Nodes : Trees(x) /\ r(x) < n => Good(x)}
<1>1. K + K + 1 \in Nat /\ rank \in [Nodes -> Nat]
  OBVIOUS
<1>2. ASSUME NEW x \in Nodes \X Nodes PROVE r(x) \in Nat /\ r(x) < K + K + 1
  <2>1. rank[x[1]] \in 0..K /\ rank[x[2]] \in 0..K
    OBVIOUS
  <2>2. QED
    BY <2>1
<1>3. 0 \in Done
  <2>1. ASSUME NEW x \in Nodes \X Nodes, r(x) < 0 PROVE FALSE
    BY <1>2, <2>1
  <2>2. QED
    BY <1>1, <2>1
<1>4. ASSUME NEW n \in 0..(K + K), n \in Done PROVE n + 1 \in Done
  <2>1. ASSUME NEW x \in Nodes \X Nodes, Trees(x), r(x) < n + 1 PROVE Good(x)
    <3> DEFINE p == x[1]
               q == x[2]
               y == Inner(stride, h, p, q)
    <3>1. p \in Nodes /\ q \in Nodes
      OBVIOUS
    <3>2. f[x] = MergeRound(stride, h, p, q, f[y])
      BY <1>0
    <3>3. IsTree(h, p, sub[p], sub) /\ IsTree(h, q, sub[q], sub) /\ sub[p] \cap sub[q] = {}
      BY <2>1
    <3> SUFFICES Merged(stride, h, p, q, sub[p] \cup sub[q], f[x])
      OBVIOUS
    <3>4. ASSUME p # NULL, q # NULL
          PROVE  Merged(stride, h, y[1], y[2], sub[y[1]] \cup sub[y[2]], f[y]) \/ ~Trees(y)
      <4>1. y \in Nodes \X Nodes /\ r(y) < r(x)
        BY <1>1, <3>4, InnerSmaller
      <4>2. r(y) < n
        BY <1>2, <2>1, <4>1
      <4> HIDE DEF y
      <4>3. QED
        BY <1>4, <4>1, <4>2
    <3>5. y = Inner(stride, h, p, q)
      OBVIOUS
    <3> HIDE DEF p, q, y
    <3>6. CASE p = NULL
      <4>1. f[x] = [h EXCEPT !.root = q]
        BY <3>2, <3>6 DEF MergeRound
      <4>2. Merged(stride, h, NULL, q, sub[NULL] \cup sub[q], [h EXCEPT !.root = q])
        BY <3>1, <3>3, MergedAlone
      <4>3. QED
        BY ONLY <3>6, <4>1, <4>2
    <3>7. CASE p # NULL /\ q = NULL
      <4>1. f[x] = [h EXCEPT !.root = p]
        BY <3>2, <3>7 DEF MergeRound
      <4>2. Merged(stride, h, NULL, p, sub[NULL] \cup sub[p], [h EXCEPT !.root = p])
        BY <3>1, <3>3, MergedAlone
      <4>3. Merged(stride, h, q, p, sub[q] \cup sub[p], f[x])
        BY ONLY <3>7, <4>1, <4>2
      <4>4. QED
        BY <4>3, MergedSwap
    <3>8. CASE p # NULL /\ q # NULL
      <4>1. p \in Procs /\ q \in Procs
        BY <3>1, <3>8, NodesFacts
      <4>2. p \in sub[p] /\ q \in sub[q]
        BY <3>8, <3>3 DEF IsTree
      <4>3. IsTree(h, h.right[p], sub[h.right[p]], sub) /\ sub[h.right[p]] \subseteq sub[p]
        BY <3>3, <4>2, Subtree
      <4>4. IsTree(h, h.right[q], sub[h.right[q]], sub) /\ sub[h.right[q]] \subseteq sub[q]
        BY <3>3, <4>2, Subtree
      <4>5. CASE proc_stride_comp_f(stride, p, q) = -1
        <5>1. y = <<h.right[p], q>> /\ f[x] = Above(h, p, f[y])
          BY <3>2, <3>8, <3>5, <4>5 DEF MergeRound, Inner
        <5>2. y[1] = h.right[p] /\ y[2] = q
          BY <5>1
        <5>3. Trees(y)
          BY <3>3, <4>3, <5>2
        <5>4. Merged(stride, h, h.right[p], q, sub[h.right[p]] \cup sub[q], f[y])
          BY <3>8, <3>4, <5>2, <5>3
        <5>5. Comparable(stride, sub[p] \cup sub[q]) => NotAfter(stride, p, q)
          BY <4>1, <4>2, <4>5, CompOrders DEF Comparable
        <5>6. Merged(stride, h, p, q, sub[p] \cup sub[q], Above(h, p, f[y]))
          BY <3>3, <4>1, <5>4, <5>5, AboveMerged
        <5>7. QED
          BY <5>1, <5>6
      <4>6. CASE proc_stride_comp_f(stride, p, q) # -1
        <5>1. y = <<p, h.right[q]>> /\ f[x] = Above(h, q, f[y])
          BY <3>2, <3>8, <3>5, <4>6 DEF MergeRound, Inner
        <5>2. y[1] = p /\ y[2] = h.right[q]
          BY <5>1
        <5>3. Trees(y)
          BY <3>3, <4>4, <5>2
        <5>4. Merged(stride, h, p, h.right[q], sub[p] \cup sub[h.right[q]], f[y])
          BY <3>8, <3>4, <5>2, <5>3
        <5>5. Merged(stride, h, h.right[q], p, sub[h.right[q]] \cup sub[p], f[y])
          BY <5>4, MergedSwap
        <5>6. Comparable(stride, sub[q] \cup sub[p]) => NotAfter(stride, q, p)
          BY <4>1, <4>6, CompOrders
        <5>7. sub[q] \cap sub[p] = {}
          BY <3>3
        <5>8. Merged(stride, h, q, p, sub[q] \cup sub[p], Above(h, q, f[y]))
          BY <3>3, <4>1, <5>5, <5>6, <5>7, AboveMerged
        <5>9. QED
          BY <5>1, <5>8, MergedSwap
      <4>7. QED
        BY <4>5, <4>6
    <3>9. QED
      BY <3>6, <3>7, <3>8
  <2>2. n + 1 \in 0..(K + K + 1)
    BY <1>1
  <2>3. QED
    BY <2>1, <2>2
<1> HIDE DEF Done
<1>5. \A n \in 0..(K + K + 1) : n \in Done
  <2> DEFINE bound == K + K + 1
  <2>1. bound \in Nat /\ 0..(bound - 1) = 0..(K + K)
    BY <1>1
  <2>2. \A n \in 0..(bound - 1) : n \in Done => n + 1 \in Done
    BY <1>4, <2>1
  <2> HIDE DEF bound
  <2>3. \A n \in 0..bound : n \in Done
    BY ONLY <1>3, <2>1, <2>2, IntervalInduction
  <2>4. QED
    BY <2>3 DEF bound
<1>6. K + K + 1 \in Done
  BY <1>1, <1>5
<1>7. Good(<<a, b>>)
  <2>1. Trees(<<a, b>>) /\ <<a, b>> \in Nodes \X Nodes
    OBVIOUS
  <2>2. QED
    BY <1>2, <1>6, <2>1 DEF Done
<1>8. QED
  BY <1>0, <1>7
-----------------------------------------------------------------------------
(* The pool: a tree of the nodes S, nothing but NULL in the other nodes.   *)

Pool(h, S) ==
    /\ h \in Heaps
    /\ \E sub : IsTree(h, h.root, S, sub)
    /\ \A p \in Procs \ S : h.left[p] = NULL /\ h.right[p] = NULL /\ h.parent[p] = NULL
    /\ h.root # NULL => h.parent[h.root] = NULL

LEMMA ProcsFinite ==
    ASSUME NEW S \in SUBSET Procs
    PROVE  IsFiniteSet(S) /\ Cardinality(S) \in 0..Cardinality(Procs) /\ Cardinality(Procs) \in Nat
<1>1. IsFiniteSet(Procs)
  BY StrideAssumption
<1>2. IsFiniteSet(S) /\ Cardinality(S) <= Cardinality(Procs)
  BY <1>1, FS_Subset
<1>3. Cardinality(S) \in Nat /\ Cardinality(Procs) \in Nat
  BY <1>1, <1>2, FS_CardinalityType
<1>4. QED
  BY <1>2, <1>3

\* The nodes below a child are fewer.
LEMMA ChildSmaller ==
    ASSUME NEW h, NEW r, NEW S, NEW sub, IsTree(h, r, S, sub), NEW p \in S,
           NEW c \in {h.left[p], h.right[p]}
    PROVE  Cardinality(sub[c]) < Cardinality(sub[p])
<1>1. sub[c] \subseteq sub[p] /\ p \notin sub[c] /\ p \in sub[p] /\ sub[p] \subseteq Procs
  BY Subtree, TreeFacts DEF IsTree
<1>2. IsFiniteSet(sub[p]) /\ IsFiniteSet(sub[c]) /\ sub[c] \in SUBSET sub[p]
      /\ Cardinality(sub[p]) \in Nat /\ Cardinality(sub[c]) \in Nat
  BY <1>1, ProcsFinite
<1>3. Cardinality(sub[c]) <= Cardinality(sub[p])
      /\ (Cardinality(sub[p]) = Cardinality(sub[c]) => sub[p] = sub[c])
  BY <1>2, FS_Subset
<1>4. QED
  BY <1>1, <1>2, <1>3

\* What holds of a node when it holds of its children holds of all nodes.
LEMMA TreeInduction ==
    ASSUME NEW h, NEW r, NEW S, NEW sub, IsTree(h, r, S, sub), NEW C,
           \A p \in S : h.left[p] \in C \cup {NULL} /\ h.right[p] \in C \cup {NULL} => p \in C
    PROVE  S \subseteq C
<1> DEFINE bound == Cardinality(Procs) + 1
           Done == {n \in 0..bound : \A p \in S : Cardinality(sub[p]) < n => p \in C}
<1>0. bound \in Nat /\ bound - 1 = Cardinality(Procs)
  BY ProcsFinite
<1>1. \A p \in S : Cardinality(sub[p]) \in Nat /\ Cardinality(sub[p]) < bound
  <2> SUFFICES ASSUME NEW p \in S PROVE Cardinality(sub[p]) \in Nat /\ Cardinality(sub[p]) < bound
    OBVIOUS
  <2>1. sub[p] \in SUBSET Procs
    BY TreeFacts DEF IsTree
  <2>2. QED
    BY <2>1, ProcsFinite
<1>2. 0 \in Done
  BY <1>0, <1>1
<1>3. ASSUME NEW n \in 0..(bound - 1), n \in Done PROVE n + 1 \in Done
  <2>1. ASSUME NEW p \in S, Cardinality(sub[p]) < n + 1 PROVE p \in C
    <3>1. ASSUME NEW c \in {h.left[p], h.right[p]} PROVE c \in C \cup {NULL}
      <4>1. CASE c = NULL
        BY <4>1
      <4>2. CASE c # NULL
        <5>1. c \in S
          BY <4>2 DEF IsTree
        <5>2. Cardinality(sub[c]) < Cardinality(sub[p])
          BY ChildSmaller
        <5>3. Cardinality(sub[c]) < n
          BY <1>1, <2>1, <5>1, <5>2
        <5>4. QED
          BY <1>3, <5>1, <5>3
      <4>3. QED
        BY <4>1, <4>2
    <3>2. QED
      BY <3>1
  <2>2. QED
    BY <1>0, <2>1
<1> HIDE DEF bound
<1>4. \A n \in 0..bound : n \in Done
  <2> HIDE DEF Done
  <2>1. QED
    BY ONLY <1>0, <1>2, <1>3, IntervalInduction
<1>5. bound \in Done
  BY <1>0, <1>4
<1>6. QED
  BY <1>1, <1>5

LEMMA PoolRank ==
    ASSUME NEW h, NEW S, Pool(h, S)
    PROVE  \E K \in Nat : \E rank \in [Nodes -> 0..K] :
              \A p \in Procs : rank[h.right[p]] < rank[p]
<1> DEFINE K == Cardinality(Procs)
<1>1. PICK sub : IsTree(h, h.root, S, sub)
  BY DEF Pool
<1> DEFINE rank == [x \in Nodes |-> IF x \in S THEN Cardinality(sub[x])
                                    ELSE IF x = NULL THEN 0 ELSE 1]
<1>2. K \in Nat /\ S \subseteq Procs /\ NULL \notin S
  BY <1>1, ProcsFinite, TreeFacts DEF IsTree
<1>3. \A x \in Nodes : rank[x] \in 0..K
  <2> SUFFICES ASSUME NEW x \in Nodes PROVE rank[x] \in 0..K
    OBVIOUS
  <2>1. CASE x \in S
    <3>1. sub[x] \in SUBSET Procs
      BY <1>1, <2>1, TreeFacts DEF IsTree
    <3>2. QED
      BY <2>1, <3>1, ProcsFinite
  <2>2. CASE x \notin S /\ x # NULL
    <3>1. {x} \in SUBSET Procs
      BY <2>2, NodesFacts
    <3>2. Cardinality({x}) = 1
      BY FS_Singleton
    <3>3. 1 \in 0..K
      BY <3>1, <3>2, ProcsFinite
    <3>4. QED
      BY <2>2, <3>3
  <2>3. CASE x = NULL
    BY <1>2, <2>3
  <2>4. QED
    BY <2>1, <2>2, <2>3
<1>4. ASSUME NEW p \in Procs PROVE rank[h.right[p]] < rank[p]
  <2>1. p \in Nodes /\ NULL \in Nodes /\ p # NULL
    BY NodesFacts
  <2>2. CASE p \notin S
    <3>1. h.right[p] = NULL
      BY <2>2 DEF Pool
    <3>2. QED
      BY <1>2, <2>1, <2>2, <3>1
  <2>3. CASE p \in S
    <3>0. Cardinality(sub[h.right[p]]) < Cardinality(sub[p])
      BY <1>1, <2>3, ChildSmaller
    <3>1. sub[NULL] = {} /\ h.right[p] \in S \cup {NULL}
      BY <1>1, <2>3 DEF IsTree
    <3>2. Cardinality({}) = 0
      BY FS_EmptySet
    <3>3. h.right[p] \in Nodes
      BY <1>2, <2>1, <3>1, NodesFacts
    <3>4. CASE h.right[p] = NULL
      BY <1>2, <2>1, <2>3, <3>0, <3>1, <3>2, <3>4
    <3>5. CASE h.right[p] \in S
      BY <2>1, <2>3, <3>0, <3>3, <3>5
    <3>6. QED
      BY <3>1, <3>4, <3>5
  <2>4. QED
    BY <2>2, <2>3
<1>5. rank \in [Nodes -> 0..K]
  BY <1>3
<1>6. QED
  BY <1>2, <1>4, <1>5

\* Members gives the nodes of the pool.
LEMMA PoolMembers ==
    ASSUME NEW h, NEW S, Pool(h, S)
    PROVE  Members(h) = S
<1>1. PICK sub : IsTree(h, h.root, S, sub)
  BY DEF Pool
<1> DEFINE P(f) == f = [p \in Nodes |->
               IF p = NULL THEN {} ELSE {p} \cup f[h.left[p]] \cup f[h.right[p]]]
           g == [p \in Nodes |-> IF p \in S THEN sub[p] ELSE IF p = NULL THEN {} ELSE {p}]
           b == CHOOSE f : P(f)
<1>2. S \subseteq Procs /\ NULL \notin S /\ NULL \in Nodes /\ sub[NULL] = {} /\ sub[h.root] = S
      /\ h.root \in S \cup {NULL}
  BY <1>1, TreeFacts, NodesFacts DEF IsTree
<1>3. ASSUME NEW p \in Nodes
      PROVE  g[p] = IF p = NULL THEN {} ELSE {p} \cup g[h.left[p]] \cup g[h.right[p]]
  <2>1. CASE p = NULL
    BY <1>2, <2>1
  <2>2. CASE p # NULL /\ p \notin S
    <3>1. h.left[p] = NULL /\ h.right[p] = NULL
      BY <2>2, NodesFacts DEF Pool
    <3>2. QED
      BY <1>2, <2>2, <3>1
  <2>3. CASE p \in S
    <3>1. h.left[p] \in S \cup {NULL} /\ h.right[p] \in S \cup {NULL}
          /\ sub[p] = {p} \cup sub[h.left[p]] \cup sub[h.right[p]]
      BY <1>1, <2>3 DEF IsTree
    <3>2. \A x \in S \cup {NULL} : g[x] = sub[x]
      BY <1>2, NodesFacts
    <3>3. QED
      BY <1>2, <2>3, <3>1, <3>2
  <2>4. QED
    BY <2>1, <2>2, <2>3
<1>4. P(g)
  <2>1. g = [p \in Nodes |-> g[p]]
    OBVIOUS
  <2> HIDE DEF g
  <2>2. [p \in Nodes |-> g[p]]
        = [p \in Nodes |-> IF p = NULL THEN {} ELSE {p} \cup g[h.left[p]] \cup g[h.right[p]]]
    BY <1>3
  <2>3. QED
    BY <2>1, <2>2
<1>5. P(b)
  <2> HIDE DEF P, g
  <2>1. \E f : P(f)
    BY <1>4
  <2>2. QED
    BY <2>1
<1>6. Members(h) = b[h.root]
  BY DEF Members
<1> HIDE DEF b
<1>7. b[NULL] = {}
  BY <1>2, <1>5
<1> DEFINE C == {p \in S : b[p] = sub[p]}
<1>8. ASSUME NEW p \in S, h.left[p] \in C \cup {NULL}, h.right[p] \in C \cup {NULL}
      PROVE  p \in C
  <2>1. p \in Nodes /\ p # NULL
    BY <1>2, NodesFacts
  <2>2. b[p] = {p} \cup b[h.left[p]] \cup b[h.right[p]]
    BY <1>5, <2>1
  <2>3. b[h.left[p]] = sub[h.left[p]] /\ b[h.right[p]] = sub[h.right[p]]
    BY <1>2, <1>7, <1>8
  <2>4. sub[p] = {p} \cup sub[h.left[p]] \cup sub[h.right[p]]
    BY <1>1 DEF IsTree
  <2>5. QED
    BY <2>2, <2>3, <2>4
<1> HIDE DEF P, g
<1>9. S \subseteq C
  <2>1. \A p \in S : h.left[p] \in C \cup {NULL} /\ h.right[p] \in C \cup {NULL} => p \in C
    BY <1>8
  <2> HIDE DEF C
  <2>2. QED
    BY <1>1, <2>1, TreeInduction
<1>10. b[h.root] = sub[h.root]
  BY <1>2, <1>7, <1>9
<1>11. QED
  BY <1>2, <1>6, <1>10

\* The root comes before all others.
LEMMA RootLeast ==
    ASSUME NEW h, NEW S, Pool(h, S), NEW stride \in [Procs -> Int],
           Comparable(stride, S), Ordered(stride, h, S)
    PROVE  h.root # NULL => \A q \in S : NotAfter(stride, h.root, q)
<1>1. PICK sub : IsTree(h, h.root, S, sub)
  BY DEF Pool
<1> DEFINE C == {p \in S : \A q \in sub[p] : NotAfter(stride, p, q)}
<1>2. S \subseteq Procs /\ NULL \notin S /\ \A p \in S : sub[p] \subseteq S
  BY <1>1, TreeFacts DEF IsTree
<1>3. ASSUME NEW p \in S, h.left[p] \in C \cup {NULL}, h.right[p] \in C \cup {NULL}
      PROVE  p \in C
  <2>1. NotAfter(stride, p, p)
    <3>1. stride[p] - stride[p] = 0
      BY <1>2
    <3>2. Signed(0) = 0
      BY StrideAssumption DEF Signed
    <3>3. QED
      BY <3>1, <3>2 DEF NotAfter
  <2>2. ASSUME NEW c \in {h.left[p], h.right[p]}, NEW q \in sub[c] PROVE NotAfter(stride, p, q)
    <3>1. c # NULL /\ c \in C
      BY <1>1, <1>3, <2>2 DEF IsTree
    <3>2. NotAfter(stride, p, c) /\ NotAfter(stride, c, q)
      BY <2>2, <3>1 DEF Ordered
    <3>3. q \in S /\ c \in S
      BY <1>2, <2>2, <3>1
    <3> DEFINE d == stride[q] - stride[c]
               e == stride[c] - stride[p]
    <3>4. stride[q] \in Int /\ stride[c] \in Int /\ stride[p] \in Int
      BY <1>2, <3>3
    <3>5. d \in Int /\ e \in Int /\ stride[q] - stride[p] = d + e
      BY <3>4
    <3>6. Signed(d) \in Short /\ Signed(e) \in Short /\ Signed(d + e) \in Short
      BY <3>3, <3>5 DEF Comparable
    <3>7. Signed(d) >= 0 /\ Signed(e) >= 0
      BY <3>2 DEF NotAfter
    <3>8. Signed(d) \in Int /\ Signed(e) \in Int
      BY <3>5, SignedValue
    <3> HIDE DEF d, e
    <3>9. Signed(d + e) = Signed(d) + Signed(e)
      BY <3>5, <3>6, SignedAdd
    <3>10. QED
      BY <3>5, <3>7, <3>8, <3>9 DEF NotAfter
  <2>3. sub[p] = {p} \cup sub[h.left[p]] \cup sub[h.right[p]]
    BY <1>1 DEF IsTree
  <2>4. QED
    BY <2>1, <2>2, <2>3
<1>4. S \subseteq C
  <2>1. \A p \in S : h.left[p] \in C \cup {NULL} /\ h.right[p] \in C \cup {NULL} => p \in C
    BY <1>3
  <2> HIDE DEF C
  <2>2. QED
    BY <1>1, <2>1, TreeInduction
<1>5. h.root # NULL => h.root \in S /\ sub[h.root] = S
  BY <1>1 DEF IsTree
<1>6. QED
  BY <1>4, <1>5

LEMMA SameNumber == ASSUME NEW stride \in [Procs -> Int], NEW p \in Procs PROVE Signed(stride[p] - stride[p]) = 0
<1>1. stride[p] - stride[p] = 0
  OBVIOUS
<1>2. Signed(0) = 0
  BY StrideAssumption DEF Signed
<1>3. QED
  BY <1>1, <1>2

LEMMA InsertKeepsPool ==
    ASSUME NEW h, NEW S, Pool(h, S), NEW stride \in [Procs -> Int], NEW p \in Procs \ S
    PROVE  LET m == skew_heap_insert(stride, h, p)
           IN /\ Pool(m, S \cup {p})
              /\ Comparable(stride, S \cup {p}) /\ Ordered(stride, h, S)
                   => Ordered(stride, m, S \cup {p})
<1> DEFINE a == h.root
           m == skew_heap_merge(stride, h, a, p)
<1>1. PICK old : IsTree(h, a, S, old)
  BY DEF Pool
<1> DEFINE sub == [x \in Nodes |-> IF x = p THEN {p} ELSE IF x \in S THEN old[x] ELSE {}]
<1>2. /\ S \subseteq Procs /\ NULL \notin S /\ NULL \in Nodes /\ p # NULL /\ p \in Nodes
      /\ old[NULL] = {} /\ old[a] = S /\ a \in S \cup {NULL} /\ a \in Nodes
  BY <1>1, TreeFacts, NodesFacts DEF IsTree
<1>3. h \in Heaps /\ h.left[p] = NULL /\ h.right[p] = NULL /\ h.parent[p] = NULL
      /\ (a # NULL => h.parent[a] = NULL)
  BY DEF Pool
<1>4. skew_heap_insert(stride, h, p) = m
  <2>1. skew_heap_init(h, p) = h
    BY <1>3 DEF skew_heap_init, Heaps
  <2>2. QED
    BY <2>1 DEF skew_heap_insert
<1>5. sub[p] = {p} /\ sub[NULL] = {} /\ \A x \in S : sub[x] = old[x] /\ x # p
  BY <1>2, NodesFacts
<1>6. IsTree(h, a, sub[a], sub) /\ sub[a] = S
  <2>1. sub[a] = S
    BY <1>2, <1>5
  <2>2. ASSUME NEW x \in S PROVE
             /\ h.left[x] \in S \cup {NULL} /\ h.right[x] \in S \cup {NULL}
             /\ old[x] = {x} \cup old[h.left[x]] \cup old[h.right[x]]
             /\ x \notin old[h.left[x]] /\ x \notin old[h.right[x]]
             /\ old[h.left[x]] \cap old[h.right[x]] = {}
             /\ (\A q \in old[x] : old[q] \subseteq old[x]) /\ old[x] \subseteq S
    BY <1>1, TreeFacts DEF IsTree
  <2>3. \A x \in S \cup {NULL} : sub[x] = old[x]
    BY <1>2, <1>5
  <2> HIDE DEF sub
  <2>4. ASSUME NEW x \in S PROVE
             /\ h.left[x] \in S \cup {NULL} /\ h.right[x] \in S \cup {NULL}
             /\ sub[x] = {x} \cup sub[h.left[x]] \cup sub[h.right[x]]
             /\ x \notin sub[h.left[x]] /\ x \notin sub[h.right[x]]
             /\ sub[h.left[x]] \cap sub[h.right[x]] = {}
             /\ \A q \in sub[x] : sub[q] \subseteq sub[x]
    <3>1. sub[x] = old[x] /\ sub[h.left[x]] = old[h.left[x]] /\ sub[h.right[x]] = old[h.right[x]]
      BY <2>2, <2>3
    <3>2. \A q \in sub[x] : sub[q] = old[q]
      BY <2>2, <2>3, <3>1
    <3>3. QED
      BY <2>2, <3>1, <3>2
  <2>5. IsTree(h, a, S, sub)
    BY <1>2, <1>5, <2>1, <2>4 DEF IsTree
  <2>6. QED
    BY <2>1, <2>5
<1>7. IsTree(h, p, sub[p], sub)
  <2> HIDE DEF sub
  <2>1. QED
    BY <1>2, <1>3, <1>5 DEF IsTree
<1>8. Merged(stride, h, a, p, S \cup {p}, m)
  <2>1. PICK K \in Nat : \E rank \in [Nodes -> 0..K] : \A x \in Procs : rank[h.right[x]] < rank[x]
    BY PoolRank
  <2>2. PICK rank \in [Nodes -> 0..K] : \A x \in Procs : rank[h.right[x]] < rank[x]
    BY <2>1
  <2>3. sub[a] \cap sub[p] = {}
    BY <1>5, <1>6
  <2> HIDE DEF sub, m
  <2>4. Merged(stride, h, a, p, sub[a] \cup sub[p], skew_heap_merge(stride, h, a, p))
    BY <1>2, <1>3, <1>6, <1>7, <2>2, <2>3, MergeCorrect
  <2>5. QED
    BY <1>5, <1>6, <2>4 DEF m
<1> HIDE DEF m, sub
<1>9. Pool(m, S \cup {p})
  <2>1. m \in Heaps /\ \E s : IsTree(m, m.root, S \cup {p}, s)
    BY <1>8 DEF Merged
  <2>2. \A x \in Procs \ (S \cup {p}) : m.left[x] = NULL /\ m.right[x] = NULL /\ m.parent[x] = NULL
    <3>1. \A x \in Procs \ (S \cup {p}) :
             m.left[x] = h.left[x] /\ m.right[x] = h.right[x] /\ m.parent[x] = h.parent[x]
      BY <1>8 DEF Merged
    <3>2. QED
      BY <3>1 DEF Pool
  <2>3. m.root # NULL => m.parent[m.root] = NULL
    BY <1>3, <1>8 DEF Merged
  <2>4. QED
    BY <2>1, <2>2, <2>3 DEF Pool
<1>10. Comparable(stride, S \cup {p}) /\ Ordered(stride, h, S) => Ordered(stride, m, S \cup {p})
  <2>1. Ordered(stride, h, S) => Ordered(stride, h, S \cup {p})
    BY <1>3 DEF Ordered
  <2>2. QED
    BY <1>8, <2>1 DEF Merged
<1>11. QED
  BY <1>4, <1>9, <1>10

\* The root is removed.
LEMMA RemoveKeepsPool ==
    ASSUME NEW h, NEW S, Pool(h, S), NEW stride \in [Procs -> Int], h.root # NULL
    PROVE  LET g == skew_heap_remove(stride, h, h.root)
               R == S \ {h.root}
           IN /\ Pool(g, R)
              /\ Comparable(stride, R) /\ Ordered(stride, h, R) => Ordered(stride, g, R)
<1> DEFINE p == h.root
           R == S \ {p}
           l == h.left[p]
           r == h.right[p]
           m == skew_heap_merge(stride, h, l, r)
           g == skew_heap_remove(stride, h, p)
<1>1. PICK sub : IsTree(h, p, S, sub)
  BY DEF Pool
<1>2. /\ S \subseteq Procs /\ p \in S /\ p \in Procs /\ h \in Heaps /\ h.parent[p] = NULL
      /\ l \in Nodes /\ r \in Nodes
  BY <1>1, NodesFacts DEF IsTree, Pool, Heaps
<1>3. sub[l] \cup sub[r] = R /\ sub[l] \cap sub[r] = {}
  BY <1>1, <1>2 DEF IsTree
<1>4. IsTree(h, l, sub[l], sub) /\ IsTree(h, r, sub[r], sub)
  BY <1>1, <1>2, Subtree
<1>5. Merged(stride, h, l, r, R, m)
  <2>1. PICK K \in Nat : \E rank \in [Nodes -> 0..K] : \A x \in Procs : rank[h.right[x]] < rank[x]
    BY PoolRank
  <2>2. PICK rank \in [Nodes -> 0..K] : \A x \in Procs : rank[h.right[x]] < rank[x]
    BY <2>1
  <2> HIDE DEF l, r, R, m
  <2>3. Merged(stride, h, l, r, sub[l] \cup sub[r], skew_heap_merge(stride, h, l, r))
    BY <1>2, <1>3, <1>4, <2>2, MergeCorrect
  <2>4. QED
    BY <1>3, <2>3 DEF m
<1> HIDE DEF m
<1>6. m \in Heaps /\ m.root \in R \cup {NULL}
      /\ \A x \in Procs \ R : m.left[x] = h.left[x] /\ m.right[x] = h.right[x] /\ m.parent[x] = h.parent[x]
  <2>1. m \in Heaps /\ \E s : IsTree(m, m.root, R, s)
    BY <1>5 DEF Merged
  <2>2. m.root \in R \cup {NULL}
    BY <2>1 DEF IsTree
  <2>3. QED
    BY <1>5, <2>1, <2>2 DEF Merged
<1> DEFINE up == IF m.root = NULL THEN m.parent ELSE [m.parent EXCEPT ![m.root] = NULL]
<1> DEFINE w == [m EXCEPT !.root = m.root, !.left = m.left, !.right = m.right, !.parent = up]
<1>7. g = skew_heap_init(w, p)
  BY <1>2 DEF skew_heap_remove, m
<1> HIDE DEF g
<1>8. NULL \in Nodes /\ NULL \notin Procs
  BY NodesFacts
<1>9. /\ m.left \in [Procs -> Nodes] /\ m.right \in [Procs -> Nodes] /\ m.parent \in [Procs -> Nodes]
      /\ m.root \in Nodes /\ up \in [Procs -> Nodes]
  BY <1>2, <1>6, <1>8 DEF Heaps
<1>10. w \in Heaps /\ w.root = m.root /\ w.left = m.left /\ w.right = m.right /\ w.parent = up
  BY <1>6, <1>9 DEF Heaps
<1> HIDE DEF w
<1>11. /\ g \in Heaps /\ g.root = w.root /\ g.left = [w.left EXCEPT ![p] = NULL]
       /\ g.right = [w.right EXCEPT ![p] = NULL] /\ g.parent = [w.parent EXCEPT ![p] = NULL]
  BY <1>2, <1>7, <1>8, <1>10 DEF skew_heap_init, Heaps
<1>12. g.root = m.root /\ g.left[p] = NULL /\ g.right[p] = NULL /\ g.parent[p] = NULL
  BY <1>2, <1>9, <1>10, <1>11
<1>13. \A x \in Procs \ {p} :
          /\ g.left[x] = m.left[x] /\ g.right[x] = m.right[x]
          /\ g.parent[x] = IF x = m.root THEN NULL ELSE m.parent[x]
  BY <1>6, <1>8, <1>9, <1>10, <1>11
<1>14. Pool(g, R)
  <2>1. PICK s : IsTree(m, m.root, R, s)
    BY <1>5 DEF Merged
  <2>2. \A x \in R : g.left[x] = m.left[x] /\ g.right[x] = m.right[x]
    BY <1>2, <1>13
  <2>3. IsTree(g, g.root, R, s)
    BY <1>12, <2>1, <2>2, TreeFrame
  <2>4. ASSUME NEW x \in Procs \ R PROVE g.left[x] = NULL /\ g.right[x] = NULL /\ g.parent[x] = NULL
    <3>1. CASE x = p
      BY <1>12, <3>1
    <3>2. CASE x # p
      <4>1. h.left[x] = NULL /\ h.right[x] = NULL /\ h.parent[x] = NULL
        BY <3>2 DEF Pool
      <4>2. g.left[x] = m.left[x] /\ g.right[x] = m.right[x] /\ g.parent[x] \in {NULL, m.parent[x]}
        BY <1>13, <3>2
      <4>3. m.left[x] = h.left[x] /\ m.right[x] = h.right[x] /\ m.parent[x] = h.parent[x]
        BY <1>6
      <4>4. QED
        BY <4>1, <4>2, <4>3
    <3>3. QED
      BY <3>1, <3>2
  <2>5. g.root # NULL => g.parent[g.root] = NULL
    BY <1>2, <1>6, <1>12, <1>13
  <2>6. QED
    BY <1>11, <1>12, <2>3, <2>4, <2>5 DEF Pool
<1>15. Comparable(stride, R) /\ Ordered(stride, h, R) => Ordered(stride, g, R)
  <2>1. Comparable(stride, R) /\ Ordered(stride, h, R) => Ordered(stride, m, R)
    BY <1>5 DEF Merged
  <2>2. Ordered(stride, m, R) => Ordered(stride, g, R)
    BY <1>2, <1>13 DEF Ordered
  <2>3. QED
    BY <2>1, <2>2
<1>16. QED
  BY <1>14, <1>15 DEF g
-----------------------------------------------------------------------------
(* The run queue.                                                          *)

Counted(rq, S) ==
    Pool(rq.pool, S) /\ rq.num = Cardinality(S) /\ rq.stride \in [Procs -> Int]

\* the processes of S compare, and the pool is ordered
InOrder(rq, S) == Comparable(rq.stride, S) /\ Ordered(rq.stride, rq.pool, S)

LEMMA PassBounds == ASSUME NEW n \in Nat PROVE pass(n) \in 0..BIG_STRIDE
<1>0. BIG_STRIDE \in Nat
  BY StrideAssumption
<1>1. CASE n = 0
  BY <1>0, <1>1 DEF pass
<1>2. CASE n # 0
  <2> DEFINE q == BIG_STRIDE \div n
             r == BIG_STRIDE % n
  <2>1. q \in Int /\ r \in 0..(n - 1) /\ BIG_STRIDE = n * q + r
    BY ONLY <1>0, <1>2, n \in Nat
  <2> HIDE DEF q, r
  <2>2. q >= 0
    <3>1. SUFFICES ASSUME q <= -1 PROVE FALSE
      BY ONLY <2>1, <3>1
    <3>2. n * q <= n * (-1)
      BY ONLY <2>1, <3>1, n \in Nat
    <3>3. n * q \in Int
      BY ONLY <2>1, n \in Nat
    <3>4. QED
      BY ONLY <1>0, <2>1, <3>2, <3>3, n \in Nat
  <2>3. q <= BIG_STRIDE
    <3>1. 1 * q <= n * q
      BY ONLY <1>2, <2>1, <2>2, n \in Nat
    <3>2. n * q \in Int
      BY ONLY <2>1, n \in Nat
    <3>3. QED
      BY ONLY <1>0, <2>1, <3>1, <3>2
  <2>4. pass(n) = q
    BY <1>2 DEF pass, q
  <2>5. QED
    BY <1>0, <2>1, <2>2, <2>3, <2>4
<1>3. QED
  BY <1>1, <1>2

LEMMA EnqueueCounted ==
    ASSUME NEW rq, NEW S \in SUBSET Procs, Counted(rq, S), NEW p \in Procs \ S
    PROVE  LET q == stride_enqueue(rq, p)
           IN /\ Counted(q, S \cup {p}) /\ q.stride = rq.stride
              /\ Comparable(rq.stride, S \cup {p}) /\ InOrder(rq, S) => InOrder(q, S \cup {p})
<1> DEFINE q == stride_enqueue(rq, p)
           m == skew_heap_insert(rq.stride, rq.pool, p)
<1>1. q.pool = m /\ q.num = rq.num + 1 /\ q.stride = rq.stride
  BY DEF stride_enqueue
<1>2. Pool(rq.pool, S) /\ rq.num = Cardinality(S) /\ rq.stride \in [Procs -> Int]
  BY DEF Counted
<1>3. /\ Pool(m, S \cup {p})
      /\ Comparable(rq.stride, S \cup {p}) /\ Ordered(rq.stride, rq.pool, S)
           => Ordered(rq.stride, m, S \cup {p})
  BY <1>2, InsertKeepsPool
<1>4. Cardinality(S \cup {p}) = Cardinality(S) + 1
  BY ProcsFinite, FS_AddElement
<1> HIDE DEF q, m
<1>5. Counted(q, S \cup {p})
  BY <1>1, <1>2, <1>3, <1>4 DEF Counted
<1>6. Comparable(rq.stride, S \cup {p}) /\ InOrder(rq, S) => InOrder(q, S \cup {p})
  BY <1>1, <1>3 DEF InOrder
<1>7. QED
  BY <1>1, <1>5, <1>6 DEF q

\* The root is the one whose stride may advance: nobody's is behind it.
LEMMA PickCounted ==
    ASSUME NEW rq, NEW S \in SUBSET Procs, Counted(rq, S), rq.pool.root # NULL,
           lab6_priority \in [Procs -> Nat]
    PROVE  LET p == rq.pool.root
               r == pick_next(rq)
           IN /\ p \in S /\ Counted(r, S \ {p})
              /\ InOrder(rq, S) => Comparable(r.stride, S) /\ InOrder(r, S \ {p})
<1> DEFINE p == rq.pool.root
           c == pass(lab6_priority[p])
           h == rq.pool
           old == rq.stride
           new == [old EXCEPT ![p] = (@ + c) % Wrap]
           r == pick_next(rq)
           R == S \ {p}
           g == skew_heap_remove(new, h, p)
<1>1. Pool(h, S) /\ rq.num = Cardinality(S) /\ old \in [Procs -> Int]
  BY DEF Counted
<1>2. p \in S /\ p \in Procs
  <2>1. PICK sub : IsTree(h, p, S, sub)
    BY <1>1 DEF Pool
  <2>2. QED
    BY <2>1 DEF IsTree
<1>3. r.pool = g /\ r.num = rq.num - 1 /\ r.stride = new
  BY DEF pick_next
<1>4. c \in 0..BIG_STRIDE /\ c \in Int
  BY <1>2, PassBounds, StrideAssumption
<1>5. new \in [Procs -> Int] /\ (\A q \in Procs \ {p} : new[q] = old[q])
      /\ new[p] = (old[p] + c) % Wrap
  <2>1. (old[p] + c) % Wrap \in Int
    BY <1>1, <1>2, <1>4, StrideAssumption
  <2>2. QED
    BY <1>1, <1>2, <2>1
<1> HIDE DEF r, g, new, c
<1>6. Pool(g, R) /\ (Comparable(new, R) /\ Ordered(new, h, R) => Ordered(new, g, R))
  BY <1>1, <1>5, RemoveKeepsPool DEF g
<1>7. Cardinality(R) = Cardinality(S) - 1
  BY <1>2, ProcsFinite, FS_RemoveElement
<1>8. Counted(r, R)
  BY <1>1, <1>3, <1>5, <1>6, <1>7 DEF Counted
<1>9. ASSUME InOrder(rq, S) PROVE Comparable(new, S) /\ InOrder(r, R)
  <2>1. Comparable(old, S) /\ Ordered(old, h, S) /\ \A q \in S : NotAfter(old, p, q)
    BY <1>1, <1>9, RootLeast DEF InOrder
  <2>2. Comparable(new, S)
    <3>1. ASSUME NEW q \in R PROVE /\ Signed(new[p] - new[q]) \in Short
                                  /\ Signed(new[q] - new[p]) \in Short
      <4> DEFINE x == old[p]
                 y == old[q]
      <4>1. x \in Int /\ y \in Int /\ new[q] = y /\ new[p] = (x + c) % Wrap
            /\ new[p] \in Int
        BY <1>1, <1>2, <1>5
      <4>2. Signed(x - y) \in Short /\ Signed(y - x) \in Short /\ Signed(y - x) >= 0
        BY <1>2, <2>1 DEF Comparable, NotAfter
      <4> HIDE DEF x, y
      <4>3. x - y \in Int /\ y - x \in Int /\ x - y = -(y - x)
        BY <4>1
      <4>4. Signed(y - x) \in Int /\ Signed(x - y) = -Signed(y - x)
        BY <4>2, <4>3, SignedValue, SignedNeg
      <4>5. Signed(x - y) + c \in Short
        BY <1>4, <4>2, <4>4, StrideAssumption DEF Short
      <4>6. Signed(new[p] - new[q]) = Signed(x - y) + c
        <5>1. Signed(((x + c) % Wrap) - y) = Signed(x - y) + c
          BY <1>4, <4>1, <4>5, SignedAdvance
        <5>2. QED
          BY ONLY <4>1, <5>1
      <4>7. Signed(new[p] - new[q]) \in Short
        BY <4>5, <4>6
      <4>8. new[p] - new[q] \in Int /\ new[q] - new[p] = -(new[p] - new[q])
        BY <4>1
      <4>9. Signed(new[q] - new[p]) = -Signed(new[p] - new[q]) /\ Signed(new[p] - new[q]) \in Int
        BY <4>7, <4>8, SignedNeg, SignedValue
      <4>10. QED
        BY <4>7, <4>9, StrideAssumption DEF Short
    <3>2. Signed(new[p] - new[p]) \in Short
      BY <1>2, <1>5, SameNumber, StrideAssumption DEF Short
    <3>3. \A x, y \in R : Signed(new[x] - new[y]) \in Short
      BY <1>5, <2>1 DEF Comparable
    <3>4. QED
      BY <3>1, <3>2, <3>3 DEF Comparable
  <2>3. Comparable(new, R)
    BY <2>2 DEF Comparable
  <2>4. Ordered(new, h, R)
    <3>1. PICK sub : IsTree(h, p, S, sub)
      BY <1>1 DEF Pool
    <3>2. ASSUME NEW q \in R, NEW d \in {h.left[q], h.right[q]}, d # NULL PROVE NotAfter(new, q, d)
      <4>1. d \in S /\ NotAfter(old, q, d)
        BY <2>1, <3>1, <3>2 DEF IsTree, Ordered
      <4>2. d # p
        <5>1. sub[d] \subseteq sub[q] /\ q \in sub[q] /\ q \notin sub[d]
          BY <3>1, <3>2, Subtree, TreeFacts
        <5>2. sub[p] = S
          BY <3>1 DEF IsTree
        <5>3. QED
          BY <5>1, <5>2
      <4>3. new[q] = old[q] /\ new[d] = old[d]
        BY <1>5, <4>1, <4>2
      <4>4. QED
        BY <4>1, <4>3 DEF NotAfter
    <3>3. QED
      BY <3>2 DEF Ordered
  <2>5. QED
    BY <1>3, <1>6, <2>2, <2>3, <2>4 DEF InOrder
<1>10. QED
  BY <1>2, <1>3, <1>8, <1>9 DEF r

\* The processes schedule() may pick: those in the pool, and current if it stays.
ReadyFor(S, stays) == IF stays /\ current # IDLE THEN S \cup {current} ELSE S

LEMMA ScheduleCounted ==
    ASSUME NEW rq, NEW S \in SUBSET Procs, Counted(rq, S), current \in (Procs \ S) \cup {IDLE},
           lab6_priority \in [Procs -> Nat], NEW stays \in BOOLEAN, schedule(rq, stays)
    PROVE  LET Q == ReadyFor(S, stays)
           IN /\ current' \in Q \cup {IDLE}
              /\ Counted(Rq', Q \ {current'})
              /\ Comparable(rq.stride, Q) /\ InOrder(rq, S)
                   => Comparable(lab6_stride', Q) /\ InOrder(Rq', Q \ {current'})
<1> DEFINE Q == ReadyFor(S, stays)
           q == IF stays /\ current # IDLE THEN stride_enqueue(rq, current) ELSE rq
           r == IF q.pool.root = NULL THEN q ELSE pick_next(q)
<1>1. /\ lab6_run_pool' = r.pool /\ proc_num' = r.num /\ lab6_stride' = r.stride
      /\ current' = IF q.pool.root = NULL THEN IDLE ELSE q.pool.root
  BY DEF schedule
<1>2. Q \in SUBSET Procs
  BY DEF ReadyFor
<1>3. /\ Counted(q, Q) /\ q.stride = rq.stride
      /\ Comparable(rq.stride, Q) /\ InOrder(rq, S) => InOrder(q, Q)
  <2>1. CASE stays /\ current # IDLE
    <3>1. current \in Procs \ S /\ q = stride_enqueue(rq, current) /\ Q = S \cup {current}
      BY <2>1 DEF ReadyFor
    <3>2. QED
      BY <3>1, EnqueueCounted
  <2>2. CASE ~(stays /\ current # IDLE)
    <3>1. q = rq /\ Q = S
      BY <2>2 DEF ReadyFor
    <3>2. QED
      BY <3>1
  <2>3. QED
    BY <2>1, <2>2
<1>4. Rq'.pool = r.pool /\ Rq'.num = r.num /\ Rq'.stride = r.stride
  BY <1>1 DEF Rq
<1> HIDE DEF Q, q
<1>5. CASE q.pool.root = NULL
  <2>1. Q = {}
    BY <1>3, <1>5, TreeFacts DEF Counted, Pool
  <2>2. r = q /\ current' = IDLE /\ Q \ {current'} = Q
    BY <1>1, <1>5, <2>1
  <2>3. Counted(Rq', Q)
    BY <1>3, <1>4, <2>2 DEF Counted
  <2>4. InOrder(q, Q) => Comparable(lab6_stride', Q) /\ InOrder(Rq', Q)
    BY <1>1, <1>4, <2>2 DEF InOrder
  <2>5. QED
    BY <1>3, <2>2, <2>3, <2>4 DEF Q
<1>6. CASE q.pool.root # NULL
  <2>1. r = pick_next(q) /\ current' = q.pool.root
    BY <1>1, <1>6
  <2>2. /\ current' \in Q /\ Counted(r, Q \ {current'})
        /\ InOrder(q, Q) => Comparable(r.stride, Q) /\ InOrder(r, Q \ {current'})
    BY <1>2, <1>3, <1>6, <2>1, PickCounted
  <2> HIDE DEF r
  <2>3. Counted(Rq', Q \ {current'})
    BY <1>4, <2>2 DEF Counted
  <2>4. InOrder(r, Q \ {current'}) => InOrder(Rq', Q \ {current'})
    BY <1>4 DEF InOrder
  <2>5. QED
    BY <1>1, <1>3, <2>2, <2>3, <2>4 DEF Q
<1>7. QED
  BY <1>5, <1>6
-----------------------------------------------------------------------------
(* The invariant.                                                          *)

Waiting == Queued \ {current}

StrideInv ==
    /\ current \in Procs \cup {IDLE}
    /\ state \in [Procs -> {"none", "RUNNABLE", "SLEEPING"}]
    /\ current # IDLE => state[current] = "RUNNABLE"
    /\ lab6_priority \in [Procs -> Nat]
    /\ steady \in BOOLEAN
    /\ Counted(Rq, Waiting)
    /\ steady => Comparable(lab6_stride, Queued) /\ InOrder(Rq, Waiting)

LEMMA StrideFacts ==
    ASSUME StrideInv
    PROVE  /\ Waiting \in SUBSET Procs /\ Queued \in SUBSET Procs
           /\ lab6_stride \in [Procs -> Int] /\ current \in (Procs \ Waiting) \cup {IDLE}
           /\ Queued = ReadyFor(Waiting, TRUE) /\ Waiting = ReadyFor(Waiting, FALSE)
           /\ Rq.stride = lab6_stride /\ IDLE \notin Procs
<1>1. Waiting \in SUBSET Procs /\ Queued \in SUBSET Procs /\ IDLE \notin Procs
  BY StrideAssumption DEF Waiting, Queued
<1>2. Rq.stride = lab6_stride /\ lab6_stride \in [Procs -> Int]
  BY DEF StrideInv, Counted, Rq
<1>3. current \in (Procs \ Waiting) \cup {IDLE}
  BY DEF StrideInv, Waiting
<1>4. Queued = Waiting \cup ({current} \cap Procs)
  BY <1>1 DEF StrideInv, Queued, Waiting
<1>5. Queued = ReadyFor(Waiting, TRUE)
  BY <1>1, <1>4 DEF StrideInv, ReadyFor
<1>6. QED
  BY <1>1, <1>2, <1>3, <1>5 DEF ReadyFor

\* schedule() on a run queue with other slices, and another stride of current if it goes.
LEMMA ScheduleInv ==
    ASSUME StrideInv, NEW rq, NEW stays \in BOOLEAN, schedule(rq, stays),
           rq.pool = lab6_run_pool, rq.num = proc_num, rq.stride \in [Procs -> Int],
           \A p \in Procs : p # current \/ stays => rq.stride[p] = lab6_stride[p],
           Queued' = ReadyFor(Waiting, stays),
           state' \in [Procs -> {"none", "RUNNABLE", "SLEEPING"}],
           lab6_priority' \in [Procs -> Nat], steady' = steady
    PROVE  StrideInv'
<1> DEFINE Q == ReadyFor(Waiting, stays)
<1>1. Counted(rq, Waiting)
  BY DEF StrideInv, Counted, Rq
<1>2. lab6_priority \in [Procs -> Nat]
  BY DEF StrideInv
<1>3. /\ current' \in Q \cup {IDLE}
      /\ Counted(Rq', Q \ {current'})
      /\ Comparable(rq.stride, Q) /\ InOrder(rq, Waiting)
           => Comparable(lab6_stride', Q) /\ InOrder(Rq', Q \ {current'})
  BY <1>1, <1>2, StrideFacts, ScheduleCounted
<1>4. ASSUME steady PROVE Comparable(rq.stride, Q) /\ InOrder(rq, Waiting)
  <2>1. Comparable(lab6_stride, Queued) /\ Ordered(lab6_stride, lab6_run_pool, Waiting)
    BY <1>4 DEF StrideInv, InOrder, Rq
  <2>2. Q \subseteq Queued /\ Waiting \subseteq Queued /\ Waiting \subseteq Q
        /\ \A p \in Q : p \in Procs /\ rq.stride[p] = lab6_stride[p]
    BY StrideFacts DEF ReadyFor, Waiting
  <2>3. Comparable(rq.stride, Q) /\ Comparable(rq.stride, Waiting)
    BY <2>1, <2>2 DEF Comparable
  <2>4. Ordered(rq.stride, lab6_run_pool, Waiting)
    <3>1. PICK sub : IsTree(lab6_run_pool, lab6_run_pool.root, Waiting, sub)
      BY DEF StrideInv, Counted, Pool, Rq
    <3>2. \A p \in Waiting : \A c \in {lab6_run_pool.left[p], lab6_run_pool.right[p]} :
             c # NULL => c \in Waiting
      BY <3>1 DEF IsTree
    <3>3. QED
      BY <2>1, <2>2, <3>2 DEF Ordered, NotAfter
  <2>5. QED
    BY <2>3, <2>4 DEF InOrder
<1> HIDE DEF Q
<1>5. Waiting' = Q \ {current'} /\ Queued' = Q
  BY DEF Waiting, Q
<1>6. current' \in Procs \cup {IDLE} /\ (current' # IDLE => state'[current'] = "RUNNABLE")
  BY <1>3, <1>5 DEF Queued
<1>7. Counted(Rq, Waiting)'
  BY <1>3, <1>5 DEF Counted, Rq
<1>8. steady' => (Comparable(lab6_stride, Queued) /\ InOrder(Rq, Waiting))'
  BY <1>3, <1>4, <1>5 DEF InOrder, Rq
<1>9. steady' \in BOOLEAN
  BY DEF StrideInv
<1>10. QED
  BY <1>6, <1>7, <1>8, <1>9 DEF StrideInv

LEMMA EnterInv ==
    ASSUME StrideInv, NEW p \in Procs, state[p] # "RUNNABLE", enter(p),
           UNCHANGED <<current, lab6_priority>>
    PROVE  StrideInv'
<1> DEFINE q == stride_enqueue(Rq, p)
           Q == Queued \cup {p}
<1>1. p \in Procs \ Waiting /\ p # current /\ p \notin Queued /\ Waiting \in SUBSET Procs
      /\ Queued \in SUBSET Procs /\ lab6_stride \in [Procs -> Int]
  BY StrideFacts DEF StrideInv, Waiting, Queued
<1>2. state' \in [Procs -> {"none", "RUNNABLE", "SLEEPING"}]
      /\ Queued' = Q /\ Waiting' = Waiting \cup {p}
  BY <1>1 DEF StrideInv, enter, Queued, Waiting
<1>3. Counted(Rq, Waiting)
  BY DEF StrideInv
<1>4. /\ Counted(q, Waiting \cup {p}) /\ q.stride = lab6_stride
      /\ Comparable(lab6_stride, Waiting \cup {p}) /\ InOrder(Rq, Waiting)
           => InOrder(q, Waiting \cup {p})
  BY <1>1, <1>3, StrideFacts, EnqueueCounted
<1>5. lab6_run_pool' = q.pool /\ proc_num' = q.num /\ lab6_stride' = lab6_stride
  BY DEF enter
<1> HIDE DEF q
<1>6. Counted(Rq, Waiting)'
  BY <1>2, <1>4, <1>5 DEF Counted, Rq
<1>7. steady' = (steady /\ \A x \in Procs : state[x] = "RUNNABLE" => Near(p, x))
  BY DEF enter
<1>8. ASSUME steady' PROVE (Comparable(lab6_stride, Queued) /\ InOrder(Rq, Waiting))'
  <2>1. steady /\ \A x \in Queued : Signed(lab6_stride[p] - lab6_stride[x]) \in Short
    BY <1>7, <1>8 DEF Queued, Near, Short
  <2>2. \A x \in Queued : Signed(lab6_stride[x] - lab6_stride[p]) \in Short
    <3> SUFFICES ASSUME NEW x \in Queued PROVE Signed(lab6_stride[x] - lab6_stride[p]) \in Short
      OBVIOUS
    <3> DEFINE d == lab6_stride[p] - lab6_stride[x]
    <3>1. d \in Int /\ lab6_stride[x] - lab6_stride[p] = -d
      BY <1>1
    <3>2. Signed(d) \in Short
      BY <2>1
    <3> HIDE DEF d
    <3>3. Signed(-d) = -Signed(d) /\ Signed(d) \in Int
      BY <3>1, <3>2, SignedNeg, SignedValue
    <3>4. QED
      BY <3>1, <3>2, <3>3, StrideAssumption DEF Short
  <2>3. Signed(lab6_stride[p] - lab6_stride[p]) \in Short
    BY <1>1, SameNumber, StrideAssumption DEF Short
  <2>4. Comparable(lab6_stride, Queued) /\ InOrder(Rq, Waiting)
    BY <2>1 DEF StrideInv
  <2>5. Comparable(lab6_stride, Q)
    BY <2>1, <2>2, <2>3, <2>4 DEF Comparable
  <2>6. Comparable(lab6_stride, Waiting \cup {p})
    BY <2>5 DEF Comparable, Waiting
  <2>7. InOrder(q, Waiting \cup {p})
    BY <1>4, <2>4, <2>6
  <2> HIDE DEF Q
  <2>8. QED
    BY <1>2, <1>4, <1>5, <2>5, <2>7 DEF InOrder, Rq
<1>9. steady' \in BOOLEAN
  BY <1>7 DEF StrideInv
<1>10. QED
  BY <1>2, <1>6, <1>8, <1>9 DEF StrideInv, enter

LEMMA StrideInitInv == StrideInit => StrideInv
<1> SUFFICES ASSUME StrideInit PROVE StrideInv
  OBVIOUS
<1> DEFINE sub == [x \in Nodes |-> {}]
<1>1. init \in Procs /\ NULL \in Nodes /\ IDLE \notin Procs /\ Wrap \in Nat
  BY StrideAssumption, NodesFacts
<1>2. Queued = {init} /\ Waiting = {}
  BY <1>1 DEF StrideInit, Queued, Waiting
<1>3. lab6_run_pool \in Heaps /\ lab6_run_pool.root = NULL
      /\ \A p \in Procs : /\ lab6_run_pool.left[p] = NULL /\ lab6_run_pool.right[p] = NULL
                          /\ lab6_run_pool.parent[p] = NULL
  BY <1>1 DEF StrideInit, Heaps
<1>4. IsTree(lab6_run_pool, NULL, {}, sub)
  BY <1>1 DEF IsTree
<1>5. Counted(Rq, {})
  <2>1. Pool(lab6_run_pool, {})
    BY <1>3, <1>4 DEF Pool
  <2>2. proc_num = Cardinality({}) /\ lab6_stride \in [Procs -> Int]
    BY FS_EmptySet DEF StrideInit
  <2>3. QED
    BY <2>1, <2>2 DEF Counted, Rq
<1>6. Comparable(lab6_stride, {init})
  <2>1. lab6_stride \in [Procs -> Int]
    BY DEF StrideInit
  <2>2. QED
    BY <1>1, <2>1, SameNumber, StrideAssumption DEF Comparable, Short
<1>7. InOrder(Rq, {})
  BY DEF InOrder, Comparable, Ordered
<1>8. QED
  BY <1>1, <1>2, <1>5, <1>6, <1>7 DEF StrideInv, StrideInit

LEMMA StrideStep ==
    ASSUME StrideInv, [StrideNext]_stride_vars
    PROVE  StrideInv'
<1> DEFINE States == [Procs -> {"none", "RUNNABLE", "SLEEPING"}]
<1>0. state \in States /\ lab6_priority \in [Procs -> Nat] /\ (current # IDLE => current \in Procs)
      /\ Waiting = Queued \ {current} /\ lab6_stride \in [Procs -> Int]
      /\ Queued = ReadyFor(Waiting, TRUE) /\ Waiting = ReadyFor(Waiting, FALSE)
  BY StrideFacts DEF StrideInv, Waiting
<1>1. CASE tick
  <2> DEFINE rest == IF current = IDLE THEN 0 ELSE Max({time_slice[current] - 1, 0})
             rq == IF current = IDLE THEN Rq ELSE [Rq EXCEPT !.slice[current] = rest]
  <2>1. rq.pool = lab6_run_pool /\ rq.num = proc_num /\ rq.stride = lab6_stride
    BY DEF Rq
  <2>2. UNCHANGED <<state, lab6_priority, steady>> /\ Queued' = Queued
    BY <1>1 DEF tick, Queued
  <2>3. CASE rest = 0
    <3>1. schedule(rq, TRUE)
      BY <1>1, <2>3 DEF tick
    <3> HIDE DEF rq, rest
    <3>2. QED
      BY <1>0, <2>1, <2>2, <3>1, ScheduleInv
  <2>4. CASE rest # 0
    <3>1. UNCHANGED <<current, lab6_stride, lab6_run_pool, proc_num>>
      BY <1>1, <2>4 DEF tick
    <3> HIDE DEF rq, rest
    <3>2. QED
      BY <2>2, <3>1
         DEF StrideInv, Waiting, Queued, Counted, InOrder, Comparable, Ordered, NotAfter, Rq
  <2>5. QED
    BY <2>3, <2>4
<1>2. CASE do_yield
  <2>1. schedule(Rq, TRUE) /\ UNCHANGED <<state, lab6_priority, steady>> /\ Queued' = Queued
    BY <1>2 DEF do_yield, Queued
  <2>2. Rq.pool = lab6_run_pool /\ Rq.num = proc_num /\ Rq.stride = lab6_stride
    BY DEF Rq
  <2>3. QED
    BY <1>0, <2>1, <2>2, ScheduleInv
<1>3. CASE sleep
  <2>1. /\ current # IDLE /\ state' = [state EXCEPT ![current] = "SLEEPING"]
        /\ schedule(Rq, FALSE) /\ UNCHANGED <<lab6_priority, steady>>
    BY <1>3 DEF sleep
  <2>2. state' \in States /\ Queued' = Waiting
    BY <1>0, <2>1 DEF Queued
  <2>3. Rq.pool = lab6_run_pool /\ Rq.num = proc_num /\ Rq.stride = lab6_stride
    BY DEF Rq
  <2>4. QED
    BY <1>0, <2>1, <2>2, <2>3, ScheduleInv
<1>4. CASE do_exit
  <2> DEFINE rq == [Rq EXCEPT !.stride[current] = 0, !.slice[current] = 0]
  <2>1. /\ current # IDLE /\ state' = [state EXCEPT ![current] = "none"]
        /\ lab6_priority' = [lab6_priority EXCEPT ![current] = 0]
        /\ schedule(rq, FALSE) /\ UNCHANGED steady
    BY <1>4 DEF do_exit
  <2>2. state' \in States /\ Queued' = Waiting /\ lab6_priority' \in [Procs -> Nat]
    BY <1>0, <2>1 DEF Queued
  <2>3. /\ rq.pool = lab6_run_pool /\ rq.num = proc_num
        /\ rq.stride = [lab6_stride EXCEPT ![current] = 0]
    BY DEF Rq
  <2>4. rq.stride \in [Procs -> Int] /\ \A p \in Procs : p # current => rq.stride[p] = lab6_stride[p]
    <3> HIDE DEF rq
    <3>1. rq.stride \in [Procs -> Int]
      BY <1>0, <2>1, <2>3
    <3>2. \A p \in Procs : p # current => rq.stride[p] = lab6_stride[p]
      BY <1>0, <2>1, <2>3
    <3>3. QED
      BY <3>1, <3>2
  <2> HIDE DEF rq
  <2>5. QED
    BY <1>0, <2>1, <2>2, <2>3, <2>4, ScheduleInv
<1>5. ASSUME NEW n \in Priorities, lab6_set_priority(n) PROVE StrideInv'
  <2>1. lab6_priority' \in [Procs -> Nat]
        /\ UNCHANGED <<current, state, lab6_stride, lab6_run_pool, proc_num, steady>>
    BY <1>0, <1>5, StrideAssumption DEF lab6_set_priority
  <2>2. QED
    BY <2>1 DEF StrideInv, Waiting, Queued, Counted, InOrder, Comparable, Ordered, NotAfter, Rq
<1>6. ASSUME NEW p \in Procs, wakeup_proc(p) PROVE StrideInv'
  BY <1>6, EnterInv DEF wakeup_proc
<1>7. ASSUME NEW p \in Procs, do_fork(p) PROVE StrideInv'
  BY <1>7, EnterInv DEF do_fork
<1>8. CASE UNCHANGED stride_vars
  BY <1>8 DEF StrideInv, Waiting, Queued, Counted, InOrder, Comparable, Ordered, NotAfter, Rq,
              stride_vars
<1>9. QED
  BY <1>1, <1>2, <1>3, <1>4, <1>5, <1>6, <1>7, <1>8 DEF StrideNext

LEMMA StrideInvariant == StrideSpec => []StrideInv
<1>1. QED
  BY StrideInitInv, StrideStep, PTL DEF StrideSpec

\* No merge loses a process, or keeps one twice: after every insertion and every removal
\* of the root the heap holds those that are ready and not running, and proc_num counts
\* them.
THEOREM PoolHoldsTheReady == StrideSpec => []PoolExact
<1>1. StrideInv => PoolExact
  <2> SUFFICES ASSUME StrideInv PROVE PoolExact
    OBVIOUS
  <2>1. Pool(lab6_run_pool, Waiting) /\ proc_num = Cardinality(Waiting)
    BY DEF StrideInv, Counted, Rq
  <2>2. Members(lab6_run_pool) = Waiting
    BY <2>1, PoolMembers
  <2>3. Waiting = {p \in Procs : state[p] = "RUNNABLE" /\ p # current}
    BY DEF Waiting, Queued
  <2>4. QED
    BY <2>1, <2>2, <2>3 DEF PoolExact
<1>2. QED
  BY <1>1, StrideInvariant, PTL

\* Strides that wrap around still order the processes: while nobody joins with a stride
\* too old, those of the runnable ones are within BIG_STRIDE of each other by their
\* signed differences, and none of the pool is before its root.
THEOREM StridesCompare == StrideSpec => []StridesInWindow
<1>1. StrideInv => StridesInWindow
  <2> SUFFICES ASSUME StrideInv, steady PROVE StridesInWindow
    BY DEF StridesInWindow
  <2>1. /\ Pool(lab6_run_pool, Waiting) /\ Comparable(lab6_stride, Queued)
        /\ Comparable(lab6_stride, Waiting) /\ Ordered(lab6_stride, lab6_run_pool, Waiting)
        /\ lab6_stride \in [Procs -> Int]
    BY DEF StrideInv, Counted, InOrder, Rq
  <2>2. \A p, q \in Queued : Near(p, q)
    BY <2>1 DEF Comparable, Near, Short
  <2>3. lab6_run_pool.root # NULL => \A q \in Waiting : NotAfter(lab6_stride, lab6_run_pool.root, q)
    BY <2>1, RootLeast
  <2>4. Members(lab6_run_pool) = Waiting
    BY <2>1, PoolMembers
  <2>5. QED
    BY <2>2, <2>3, <2>4 DEF StridesInWindow, NotAfter
<1>2. QED
  BY <1>1, StrideInvariant, PTL
=============================================================================
