---------------------------- MODULE Files_proofs ----------------------------
(***************************************************************************)
(* Proofs about Files, for any processes, tables, entries and inodes: no   *)
(* reference is lost or given back twice, the assertions on the way hold,  *)
(* and a reader that sleeps keeps its file.                                *)
(*                                                                         *)
(* Inside a call references are without an owner for a while: a look-up    *)
(* has taken one that no entry holds yet, an entry or a working directory  *)
(* was cleared and its reference not given back yet.  Refs counts these    *)
(* "in hand", next to those that were lost for good; every call is then a  *)
(* sequence of moves of one reference.  What a reader relies on is that    *)
(* the count of an entry is one for being open plus its readers (EntryOK). *)
(***************************************************************************)
EXTENDS Files, ListLemmas

Entry == [status : {"NONE", "OPENED", "CLOSED"}, count : Nat, node : Nodes \cup {NONE}]

\* An entry that r processes read.
EntryOK(e, r) ==
    /\ e.status = "NONE" => e = NoFile
    /\ e.status # "NONE" => e.node \in Nodes
    /\ e.status = "CLOSED" => e.count > 0
    /\ e.count = (IF e.status = "OPENED" THEN 1 ELSE 0) + r

\* The entries on n in the tables F.
On(F, n) == {e \in Tabs \X Fd : F[e[1]][e[2]].node = n}

\* The tables with the working directory n.
In(pw, n) == {t \in Tabs : pw[t] = n}

\* References have owners: entries of F, working directories pw, the kernel, or a hand.
Refs(F, ref, open, mem, pw, hand) ==
    \A n \in Nodes :
        /\ open[n] = Cardinality(On(F, n))
        /\ ref[n] = open[n] + base(n) + hand[n] + Cardinality(In(pw, n))
        /\ n \notin Devs => (n \in mem <=> ref[n] > 0)

Readers(t, d) == {p \in Procs : filesp[p] = t /\ reading[p] = d}
Users(t) == {p \in Procs : filesp[p] = t}

FilesTypeOK ==
    /\ filesp \in [Procs -> Tabs \cup {NONE}]
    /\ reading \in [Procs -> Fd \cup {NONE}]
    /\ files_count \in [Tabs -> Nat]
    /\ pwd \in [Tabs -> Nodes \cup {NONE}]
    /\ fd_array \in [Tabs -> [Fd -> Entry]]
    /\ ref_count \in [Nodes -> Nat] /\ open_count \in [Nodes -> Nat]
    /\ cached \in SUBSET Nodes /\ fate \in {"ok", "vop", "assert"}
    /\ seen \in [Procs -> Nodes \cup {NONE}] /\ lost \in [Nodes -> Nat]

EntriesCounted == \A t \in Tabs, d \in Fd : EntryOK(fd_array[t][d], Cardinality(Readers(t, d)))

\* A table exists while processes use it.
TablesCounted ==
    \A t \in Tabs :
        /\ files_count[t] = Cardinality(Users(t))
        /\ pwd[t] = NONE <=> files_count[t] = 0
        /\ files_count[t] = 0 => \A d \in Fd : fd_array[t][d] = NoFile

ReaderSees ==
    \A p \in Procs : reading[p] # NONE =>
        filesp[p] \in Tabs /\ reading[p] \in Fd /\ fd_array[filesp[p]][reading[p]].node = seen[p]

FilesInv ==
    /\ FilesTypeOK
    /\ fate # "assert"
    /\ fate = "ok" => Refs(fd_array, ref_count, open_count, cached, pwd, lost)
    /\ EntriesCounted
    /\ TablesCounted
    /\ ReaderSees
-----------------------------------------------------------------------------
(* Sets that change by one element, and the moves of a reference.          *)

LEMMA SetsFinite ==
    /\ IsFiniteSet(Fd) /\ IsFiniteSet(Tabs \X Fd)
    /\ \A F, n : IsFiniteSet(On(F, n)) /\ Cardinality(On(F, n)) \in Nat
    /\ \A pw, n : IsFiniteSet(In(pw, n)) /\ Cardinality(In(pw, n)) \in Nat
<1>1. IsFiniteSet(Fd)
  BY FilesAssumption, FS_Interval DEF Fd
<1>2. IsFiniteSet(Tabs \X Fd)
  BY <1>1, FilesAssumption, FS_Product
<1>3. \A F, n : IsFiniteSet(On(F, n))
  BY <1>2, FS_Subset DEF On
<1>4. \A pw, n : IsFiniteSet(In(pw, n))
  BY FilesAssumption, FS_Subset DEF In
<1>5. QED
  BY <1>1, <1>2, <1>3, <1>4, FS_CardinalityType

LEMMA OneMore ==
    ASSUME NEW S, IsFiniteSet(S), NEW x, x \notin S, NEW T, T = S \cup {x}
    PROVE  IsFiniteSet(T) /\ Cardinality(T) = Cardinality(S) + 1 /\ Cardinality(S) \in Nat
  BY FS_AddElement, FS_CardinalityType

LEMMA OneLess ==
    ASSUME NEW S, IsFiniteSet(S), NEW x \in S, NEW T, T = S \ {x}
    PROVE  /\ IsFiniteSet(T) /\ Cardinality(T) = Cardinality(S) - 1 /\ Cardinality(T) \in Nat
           /\ Cardinality(S) \in Nat /\ Cardinality(S) > 0
<1>1. IsFiniteSet(T) /\ Cardinality(T) = Cardinality(S) - 1
  BY FS_RemoveElement
<1>2. Cardinality(T) \in Nat /\ Cardinality(S) \in Nat
  BY <1>1, FS_CardinalityType
<1>3. QED
  BY <1>1, <1>2

\* What Refs says of one inode, in numbers.
LEMMA RefsAt ==
    ASSUME NEW F, NEW ref, NEW open, NEW mem, NEW pw, NEW hand \in [Nodes -> Nat], NEW n \in Nodes,
           Refs(F, ref, open, mem, pw, hand)
    PROVE  /\ open[n] = Cardinality(On(F, n)) /\ open[n] \in Nat
           /\ ref[n] = open[n] + base(n) + hand[n] + Cardinality(In(pw, n)) /\ ref[n] \in Nat
           /\ base(n) \in Nat /\ hand[n] \in Nat /\ Cardinality(In(pw, n)) \in Nat
           /\ n \notin Devs => (n \in mem <=> ref[n] > 0)
<1>1. base(n) \in Nat /\ hand[n] \in Nat
  BY DEF base
<1>2. QED
  BY <1>1, SetsFinite DEF Refs

\* A look-up takes a reference into the hand.
LEMMA RefTaken ==
    ASSUME NEW F, NEW ref \in [Nodes -> Nat], NEW open, NEW mem, NEW pw, NEW hand \in [Nodes -> Nat],
           Refs(F, ref, open, mem, pw, hand), NEW n \in Nodes,
           NEW mem2, mem2 = mem \cup {n} \/ (n \in Devs /\ mem2 = mem) \/ (ref[n] > 0 /\ mem2 = mem)
    PROVE  Refs(F, [ref EXCEPT ![n] = @ + 1], open, mem2, pw, [hand EXCEPT ![n] = @ + 1])
<1> DEFINE ref2 == [ref EXCEPT ![n] = @ + 1]
           hand2 == [hand EXCEPT ![n] = @ + 1]
<1> SUFFICES ASSUME NEW m \in Nodes
             PROVE  /\ open[m] = Cardinality(On(F, m))
                    /\ ref2[m] = open[m] + base(m) + hand2[m] + Cardinality(In(pw, m))
                    /\ m \notin Devs => (m \in mem2 <=> ref2[m] > 0)
  BY DEF Refs
<1>1. /\ open[m] = Cardinality(On(F, m)) /\ open[m] \in Nat
      /\ ref[m] = open[m] + base(m) + hand[m] + Cardinality(In(pw, m)) /\ ref[m] \in Nat
      /\ base(m) \in Nat /\ hand[m] \in Nat /\ Cardinality(In(pw, m)) \in Nat
      /\ m \notin Devs => (m \in mem <=> ref[m] > 0)
  BY RefsAt
<1>2. CASE m = n
  <2>1. ref2[m] = ref[m] + 1 /\ hand2[m] = hand[m] + 1
    BY <1>2
  <2>2. QED
    BY <1>1, <1>2, <2>1
<1>3. CASE m # n
  <2>1. ref2[m] = ref[m] /\ hand2[m] = hand[m]
    BY <1>3
  <2>2. QED
    BY <1>1, <1>3, <2>1
<1>4. QED
  BY <1>2, <1>3

\* inode_ref_dec gives one back, and its assertions hold.
LEMMA RefDropped ==
    ASSUME NEW F, NEW ref \in [Nodes -> Nat], NEW open, NEW mem, NEW pw, NEW hand \in [Nodes -> Nat],
           Refs(F, ref, open, mem, pw, hand), NEW n \in Nodes, hand[n] > 0
    PROVE  /\ ref[n] > 0 /\ (ref[n] = 1 => open[n] = 0)
           /\ Refs(F, [ref EXCEPT ![n] = @ - 1], open, IF ref[n] = 1 THEN mem \ {n} ELSE mem, pw,
                   [hand EXCEPT ![n] = @ - 1])
<1> DEFINE ref2 == [ref EXCEPT ![n] = @ - 1]
           hand2 == [hand EXCEPT ![n] = @ - 1]
           mem2 == IF ref[n] = 1 THEN mem \ {n} ELSE mem
<1>0. ref[n] > 0 /\ (ref[n] = 1 => open[n] = 0)
  BY RefsAt
<1>1. ASSUME NEW m \in Nodes
      PROVE  /\ open[m] = Cardinality(On(F, m))
             /\ ref2[m] = open[m] + base(m) + hand2[m] + Cardinality(In(pw, m))
             /\ m \notin Devs => (m \in mem2 <=> ref2[m] > 0)
  <2>1. /\ open[m] = Cardinality(On(F, m)) /\ open[m] \in Nat
        /\ ref[m] = open[m] + base(m) + hand[m] + Cardinality(In(pw, m)) /\ ref[m] \in Nat
        /\ base(m) \in Nat /\ hand[m] \in Nat /\ Cardinality(In(pw, m)) \in Nat
        /\ m \notin Devs => (m \in mem <=> ref[m] > 0)
    BY RefsAt
  <2>2. CASE m = n
    <3>1. ref2[m] = ref[m] - 1 /\ hand2[m] = hand[m] - 1
      BY <2>2
    <3>2. QED
      BY <1>0, <2>1, <2>2, <3>1
  <2>3. CASE m # n
    <3>1. ref2[m] = ref[m] /\ hand2[m] = hand[m]
      BY <2>3
    <3>2. QED
      BY <2>1, <2>3, <3>1
  <2>4. QED
    BY <2>2, <2>3
<1> HIDE DEF ref2, hand2, mem2
<1>2. Refs(F, ref2, open, mem2, pw, hand2)
  BY <1>1 DEF Refs
<1>3. QED
  BY <1>0, <1>2 DEF ref2, hand2, mem2

\* F2 differs from F in the inode of one entry.
Moved(F, F2, t, d, x) ==
    \A u \in Tabs, c \in Fd :
        F2[u][c].node = IF u = t /\ c = d THEN x ELSE F[u][c].node

LEMMA MovedOn ==
    ASSUME NEW F, NEW F2, NEW t \in Tabs, NEW d \in Fd, NEW x, Moved(F, F2, t, d, x), NEW m
    PROVE  /\ m = x /\ m # F[t][d].node => Cardinality(On(F2, m)) = Cardinality(On(F, m)) + 1
           /\ m # x /\ m = F[t][d].node => /\ Cardinality(On(F2, m)) = Cardinality(On(F, m)) - 1
                                           /\ Cardinality(On(F, m)) > 0
           /\ (m = x <=> m = F[t][d].node) => Cardinality(On(F2, m)) = Cardinality(On(F, m))
<1> DEFINE k == <<t, d>>
<1>0. k \in Tabs \X Fd /\ k[1] = t /\ k[2] = d
  OBVIOUS
<1>1. \A e \in Tabs \X Fd : e[1] \in Tabs /\ e[2] \in Fd /\ (e = k <=> e[1] = t /\ e[2] = d)
  OBVIOUS
<1> HIDE DEF k
<1>2. \A e \in Tabs \X Fd : F2[e[1]][e[2]].node = IF e = k THEN x ELSE F[e[1]][e[2]].node
  BY <1>1 DEF Moved
<1>3. /\ \A e : e \in On(F2, m) <=> e \in Tabs \X Fd /\ IF e = k THEN m = x ELSE e \in On(F, m)
      /\ k \in On(F, m) <=> m = F[t][d].node
      /\ \A e : e \in On(F, m) => e \in Tabs \X Fd
  BY <1>0, <1>2 DEF On
<1>4. IsFiniteSet(On(F, m))
  BY SetsFinite
<1>5. ASSUME m = x, m # F[t][d].node PROVE Cardinality(On(F2, m)) = Cardinality(On(F, m)) + 1
  <2>1. On(F2, m) = On(F, m) \cup {k} /\ k \notin On(F, m)
    BY <1>0, <1>3, <1>5
  <2>2. QED
    BY <1>4, <2>1, OneMore
<1>6. ASSUME m # x, m = F[t][d].node
      PROVE  Cardinality(On(F2, m)) = Cardinality(On(F, m)) - 1 /\ Cardinality(On(F, m)) > 0
  <2>1. On(F2, m) = On(F, m) \ {k} /\ k \in On(F, m)
    BY <1>0, <1>3, <1>6
  <2>2. QED
    BY <1>4, <2>1, OneLess
<1>7. ASSUME m = x <=> m = F[t][d].node PROVE On(F2, m) = On(F, m)
  BY <1>0, <1>3, <1>7
<1>8. QED
  BY <1>5, <1>6, <1>7

\* An entry takes the reference in the hand.
LEMMA EntryFilled ==
    ASSUME NEW F, NEW ref, NEW open \in [Nodes -> Nat], NEW mem, NEW pw, NEW hand \in [Nodes -> Nat],
           Refs(F, ref, open, mem, pw, hand), NEW n \in Nodes, hand[n] > 0,
           NEW t \in Tabs, NEW d \in Fd, F[t][d].node = NONE, NEW F2, Moved(F, F2, t, d, n)
    PROVE  Refs(F2, ref, [open EXCEPT ![n] = @ + 1], mem, pw, [hand EXCEPT ![n] = @ - 1])
<1> DEFINE open2 == [open EXCEPT ![n] = @ + 1]
           hand2 == [hand EXCEPT ![n] = @ - 1]
<1>0. NONE \notin Nodes
  BY FilesAssumption DEF Nodes
<1> SUFFICES ASSUME NEW m \in Nodes
             PROVE  /\ open2[m] = Cardinality(On(F2, m))
                    /\ ref[m] = open2[m] + base(m) + hand2[m] + Cardinality(In(pw, m))
                    /\ m \notin Devs => (m \in mem <=> ref[m] > 0)
  BY DEF Refs
<1>1. /\ open[m] = Cardinality(On(F, m)) /\ open[m] \in Nat
      /\ ref[m] = open[m] + base(m) + hand[m] + Cardinality(In(pw, m)) /\ ref[m] \in Nat
      /\ base(m) \in Nat /\ hand[m] \in Nat /\ Cardinality(In(pw, m)) \in Nat
      /\ m \notin Devs => (m \in mem <=> ref[m] > 0)
  BY RefsAt
<1>2. CASE m = n
  <2>1. open2[m] = open[m] + 1 /\ hand2[m] = hand[m] - 1
    BY <1>2
  <2>2. Cardinality(On(F2, m)) = Cardinality(On(F, m)) + 1
    BY <1>0, <1>2, MovedOn
  <2>3. QED
    BY <1>1, <1>2, <2>1, <2>2
<1>3. CASE m # n
  <2>1. open2[m] = open[m] /\ hand2[m] = hand[m]
    BY <1>3
  <2>2. Cardinality(On(F2, m)) = Cardinality(On(F, m))
    BY <1>0, <1>3, MovedOn
  <2>3. QED
    BY <1>1, <2>1, <2>2
<1>4. QED
  BY <1>2, <1>3

\* An entry is cleared, and its reference in the hand.
LEMMA EntryCleared ==
    ASSUME NEW F, NEW ref, NEW open \in [Nodes -> Nat], NEW mem, NEW pw, NEW hand \in [Nodes -> Nat],
           Refs(F, ref, open, mem, pw, hand), NEW n \in Nodes,
           NEW t \in Tabs, NEW d \in Fd, F[t][d].node = n, NEW F2, Moved(F, F2, t, d, NONE)
    PROVE  /\ open[n] > 0
           /\ Refs(F2, ref, [open EXCEPT ![n] = @ - 1], mem, pw, [hand EXCEPT ![n] = @ + 1])
<1> DEFINE open2 == [open EXCEPT ![n] = @ - 1]
           hand2 == [hand EXCEPT ![n] = @ + 1]
<1>0. NONE \notin Nodes
  BY FilesAssumption DEF Nodes
<1>1. ASSUME NEW m \in Nodes
      PROVE  /\ open2[m] = Cardinality(On(F2, m))
             /\ ref[m] = open2[m] + base(m) + hand2[m] + Cardinality(In(pw, m))
             /\ m \notin Devs => (m \in mem <=> ref[m] > 0)
             /\ m = n => open[m] > 0
  <2>1. /\ open[m] = Cardinality(On(F, m)) /\ open[m] \in Nat
        /\ ref[m] = open[m] + base(m) + hand[m] + Cardinality(In(pw, m)) /\ ref[m] \in Nat
        /\ base(m) \in Nat /\ hand[m] \in Nat /\ Cardinality(In(pw, m)) \in Nat
        /\ m \notin Devs => (m \in mem <=> ref[m] > 0)
    BY RefsAt
  <2>2. CASE m = n
    <3>1. open2[m] = open[m] - 1 /\ hand2[m] = hand[m] + 1
      BY <2>2
    <3>2. Cardinality(On(F2, m)) = Cardinality(On(F, m)) - 1 /\ Cardinality(On(F, m)) > 0
      BY <1>0, <2>2, MovedOn
    <3>3. QED
      BY <2>1, <2>2, <3>1, <3>2
  <2>3. CASE m # n
    <3>1. open2[m] = open[m] /\ hand2[m] = hand[m]
      BY <2>3
    <3>2. Cardinality(On(F2, m)) = Cardinality(On(F, m))
      BY <1>0, <2>3, MovedOn
    <3>3. QED
      BY <2>1, <2>3, <3>1, <3>2
  <2>4. QED
    BY <2>2, <2>3
<1> HIDE DEF open2, hand2
<1>2. Refs(F2, ref, open2, mem, pw, hand2)
  BY <1>1 DEF Refs
<1>3. QED
  BY <1>1, <1>2 DEF open2, hand2

LEMMA NodesSame ==
    ASSUME NEW F, NEW ref, NEW open, NEW mem, NEW pw, NEW hand, Refs(F, ref, open, mem, pw, hand),
           NEW F2, \A u \in Tabs, c \in Fd : F2[u][c].node = F[u][c].node
    PROVE  Refs(F2, ref, open, mem, pw, hand)
<1>1. \A n : On(F2, n) = On(F, n)
  BY DEF On
<1>2. QED
  BY <1>1 DEF Refs

\* A table leaves its working directory, and has its reference in the hand.
LEMMA PwdLeft ==
    ASSUME NEW F, NEW ref, NEW open, NEW mem, NEW pw \in [Tabs -> Nodes \cup {NONE}],
           NEW hand \in [Nodes -> Nat], Refs(F, ref, open, mem, pw, hand),
           NEW t \in Tabs, NEW n \in Nodes, pw[t] = n
    PROVE  Refs(F, ref, open, mem, [pw EXCEPT ![t] = NONE], [hand EXCEPT ![n] = @ + 1])
<1> DEFINE pw2 == [pw EXCEPT ![t] = NONE]
           hand2 == [hand EXCEPT ![n] = @ + 1]
<1>0. NONE \notin Nodes
  BY FilesAssumption DEF Nodes
<1> SUFFICES ASSUME NEW m \in Nodes
             PROVE  /\ open[m] = Cardinality(On(F, m))
                    /\ ref[m] = open[m] + base(m) + hand2[m] + Cardinality(In(pw2, m))
                    /\ m \notin Devs => (m \in mem <=> ref[m] > 0)
  BY DEF Refs
<1>1. /\ open[m] = Cardinality(On(F, m)) /\ open[m] \in Nat
      /\ ref[m] = open[m] + base(m) + hand[m] + Cardinality(In(pw, m)) /\ ref[m] \in Nat
      /\ base(m) \in Nat /\ hand[m] \in Nat /\ Cardinality(In(pw, m)) \in Nat
      /\ m \notin Devs => (m \in mem <=> ref[m] > 0)
  BY RefsAt
<1>2. CASE m = n
  <2>1. hand2[m] = hand[m] + 1
    BY <1>2
  <2>2. In(pw2, m) = In(pw, m) \ {t} /\ t \in In(pw, m)
    BY <1>0, <1>2 DEF In
  <2>3. Cardinality(In(pw2, m)) = Cardinality(In(pw, m)) - 1
    BY <2>2, SetsFinite, OneLess
  <2>4. QED
    BY <1>1, <2>1, <2>3
<1>3. CASE m # n
  <2>1. hand2[m] = hand[m]
    BY <1>3
  <2>2. In(pw2, m) = In(pw, m)
    BY <1>0, <1>3 DEF In
  <2>3. QED
    BY <1>1, <2>1, <2>2
<1>4. QED
  BY <1>2, <1>3

LEMMA PwdEntered ==
    ASSUME NEW F, NEW ref, NEW open, NEW mem, NEW pw \in [Tabs -> Nodes \cup {NONE}],
           NEW hand \in [Nodes -> Nat], Refs(F, ref, open, mem, pw, hand),
           NEW t \in Tabs, pw[t] = NONE, NEW n \in Nodes, hand[n] > 0
    PROVE  Refs(F, ref, open, mem, [pw EXCEPT ![t] = n], [hand EXCEPT ![n] = @ - 1])
<1> DEFINE pw2 == [pw EXCEPT ![t] = n]
           hand2 == [hand EXCEPT ![n] = @ - 1]
<1>0. NONE \notin Nodes
  BY FilesAssumption DEF Nodes
<1> SUFFICES ASSUME NEW m \in Nodes
             PROVE  /\ open[m] = Cardinality(On(F, m))
                    /\ ref[m] = open[m] + base(m) + hand2[m] + Cardinality(In(pw2, m))
                    /\ m \notin Devs => (m \in mem <=> ref[m] > 0)
  BY DEF Refs
<1>1. /\ open[m] = Cardinality(On(F, m)) /\ open[m] \in Nat
      /\ ref[m] = open[m] + base(m) + hand[m] + Cardinality(In(pw, m)) /\ ref[m] \in Nat
      /\ base(m) \in Nat /\ hand[m] \in Nat /\ Cardinality(In(pw, m)) \in Nat
      /\ m \notin Devs => (m \in mem <=> ref[m] > 0)
  BY RefsAt
<1>2. CASE m = n
  <2>1. hand2[m] = hand[m] - 1
    BY <1>2
  <2>2. In(pw2, m) = In(pw, m) \cup {t} /\ t \notin In(pw, m)
    BY <1>0, <1>2 DEF In
  <2>3. Cardinality(In(pw2, m)) = Cardinality(In(pw, m)) + 1
    BY <2>2, SetsFinite, OneMore
  <2>4. QED
    BY <1>1, <1>2, <2>1, <2>3
<1>3. CASE m # n
  <2>1. hand2[m] = hand[m]
    BY <1>3
  <2>2. In(pw2, m) = In(pw, m)
    BY <1>0, <1>3 DEF In
  <2>3. QED
    BY <1>1, <2>1, <2>2
<1>4. QED
  BY <1>2, <1>3
-----------------------------------------------------------------------------
(* The functions of the kernel.                                            *)

WorkType ==
    [fds : [Fd -> Entry], ref : [Nodes -> Nat], open : [Nodes -> Nat],
     cached : SUBSET Nodes, fate : {"ok", "vop", "assert"}]

Tables(t, s) == [fd_array EXCEPT ![t] = s.fds]

\* A state inside a call on the table t.
Good(t, s, pw, hand) ==
    /\ s \in WorkType /\ s.fate = "ok"
    /\ Refs(Tables(t, s), s.ref, s.open, s.cached, pw, hand)

Hands == [Nodes -> Nat]

LEMMA TablesAt ==
    ASSUME FilesTypeOK, NEW t \in Tabs, NEW s \in WorkType, NEW r \in WorkType
    PROVE  /\ \A u \in Tabs : Tables(t, s)[u] = IF u = t THEN s.fds ELSE fd_array[u]
           /\ r.fds = s.fds => Tables(t, r) = Tables(t, s)
           /\ Tables(t, s)[t] = s.fds
           /\ \A x : \A d \in Fd : s.fds \in [Fd -> Entry] /\ (\A c \in Fd : r.fds[c].node =
                 IF c = d THEN x ELSE s.fds[c].node) => Moved(Tables(t, s), Tables(t, r), t, d, x)
<1>1. \A w : \A u \in Tabs : Tables(t, w)[u] = IF u = t THEN w.fds ELSE fd_array[u]
  BY DEF FilesTypeOK, Tables
<1>2. r.fds = s.fds => Tables(t, r) = Tables(t, s)
  BY DEF Tables
<1>3. QED
  BY <1>1, <1>2 DEF Moved

LEMMA IncFields ==
    ASSUME NEW s \in WorkType, NEW n \in Nodes
    PROVE  LET r == inode_ref_inc(s, n)
           IN  /\ r \in WorkType /\ r.ref = [s.ref EXCEPT ![n] = @ + 1]
               /\ r.fds = s.fds /\ r.open = s.open /\ r.cached = s.cached /\ r.fate = s.fate
<1> DEFINE r == inode_ref_inc(s, n)
<1>1. r = [s EXCEPT !.ref = [s.ref EXCEPT ![n] = @ + 1]]
  BY DEF inode_ref_inc, WorkType
<1>2. [s.ref EXCEPT ![n] = @ + 1] \in [Nodes -> Nat]
  BY DEF WorkType
<1>3. QED
  BY <1>1, <1>2 DEF WorkType

LEMMA DecFields ==
    ASSUME NEW s \in WorkType, s.fate = "ok", NEW n \in Nodes, s.ref[n] > 0,
           s.ref[n] = 1 => s.open[n] = 0
    PROVE  LET r == inode_ref_dec(s, n)
           IN  /\ r \in WorkType /\ r.ref = [s.ref EXCEPT ![n] = @ - 1]
               /\ r.cached = IF s.ref[n] = 1 THEN s.cached \ {n} ELSE s.cached
               /\ r.fds = s.fds /\ r.open = s.open /\ r.fate = "ok"
<1> DEFINE r == inode_ref_dec(s, n)
           ref2 == [s.ref EXCEPT ![n] = @ - 1]
           mem2 == IF s.ref[n] = 1 THEN s.cached \ {n} ELSE s.cached
<1>1. Asserted(s, s.ref[n] > 0 /\ (s.ref[n] = 1 => s.open[n] = 0)) = s
  BY DEF Asserted
<1>2. r = [s EXCEPT !.ref = ref2, !.cached = mem2]
  BY <1>1 DEF inode_ref_dec, WorkType
<1>3. ref2 \in [Nodes -> Nat] /\ mem2 \in SUBSET Nodes
  BY DEF WorkType
<1> HIDE DEF ref2, mem2
<1>4. r \in WorkType /\ r.ref = ref2 /\ r.cached = mem2 /\ r.fds = s.fds /\ r.open = s.open /\ r.fate = "ok"
  BY <1>2, <1>3 DEF WorkType
<1>5. QED
  BY <1>4 DEF ref2, mem2

\* A reference more, or one less, in the hand.
LEMMA IncGood ==
    ASSUME FilesTypeOK, NEW t \in Tabs, NEW s, NEW pw, NEW hand \in Hands, Good(t, s, pw, hand),
           NEW n \in Nodes, s.ref[n] > 0
    PROVE  /\ Good(t, inode_ref_inc(s, n), pw, [hand EXCEPT ![n] = @ + 1])
           /\ inode_ref_inc(s, n).fds = s.fds
<1> DEFINE r == inode_ref_inc(s, n)
<1>0. s \in WorkType /\ s.fate = "ok" /\ Refs(Tables(t, s), s.ref, s.open, s.cached, pw, hand) /\ s.ref \in [Nodes -> Nat]
  BY DEF Good, WorkType
<1>1. /\ r \in WorkType /\ r.ref = [s.ref EXCEPT ![n] = @ + 1]
      /\ r.fds = s.fds /\ r.open = s.open /\ r.cached = s.cached /\ r.fate = s.fate
  BY <1>0, IncFields
<1> HIDE DEF r
<1>2. Tables(t, r) = Tables(t, s)
  BY <1>0, <1>1, TablesAt
<1>3. Refs(Tables(t, s), [s.ref EXCEPT ![n] = @ + 1], s.open, s.cached, pw, [hand EXCEPT ![n] = @ + 1])
  BY <1>0, RefTaken DEF Hands
<1>4. Good(t, r, pw, [hand EXCEPT ![n] = @ + 1]) /\ r.fds = s.fds
  BY <1>0, <1>1, <1>2, <1>3 DEF Good
<1>5. QED
  BY <1>4 DEF r

LEMMA LookupGood ==
    ASSUME FilesTypeOK, NEW t \in Tabs, NEW s, NEW pw, NEW hand \in Hands, Good(t, s, pw, hand),
           NEW n \in Nodes
    PROVE  /\ Good(t, vfs_lookup(s, n), pw, [hand EXCEPT ![n] = @ + 1])
           /\ vfs_lookup(s, n).fds = s.fds /\ vfs_lookup(s, n).ref[n] > 0
           /\ vfs_lookup(s, n).open = s.open
<1> DEFINE q == inode_ref_inc(s, n)
           r == vfs_lookup(s, n)
           mem2 == IF n \in Devs THEN s.cached ELSE s.cached \cup {n}
<1>0. s \in WorkType /\ s.fate = "ok" /\ Refs(Tables(t, s), s.ref, s.open, s.cached, pw, hand) /\ s.ref \in [Nodes -> Nat]
  BY DEF Good, WorkType
<1>1. /\ q \in WorkType /\ q.ref = [s.ref EXCEPT ![n] = @ + 1]
      /\ q.fds = s.fds /\ q.open = s.open /\ q.cached = s.cached /\ q.fate = s.fate
  BY <1>0, IncFields
<1> HIDE DEF q
<1>2. r = [q EXCEPT !.cached = mem2]
  BY <1>1 DEF vfs_lookup, q, WorkType
<1>3. mem2 \in SUBSET Nodes
  BY <1>0 DEF WorkType
<1> HIDE DEF mem2
<1>4. /\ r \in WorkType /\ r.ref = [s.ref EXCEPT ![n] = @ + 1] /\ r.fds = s.fds /\ r.open = s.open
      /\ r.cached = mem2 /\ r.fate = "ok"
  BY <1>0, <1>1, <1>2, <1>3 DEF WorkType
<1> HIDE DEF r
<1>5. Tables(t, r) = Tables(t, s)
  BY <1>0, <1>4, TablesAt
<1>6. mem2 = s.cached \cup {n} \/ (n \in Devs /\ mem2 = s.cached)
  BY DEF mem2
<1>7. Refs(Tables(t, s), [s.ref EXCEPT ![n] = @ + 1], s.open, mem2, pw, [hand EXCEPT ![n] = @ + 1])
  BY <1>0, <1>6, RefTaken DEF Hands
<1>8. Good(t, r, pw, [hand EXCEPT ![n] = @ + 1])
  BY <1>4, <1>5, <1>7 DEF Good
<1>9. r.ref[n] > 0
  BY <1>0, <1>4
<1>10. QED
  BY <1>4, <1>8, <1>9 DEF r

LEMMA DropGood ==
    ASSUME FilesTypeOK, NEW t \in Tabs, NEW s, NEW pw, NEW hand \in Hands, Good(t, s, pw, hand),
           NEW n \in Nodes, hand[n] > 0
    PROVE  /\ Good(t, inode_ref_dec(s, n), pw, [hand EXCEPT ![n] = @ - 1])
           /\ inode_ref_dec(s, n).fds = s.fds /\ inode_ref_dec(s, n).open = s.open
<1> DEFINE r == inode_ref_dec(s, n)
           mem2 == IF s.ref[n] = 1 THEN s.cached \ {n} ELSE s.cached
<1>0. s \in WorkType /\ s.fate = "ok" /\ Refs(Tables(t, s), s.ref, s.open, s.cached, pw, hand) /\ s.ref \in [Nodes -> Nat]
  BY DEF Good, WorkType
<1>1. /\ s.ref[n] > 0 /\ (s.ref[n] = 1 => s.open[n] = 0)
      /\ Refs(Tables(t, s), [s.ref EXCEPT ![n] = @ - 1], s.open, mem2, pw, [hand EXCEPT ![n] = @ - 1])
  BY <1>0, RefDropped DEF Hands
<1>2. /\ r \in WorkType /\ r.ref = [s.ref EXCEPT ![n] = @ - 1] /\ r.cached = mem2
      /\ r.fds = s.fds /\ r.open = s.open /\ r.fate = "ok"
  BY <1>0, <1>1, DecFields
<1> HIDE DEF r, mem2
<1>3. Tables(t, r) = Tables(t, s)
  BY <1>0, <1>2, TablesAt
<1>4. Good(t, r, pw, [hand EXCEPT ![n] = @ - 1])
  BY <1>1, <1>2, <1>3 DEF Good
<1>5. QED
  BY <1>2, <1>4 DEF r

LEMMA UpDown ==
    ASSUME NEW hand \in Hands, NEW n \in Nodes, NEW up, up = [hand EXCEPT ![n] = @ + 1]
    PROVE  up \in Hands /\ up[n] > 0 /\ [up EXCEPT ![n] = @ - 1] = hand
<1> USE DEF Hands
<1>1. up \in [Nodes -> Nat] /\ \A m \in Nodes : up[m] = IF m = n THEN hand[m] + 1 ELSE hand[m]
  OBVIOUS
<1> DEFINE f == [up EXCEPT ![n] = @ - 1]
<1>2. f \in [Nodes -> Int] /\ hand \in [Nodes -> Int]
  BY <1>1
<1>3. \A m \in Nodes : f[m] = hand[m]
  BY <1>1
<1> HIDE DEF f
<1>4. f = hand
  BY ONLY <1>2, <1>3
<1>5. QED
  BY <1>1, <1>4 DEF f

\* fd_array_free: the entry's reference passes through the hand.
LEMMA FreeGood ==
    ASSUME FilesTypeOK, NEW t \in Tabs, NEW s, NEW pw, NEW hand \in Hands, Good(t, s, pw, hand),
           NEW d \in Fd, s.fds[d].status = "CLOSED", s.fds[d].count = 0, s.fds[d].node \in Nodes
    PROVE  /\ Good(t, fd_array_free(s, d), pw, hand)
           /\ fd_array_free(s, d).fds = [s.fds EXCEPT ![d] = NoFile]
<1> DEFINE n == s.fds[d].node
           open2 == [s.open EXCEPT ![n] = @ - 1]
           q == inode_open_dec(s, n)
           c == inode_ref_dec(q, n)
           r == fd_array_free(s, d)
           fds2 == [s.fds EXCEPT ![d] = NoFile]
           hand2 == [hand EXCEPT ![n] = @ + 1]
           mem2 == IF s.ref[n] = 1 THEN s.cached \ {n} ELSE s.cached
           w == [s EXCEPT !.fds = fds2]
<1>0. /\ s \in WorkType /\ s.fate = "ok" /\ s.ref \in [Nodes -> Nat] /\ s.open \in [Nodes -> Nat]
      /\ s.fds \in [Fd -> Entry] /\ Refs(Tables(t, s), s.ref, s.open, s.cached, pw, hand)
  BY DEF Good, WorkType
<1>1. fds2 \in [Fd -> Entry]
  <2>1. NoFile \in Entry
    BY DEF NoFile, Entry
  <2>2. QED
    BY <1>0, <2>1
<1>2. w \in WorkType /\ w.fds = fds2
  BY <1>0, <1>1 DEF WorkType
<1>3. Moved(Tables(t, s), Tables(t, w), t, d, NONE)
  <2>1. \A e \in Fd : w.fds[e].node = IF e = d THEN NONE ELSE s.fds[e].node
    BY <1>0, <1>2 DEF NoFile
  <2>2. QED
    BY <1>0, <1>2, <2>1, TablesAt
<1>4. n \in Nodes /\ Tables(t, s)[t][d].node = n /\ hand \in [Nodes -> Nat]
  BY <1>0, TablesAt DEF Hands
<1> HIDE DEF n, w, fds2
<1>5. s.open[n] > 0 /\ Refs(Tables(t, w), s.ref, open2, s.cached, pw, hand2)
  BY <1>0, <1>3, <1>4, EntryCleared
<1>6. hand2 \in Hands /\ hand2[n] > 0 /\ [hand2 EXCEPT ![n] = @ - 1] = hand
  BY ONLY <1>4, UpDown DEF Hands
<1> HIDE DEF hand2
<1>7. open2 \in [Nodes -> Nat]
  BY <1>0, <1>4, <1>5
<1> HIDE DEF open2
<1>8. /\ s.ref[n] > 0 /\ (s.ref[n] = 1 => open2[n] = 0)
      /\ Refs(Tables(t, w), [s.ref EXCEPT ![n] = @ - 1], open2, mem2, pw, hand)
  <2> DEFINE F == Tables(t, w)
             ref == s.ref
             mem == s.cached
  <2>0. /\ ref \in [Nodes -> Nat] /\ hand2 \in [Nodes -> Nat] /\ n \in Nodes /\ hand2[n] > 0
        /\ Refs(F, ref, open2, mem, pw, hand2)
    BY <1>0, <1>4, <1>5, <1>6 DEF Hands
  <2> HIDE DEF F, ref, mem
  <2>1. ref[n] > 0 /\ (ref[n] = 1 => open2[n] = 0)
    <3>1. /\ ref[n] = open2[n] + base(n) + hand2[n] + Cardinality(In(pw, n)) /\ ref[n] \in Nat
          /\ open2[n] \in Nat /\ base(n) \in Nat /\ hand2[n] \in Nat /\ Cardinality(In(pw, n)) \in Nat
      BY ONLY <2>0, RefsAt
    <3>2. hand2[n] > 0
      BY ONLY <2>0
    <3>3. QED
      BY ONLY <3>1, <3>2
  <2>2. Refs(F, [ref EXCEPT ![n] = @ - 1], open2, IF ref[n] = 1 THEN mem \ {n} ELSE mem, pw,
             [hand2 EXCEPT ![n] = @ - 1])
    BY ONLY <2>0, RefDropped
  <2>3. QED
    BY ONLY <1>6, <2>1, <2>2 DEF F, ref, mem
<1>9. /\ q \in WorkType /\ q.open = open2 /\ q.fds = s.fds /\ q.ref = s.ref /\ q.cached = s.cached
      /\ q.fate = "ok"
  <2>0. s.open[n] # 0
    BY <1>0, <1>4, <1>5
  <2>1. q = [s EXCEPT !.open = open2]
    BY <1>0, <2>0 DEF inode_open_dec, WorkType, open2
  <2>2. QED
    BY <1>0, <1>7, <2>1 DEF WorkType
<1> HIDE DEF q
<1>10. /\ c \in WorkType /\ c.ref = [s.ref EXCEPT ![n] = @ - 1] /\ c.cached = mem2
       /\ c.fds = s.fds /\ c.open = open2 /\ c.fate = "ok"
  <2>1. q \in WorkType /\ q.fate = "ok" /\ n \in Nodes /\ q.ref[n] > 0 /\ (q.ref[n] = 1 => q.open[n] = 0)
    BY ONLY <1>4, <1>8, <1>9
  <2>2. /\ c \in WorkType /\ c.ref = [q.ref EXCEPT ![n] = @ - 1]
        /\ c.cached = IF q.ref[n] = 1 THEN q.cached \ {n} ELSE q.cached
        /\ c.fds = q.fds /\ c.open = q.open /\ c.fate = "ok"
    BY ONLY <2>1, DecFields
  <2>3. QED
    BY ONLY <1>9, <2>2
<1>11. r = [c EXCEPT !.fds = fds2]
  <2>1. Asserted(s, s.fds[d].status = "CLOSED" /\ s.fds[d].count = 0) = s
    BY DEF Asserted
  <2>2. vfs_close(s, n) = c
    BY DEF vfs_close, q
  <2>3. r = [vfs_close(s, n) EXCEPT !.fds[d] = NoFile]
    BY <1>0, <2>1 DEF fd_array_free, n
  <2> HIDE DEF c, r
  <2>4. [c EXCEPT !.fds[d] = NoFile] = [c EXCEPT !.fds = fds2]
    BY <1>10 DEF fds2, WorkType
  <2>5. QED
    BY <2>2, <2>3, <2>4
<1> HIDE DEF c, r, mem2
<1>12. /\ r \in WorkType /\ r.fds = fds2 /\ r.ref = [s.ref EXCEPT ![n] = @ - 1] /\ r.cached = mem2
       /\ r.open = open2 /\ r.fate = "ok"
  BY <1>1, <1>10, <1>11 DEF WorkType
<1>13. Tables(t, r) = Tables(t, w)
  BY <1>2, <1>12, TablesAt
<1>14. Good(t, r, pw, hand)
  BY <1>8, <1>12, <1>13 DEF Good
<1>15. QED
  BY <1>12, <1>14 DEF r, fds2

SetEntry(s, d, e) == [s EXCEPT !.fds = [s.fds EXCEPT ![d] = e]]

\* A change of status and count only.
LEMMA SameNodesGood ==
    ASSUME FilesTypeOK, NEW t \in Tabs, NEW s, NEW pw, NEW hand, Good(t, s, pw, hand),
           NEW d \in Fd, NEW e \in Entry, e.node = s.fds[d].node
    PROVE  /\ Good(t, SetEntry(s, d, e), pw, hand)
           /\ SetEntry(s, d, e).fds = [s.fds EXCEPT ![d] = e]
           /\ SetEntry(s, d, e).fate = "ok" /\ SetEntry(s, d, e) \in WorkType
<1> DEFINE fds2 == [s.fds EXCEPT ![d] = e]
           r == SetEntry(s, d, e)
<1>0. /\ s \in WorkType /\ s.fate = "ok" /\ s.fds \in [Fd -> Entry]
      /\ Refs(Tables(t, s), s.ref, s.open, s.cached, pw, hand)
  BY DEF Good, WorkType
<1>1. fds2 \in [Fd -> Entry] /\ \A c \in Fd : fds2[c].node = s.fds[c].node
  BY <1>0
<1> HIDE DEF fds2
<1>2. r = [s EXCEPT !.fds = fds2]
  BY DEF fds2, SetEntry
<1> HIDE DEF r
<1>3. /\ r \in WorkType /\ r.fds = fds2 /\ r.ref = s.ref /\ r.open = s.open /\ r.cached = s.cached
      /\ r.fate = "ok"
  BY <1>0, <1>1, <1>2 DEF WorkType
<1>4. \A u \in Tabs, c \in Fd : Tables(t, r)[u][c].node = Tables(t, s)[u][c].node
  <2>1. /\ \A u \in Tabs : Tables(t, s)[u] = IF u = t THEN s.fds ELSE fd_array[u]
        /\ \A u \in Tabs : Tables(t, r)[u] = IF u = t THEN r.fds ELSE fd_array[u]
    BY <1>0, <1>3, TablesAt
  <2>2. QED
    BY ONLY <1>1, <1>3, <2>1
<1>5. Refs(Tables(t, r), s.ref, s.open, s.cached, pw, hand)
  BY ONLY <1>0, <1>4, NodesSame
<1>6. QED
  BY <1>3, <1>5 DEF Good, fds2, r

\* An entry that loses a user: freed with the last one.
Released(e) == IF e.count = 1 THEN NoFile ELSE [e EXCEPT !.count = @ - 1]

LEMMA ReleaseGood ==
    ASSUME FilesTypeOK, NEW t \in Tabs, NEW s, NEW pw, NEW hand \in Hands, Good(t, s, pw, hand),
           NEW d \in Fd, s.fds[d].node \in Nodes, s.fds[d].count > 0,
           s.fds[d].count = 1 => s.fds[d].status = "CLOSED"
    PROVE  /\ Good(t, fd_array_release(s, d), pw, hand)
           /\ fd_array_release(s, d).fds = [s.fds EXCEPT ![d] = Released(s.fds[d])]
<1> DEFINE e == [s.fds[d] EXCEPT !.count = @ - 1]
           q == SetEntry(s, d, e)
<1>0. s \in WorkType /\ s.fate = "ok" /\ s.fds \in [Fd -> Entry] /\ s.fds[d] \in Entry
  BY DEF Good, WorkType
<1>1. /\ e \in Entry /\ e.node = s.fds[d].node /\ e.count = s.fds[d].count - 1
      /\ e.status = s.fds[d].status
  BY <1>0 DEF Entry
<1>2. Asserted(s, s.fds[d].count > 0) = s
  BY DEF Asserted
<1>3. [s EXCEPT !.fds[d].count = @ - 1] = q
  BY <1>0 DEF WorkType, SetEntry
<1> HIDE DEF e
<1>4. Good(t, q, pw, hand) /\ q.fds = [s.fds EXCEPT ![d] = e] /\ q.fate = "ok" /\ q \in WorkType
  BY <1>1, SameNodesGood
<1>5. fd_array_release(s, d) = IF q.fds[d].count = 0 THEN fd_array_free(q, d) ELSE q
  BY <1>2, <1>3, <1>4 DEF fd_array_release
<1> HIDE DEF q
<1>6. q.fds[d] = e
  BY <1>0, <1>4
<1>7. CASE s.fds[d].count = 1
  <2>1. e.count = 0 /\ e.status = "CLOSED" /\ e.node \in Nodes
    BY <1>1, <1>7
  <2>2. /\ Good(t, fd_array_free(q, d), pw, hand)
        /\ fd_array_free(q, d).fds = [q.fds EXCEPT ![d] = NoFile]
    BY <1>4, <1>6, <2>1, FreeGood
  <2>3. [q.fds EXCEPT ![d] = NoFile] = [s.fds EXCEPT ![d] = NoFile]
    BY <1>0, <1>4
  <2>4. QED
    BY <1>5, <1>6, <1>7, <2>1, <2>2, <2>3 DEF Released
<1>8. CASE s.fds[d].count # 1
  <2>1. e.count # 0
    BY <1>0, <1>1, <1>8 DEF Entry
  <2>2. QED
    BY <1>4, <1>5, <1>6, <1>8, <2>1 DEF Released, e
<1>9. QED
  BY <1>7, <1>8

\* fd_array_close of an open entry with r readers.
LEMMA CloseGood ==
    ASSUME FilesTypeOK, NEW t \in Tabs, NEW s, NEW pw, NEW hand \in Hands, Good(t, s, pw, hand),
           NEW d \in Fd, s.fds[d].status = "OPENED", NEW r \in Nat, EntryOK(s.fds[d], r)
    PROVE  LET c == fd_array_close(s, d)
           IN  /\ Good(t, c, pw, hand)
               /\ EntryOK(c.fds[d], r) /\ c.fds[d].status # "OPENED"
               /\ r > 0 => c.fds[d].node = s.fds[d].node
               /\ \A x \in Fd : x # d => c.fds[x] = s.fds[x]
<1> DEFINE e == [s.fds[d] EXCEPT !.status = "CLOSED"]
           q == SetEntry(s, d, e)
           c == fd_array_close(s, d)
<1>0. s \in WorkType /\ s.fate = "ok" /\ s.fds \in [Fd -> Entry] /\ s.fds[d] \in Entry
  BY DEF Good, WorkType
<1>1. /\ e \in Entry /\ e.node = s.fds[d].node /\ e.count = s.fds[d].count /\ e.status = "CLOSED"
  BY <1>0 DEF Entry
<1>2. e.count = 1 + r /\ e.node \in Nodes
  BY <1>1 DEF EntryOK
<1>3. c = fd_array_release(q, d)
  BY <1>0 DEF fd_array_close, WorkType, SetEntry
<1> HIDE DEF e
<1>4. Good(t, q, pw, hand) /\ q.fds = [s.fds EXCEPT ![d] = e]
  BY <1>1, SameNodesGood
<1> HIDE DEF q, c
<1>5. q.fds[d] = e
  BY <1>0, <1>4
<1>6. Good(t, c, pw, hand) /\ c.fds = [q.fds EXCEPT ![d] = Released(e)]
  <2>1. e.count > 0
    BY <1>2
  <2>2. QED
    BY <1>1, <1>2, <1>3, <1>4, <1>5, <2>1, ReleaseGood
<1>7. c.fds[d] = Released(e) /\ \A x \in Fd : x # d => c.fds[x] = s.fds[x]
  BY <1>0, <1>4, <1>6
<1>8. /\ EntryOK(Released(e), r) /\ Released(e).status # "OPENED"
      /\ r > 0 => Released(e).node = e.node
  <2>1. CASE r = 0
    <3>1. Released(e) = NoFile
      BY <1>2, <2>1 DEF Released
    <3>2. QED
      BY <2>1, <3>1 DEF EntryOK, NoFile
  <2>2. CASE r # 0
    <3>1. Released(e) = [e EXCEPT !.count = @ - 1]
      BY <1>2, <2>2 DEF Released
    <3>2. Released(e).count = r /\ Released(e).status = "CLOSED" /\ Released(e).node = e.node
      BY <1>1, <1>2, <3>1 DEF Entry
    <3>3. QED
      BY <1>2, <2>2, <3>2 DEF EntryOK
  <2>3. QED
    BY <2>1, <2>2
<1>9. QED
  BY <1>1, <1>6, <1>7, <1>8 DEF c
-----------------------------------------------------------------------------
(* The loops of files_closeall and files_destroy.                          *)

\* f[d] is the state in which the loop reaches entry d, for the entries up to n.
Steps(f, s, k, n) == \A d \in 0..n : f[d] = IF d <= k THEN s ELSE close_if_open(f[d - 1], d - 1)

LEMMA StepsExist ==
    ASSUME NEW s, NEW k \in Nat
    PROVE  \E f : Steps(f, s, k, NENTRY)
<1> DEFINE S == {n \in 0..NENTRY : \E f : Steps(f, s, k, n)}
<1>0. NENTRY \in Nat
  BY FilesAssumption
<1>1. 0 \in S
  <2>1. Steps([d \in 0..0 |-> s], s, k, 0)
    BY DEF Steps
  <2>2. QED
    BY <1>0, <2>1
<1>2. ASSUME NEW n \in 0..(NENTRY - 1), n \in S PROVE n + 1 \in S
  <2>0. n \in Int /\ n + 1 \in 0..NENTRY /\ 0 <= n
    BY <1>0
  <2>1. PICK f : Steps(f, s, k, n)
    BY <1>2
  <2> DEFINE x == IF n + 1 <= k THEN s ELSE close_if_open(f[n], n)
             g == [d \in 0..(n + 1) |-> IF d = n + 1 THEN x ELSE f[d]]
  <2>2. ASSUME NEW d \in 0..(n + 1) PROVE g[d] = IF d <= k THEN s ELSE close_if_open(g[d - 1], d - 1)
    <3>1. CASE d = n + 1
      <4>1. d - 1 = n /\ n \in 0..(n + 1) /\ n # n + 1 /\ g[n] = f[n] /\ g[d] = x
        BY <2>0, <3>1
      <4>2. QED
        BY ONLY <3>1, <4>1
    <3>2. CASE d # n + 1
      <4>1. d \in 0..n /\ g[d] = f[d]
        BY <2>0, <3>2
      <4>2. f[d] = IF d <= k THEN s ELSE close_if_open(f[d - 1], d - 1)
        BY ONLY <2>1, <4>1 DEF Steps
      <4>3. CASE d <= k
        BY ONLY <4>1, <4>2, <4>3
      <4>4. CASE ~(d <= k)
        <5>1. d - 1 \in 0..(n + 1) /\ d - 1 # n + 1
          BY <2>0, <4>1, <4>4
        <5>2. g[d - 1] = f[d - 1]
          BY ONLY <5>1
        <5>3. QED
          BY ONLY <4>1, <4>2, <4>4, <5>2
      <4>5. QED
        BY <4>3, <4>4
    <3>3. QED
      BY <3>1, <3>2
  <2> HIDE DEF g
  <2>3. Steps(g, s, k, n + 1)
    BY ONLY <2>2 DEF Steps
  <2>4. QED
    BY <2>0, <2>3
<1> HIDE DEF S
<1>3. NENTRY \in S
  <2>1. \A n \in 0..NENTRY : n \in S
    BY ONLY <1>0, <1>1, <1>2, IntervalInduction
  <2>2. QED
    BY ONLY <1>0, <2>1
<1>4. QED
  BY <1>3 DEF S

LEMMA LoopRuns ==
    ASSUME NEW s, NEW k \in Nat
    PROVE  \E f : Steps(f, s, k, NENTRY) /\ close_from(s, k) = f[NENTRY]
<1> DEFINE P(f) == f = [d \in 0..NENTRY |-> IF d <= k THEN s ELSE close_if_open(f[d - 1], d - 1)]
           before == CHOOSE f : P(f)
<1>0. NENTRY \in Nat
  BY FilesAssumption
<1>1. close_from(s, k) = before[NENTRY]
  BY DEF close_from
<1>2. PICK f : Steps(f, s, k, NENTRY)
  BY StepsExist
<1> DEFINE g == [d \in 0..NENTRY |-> f[d]]
<1>3. P(g)
  <2>1. ASSUME NEW d \in 0..NENTRY PROVE g[d] = IF d <= k THEN s ELSE close_if_open(g[d - 1], d - 1)
    <3>1. f[d] = IF d <= k THEN s ELSE close_if_open(f[d - 1], d - 1)
      BY ONLY <1>2, <2>1 DEF Steps
    <3>2. CASE d <= k
      BY ONLY <2>1, <3>1, <3>2
    <3>3. CASE ~(d <= k)
      <4>1. d - 1 \in 0..NENTRY
        BY <1>0, <3>3
      <4>2. QED
        BY ONLY <2>1, <3>1, <3>3, <4>1
    <3>4. QED
      BY <3>2, <3>3
  <2> DEFINE h == [d \in 0..NENTRY |-> IF d <= k THEN s ELSE close_if_open(g[d - 1], d - 1)]
  <2>2. \A d \in 0..NENTRY : g[d] = h[d]
    BY <2>1
  <2>3. g = [d \in 0..NENTRY |-> g[d]] /\ h = [d \in 0..NENTRY |-> h[d]]
    OBVIOUS
  <2> HIDE DEF g, h
  <2>4. g = h
    BY ONLY <2>2, <2>3
  <2>5. QED
    BY ONLY <2>4 DEF h
<1>4. P(before)
  BY <1>3
<1> HIDE DEF before
<1>5. Steps(before, s, k, NENTRY)
  BY <1>4 DEF Steps
<1>6. QED
  BY <1>1, <1>5

\* The entries after the loop: those from k on are closed, or wait for their readers.
LEMMA LoopGood ==
    ASSUME FilesTypeOK, NEW t \in Tabs, NEW s, NEW pw, NEW hand \in Hands, Good(t, s, pw, hand),
           NEW k \in Nat, NEW R \in [Fd -> Nat], \A d \in Fd : EntryOK(s.fds[d], R[d])
    PROVE  LET c == close_from(s, k)
           IN  /\ Good(t, c, pw, hand)
               /\ \A d \in Fd : /\ EntryOK(c.fds[d], R[d])
                                /\ R[d] > 0 => c.fds[d].node = s.fds[d].node
                                /\ d >= k => c.fds[d].status # "OPENED"
<1>0. NENTRY \in Nat
  BY FilesAssumption
<1>1. PICK f : Steps(f, s, k, NENTRY) /\ close_from(s, k) = f[NENTRY]
  BY LoopRuns
<1> DEFINE OK(n) == /\ Good(t, f[n], pw, hand)
                    /\ \A d \in Fd : /\ EntryOK(f[n].fds[d], R[d])
                                     /\ R[d] > 0 => f[n].fds[d].node = s.fds[d].node
                                     /\ d >= k /\ d < n => f[n].fds[d].status # "OPENED"
           S == {n \in 0..NENTRY : OK(n)}
<1>2. 0 \in S
  <2>1. 0 \in 0..NENTRY /\ 0 <= k
    BY <1>0
  <2>2. f[0] = s
    BY ONLY <1>1, <2>1 DEF Steps
  <2>3. \A d \in Fd : ~(d < 0)
    BY <1>0 DEF Fd
  <2>4. OK(0)
    BY <2>2, <2>3
  <2>5. QED
    BY <2>1, <2>4
<1>3. ASSUME NEW n \in 0..(NENTRY - 1), n \in S PROVE n + 1 \in S
  <2>0. n \in Int /\ n + 1 \in 0..NENTRY /\ 0 <= n /\ n \in Fd /\ (n + 1) - 1 = n
    BY <1>0 DEF Fd
  <2>1. OK(n)
    BY <1>3
  <2>2. \A d \in Fd : d \in Int /\ (d < n + 1 <=> d < n \/ d = n)
    BY <1>0, <2>0 DEF Fd
  <2>3. CASE n + 1 <= k
    <3>1. f[n + 1] = s
      BY ONLY <1>1, <2>0, <2>3 DEF Steps
    <3>2. \A d \in Fd : ~(d >= k /\ d < n + 1)
      BY <2>0, <2>2, <2>3
    <3>3. OK(n + 1)
      BY <3>1, <3>2
    <3>4. QED
      BY <2>0, <3>3
  <2>4. CASE ~(n + 1 <= k)
    <3>1. f[n + 1] = close_if_open(f[n], n)
      BY ONLY <1>1, <2>0, <2>4 DEF Steps
    <3>2. CASE f[n].fds[n].status = "OPENED"
      <4>1. f[n + 1] = fd_array_close(f[n], n)
        BY ONLY <3>1, <3>2 DEF close_if_open
      <4>2. R[n] \in Nat /\ EntryOK(f[n].fds[n], R[n]) /\ Good(t, f[n], pw, hand)
        BY <2>0, <2>1
      <4>3. /\ Good(t, f[n + 1], pw, hand)
            /\ EntryOK(f[n + 1].fds[n], R[n]) /\ f[n + 1].fds[n].status # "OPENED"
            /\ R[n] > 0 => f[n + 1].fds[n].node = f[n].fds[n].node
            /\ \A x \in Fd : x # n => f[n + 1].fds[x] = f[n].fds[x]
        BY <2>0, <3>2, <4>1, <4>2, CloseGood
      <4>4. OK(n + 1)
        BY ONLY <2>0, <2>1, <2>2, <4>3
      <4>5. QED
        BY <2>0, <4>4
    <3>3. CASE f[n].fds[n].status # "OPENED"
      <4>1. f[n + 1] = f[n]
        BY ONLY <3>1, <3>3 DEF close_if_open
      <4>2. OK(n + 1)
        BY ONLY <2>1, <2>2, <3>3, <4>1
      <4>3. QED
        BY <2>0, <4>2
    <3>4. QED
      BY <3>2, <3>3
  <2>5. QED
    BY <2>3, <2>4
<1> HIDE DEF S
<1>4. NENTRY \in S
  <2>1. \A n \in 0..NENTRY : n \in S
    BY ONLY <1>0, <1>2, <1>3, IntervalInduction
  <2>2. QED
    BY ONLY <1>0, <2>1
<1>5. OK(NENTRY)
  BY ONLY <1>4 DEF S
<1>6. \A d \in Fd : d < NENTRY
  BY <1>0 DEF Fd
<1>7. QED
  BY ONLY <1>1, <1>5, <1>6
-----------------------------------------------------------------------------
(* The steps.                                                              *)

LEMMA FilesInit == Init => FilesInv
<1> SUFFICES ASSUME Init PROVE FilesInv
  OBVIOUS
<1> USE DEF Init
<1>0. /\ first \in Procs /\ ftab \in Tabs /\ root \in Dirs /\ root \in Nodes /\ NONE \notin Tabs
      /\ NONE \notin Nodes /\ NONE \notin Fd /\ ftab # NONE
  BY FilesAssumption DEF Nodes, Fd
<1>1. FilesTypeOK
  <2>1. NoFile \in Entry
    BY DEF NoFile, Entry
  <2>2. \A n \in Nodes : base(n) + (IF n = root THEN 1 ELSE 0) \in Nat
    BY DEF base
  <2>3. QED
    BY <1>0, <2>1, <2>2 DEF FilesTypeOK
<1>2. Refs(fd_array, ref_count, open_count, cached, pwd, lost)
  <2> SUFFICES ASSUME NEW n \in Nodes
               PROVE  /\ open_count[n] = Cardinality(On(fd_array, n))
                      /\ ref_count[n] = open_count[n] + base(n) + lost[n] + Cardinality(In(pwd, n))
                      /\ n \notin Devs => (n \in cached <=> ref_count[n] > 0)
    BY DEF Refs
  <2>1. On(fd_array, n) = {}
    BY <1>0 DEF On, NoFile
  <2>2. Cardinality(On(fd_array, n)) = 0
    BY <2>1, FS_EmptySet
  <2>3. In(pwd, n) = IF n = root THEN {ftab} ELSE {}
    BY <1>0 DEF In
  <2>4. Cardinality(In(pwd, n)) = IF n = root THEN 1 ELSE 0
    BY <2>3, FS_EmptySet, FS_Singleton
  <2>5. QED
    BY <1>0, <2>2, <2>4 DEF base
<1>3. EntriesCounted
  <2> SUFFICES ASSUME NEW t \in Tabs, NEW d \in Fd
               PROVE  EntryOK(fd_array[t][d], Cardinality(Readers(t, d)))
    BY DEF EntriesCounted
  <2>1. Readers(t, d) = {}
    BY <1>0 DEF Readers
  <2>2. Cardinality(Readers(t, d)) = 0
    BY <2>1, FS_EmptySet
  <2>3. QED
    BY <2>2 DEF EntryOK, NoFile
<1>4. TablesCounted
  <2> SUFFICES ASSUME NEW t \in Tabs
               PROVE  /\ files_count[t] = Cardinality(Users(t))
                      /\ pwd[t] = NONE <=> files_count[t] = 0
                      /\ files_count[t] = 0 => \A d \in Fd : fd_array[t][d] = NoFile
    BY DEF TablesCounted
  <2>1. Users(t) = IF t = ftab THEN {first} ELSE {}
    BY <1>0 DEF Users
  <2>2. Cardinality(Users(t)) = IF t = ftab THEN 1 ELSE 0
    BY <2>1, FS_EmptySet, FS_Singleton
  <2>3. QED
    BY <1>0, <2>2
<1>5. ReaderSees
  BY DEF ReaderSees
<1>6. QED
  BY <1>1, <1>2, <1>3, <1>4, <1>5 DEF FilesInv

\* The users and the readers are finitely many; a sleeping process has a table.
LEMMA CallFacts ==
    ASSUME FilesInv
    PROVE  /\ \A t : IsFiniteSet(Users(t)) /\ Cardinality(Users(t)) \in Nat
           /\ \A t, d : IsFiniteSet(Readers(t, d)) /\ Cardinality(Readers(t, d)) \in Nat
           /\ NONE \notin Tabs /\ NONE \notin Nodes /\ NONE \notin Fd
           /\ \A p \in Procs : filesp[p] # NONE => filesp[p] \in Tabs
           /\ \A p \in Procs : reading[p] # NONE => reading[p] \in Fd /\ filesp[p] \in Tabs
<1>1. \A t : IsFiniteSet(Users(t))
  BY FilesAssumption, FS_Subset DEF Users
<1>2. \A t, d : IsFiniteSet(Readers(t, d))
  BY FilesAssumption, FS_Subset DEF Readers
<1>3. NONE \notin Tabs /\ NONE \notin Nodes /\ NONE \notin Fd
  BY FilesAssumption DEF Nodes, Fd
<1>4. QED
  BY <1>1, <1>2, <1>3, FS_CardinalityType DEF FilesInv, FilesTypeOK, ReaderSees

\* A process in a call uses a table that exists, with a working directory.
LEMMA TableInUse ==
    ASSUME FilesInv, NEW p \in Procs, filesp[p] # NONE
    PROVE  /\ filesp[p] \in Tabs /\ files_count[filesp[p]] > 0 /\ files_count[filesp[p]] \in Nat
           /\ pwd[filesp[p]] \in Nodes /\ pwd[filesp[p]] # NONE
<1>1. filesp[p] \in Tabs
  BY CallFacts
<1>2. p \in Users(filesp[p]) /\ IsFiniteSet(Users(filesp[p]))
  BY CallFacts DEF Users
<1>3. Cardinality(Users(filesp[p])) > 0
  BY <1>2, OneLess
<1>4. files_count[filesp[p]] = Cardinality(Users(filesp[p])) /\ files_count[filesp[p]] \in Nat
  BY <1>1 DEF FilesInv, TablesCounted, FilesTypeOK
<1>5. pwd[filesp[p]] # NONE /\ pwd[filesp[p]] \in Nodes \cup {NONE}
  BY <1>1, <1>3, <1>4 DEF FilesInv, TablesCounted, FilesTypeOK
<1>6. QED
  BY <1>1, <1>3, <1>4, <1>5

LEMMA WorkGood ==
    ASSUME FilesInv, fate = "ok", NEW t \in Tabs
    PROVE  /\ Good(t, Work(t), pwd, lost) /\ Work(t).fds = fd_array[t] /\ lost \in Hands
           /\ Work(t) \in WorkType /\ Work(t).fate = "ok" /\ Work(t).ref = ref_count
           /\ Work(t).open = open_count /\ Work(t).cached = cached
           /\ \A d \in Fd : EntryOK(fd_array[t][d], Cardinality(Readers(t, d)))
<1> USE DEF FilesInv
<1>1. /\ Work(t).fds = fd_array[t] /\ Work(t).ref = ref_count /\ Work(t).open = open_count
      /\ Work(t).cached = cached /\ Work(t).fate = "ok"
  BY DEF Work
<1>2. Work(t) \in WorkType
  BY DEF Work, WorkType, FilesTypeOK
<1>3. Tables(t, Work(t)) = fd_array
  BY <1>1 DEF Tables, FilesTypeOK
<1>4. Good(t, Work(t), pwd, lost)
  BY <1>1, <1>2, <1>3 DEF Good
<1>5. lost \in Hands
  BY DEF Hands, FilesTypeOK
<1>6. QED
  BY <1>1, <1>2, <1>4, <1>5 DEF EntriesCounted

\* What Set leaves.
LEMMA SetFacts ==
    ASSUME FilesInv, NEW t \in Tabs, NEW s \in WorkType, Set(t, s)
    PROVE  /\ fd_array' = Tables(t, s) /\ fd_array' \in [Tabs -> [Fd -> Entry]]
           /\ \A u \in Tabs : fd_array'[u] = IF u = t THEN s.fds ELSE fd_array[u]
           /\ ref_count' = s.ref /\ open_count' = s.open /\ cached' = s.cached /\ fate' = s.fate
           /\ ref_count' \in [Nodes -> Nat] /\ open_count' \in [Nodes -> Nat]
           /\ cached' \in SUBSET Nodes /\ fate' \in {"ok", "vop", "assert"}
<1>1. /\ fd_array' = Tables(t, s)
      /\ ref_count' = s.ref /\ open_count' = s.open /\ cached' = s.cached /\ fate' = s.fate
  BY DEF Set, Tables
<1>2. s.fds \in [Fd -> Entry] /\ s.ref \in [Nodes -> Nat] /\ s.open \in [Nodes -> Nat]
      /\ s.cached \in SUBSET Nodes /\ s.fate \in {"ok", "vop", "assert"}
  BY DEF WorkType
<1>3. FilesTypeOK /\ fd_array \in [Tabs -> [Fd -> Entry]]
  BY DEF FilesInv, FilesTypeOK
<1>4. \A u \in Tabs : Tables(t, s)[u] = IF u = t THEN s.fds ELSE fd_array[u]
  BY <1>3, TablesAt
<1>5. Tables(t, s) \in [Tabs -> [Fd -> Entry]]
  BY <1>2, <1>3 DEF Tables
<1>6. QED
  BY <1>1, <1>2, <1>4, <1>5

\* A call on a table that leaves its processes as they are.
LEMMA CallStep ==
    ASSUME FilesInv, NEW t \in Tabs, files_count[t] > 0, NEW s \in WorkType, Set(t, s),
           s.fate # "assert",
           s.fate = "ok" => Refs(Tables(t, s), s.ref, s.open, s.cached, pwd', lost'),
           \A d \in Fd : /\ EntryOK(s.fds[d], Cardinality(Readers(t, d)))
                         /\ Readers(t, d) # {} => s.fds[d].node = fd_array[t][d].node,
           filesp' = filesp, reading' = reading, files_count' = files_count, seen' = seen,
           lost' \in Hands, pwd' \in [Tabs -> Nodes \cup {NONE}],
           \A u \in Tabs : pwd'[u] = NONE <=> pwd[u] = NONE
    PROVE  FilesInv'
<1>1. /\ fd_array' = Tables(t, s) /\ fd_array' \in [Tabs -> [Fd -> Entry]]
      /\ \A u \in Tabs : fd_array'[u] = IF u = t THEN s.fds ELSE fd_array[u]
      /\ ref_count' = s.ref /\ open_count' = s.open /\ cached' = s.cached /\ fate' = s.fate
      /\ ref_count' \in [Nodes -> Nat] /\ open_count' \in [Nodes -> Nat]
      /\ cached' \in SUBSET Nodes /\ fate' \in {"ok", "vop", "assert"}
  BY SetFacts
<1>2. FilesTypeOK'
  BY <1>1 DEF FilesInv, FilesTypeOK, Hands
<1>3. (fate = "ok" => Refs(fd_array, ref_count, open_count, cached, pwd, lost))'
  BY <1>1
<1>4. \A u, d : Readers(u, d)' = Readers(u, d) /\ Users(u)' = Users(u)
  BY DEF Readers, Users
<1>5. EntriesCounted'
  <2> SUFFICES ASSUME NEW u \in Tabs, NEW d \in Fd
               PROVE  EntryOK(fd_array'[u][d], Cardinality(Readers(u, d)'))
    BY DEF EntriesCounted, EntryOK
  <2>1. EntryOK(fd_array[u][d], Cardinality(Readers(u, d)))
    BY DEF FilesInv, EntriesCounted
  <2>2. QED
    BY <1>1, <1>4, <2>1
<1>6. TablesCounted'
  <2> SUFFICES ASSUME NEW u \in Tabs
               PROVE  /\ files_count'[u] = Cardinality(Users(u)')
                      /\ pwd'[u] = NONE <=> files_count'[u] = 0
                      /\ files_count'[u] = 0 => \A d \in Fd : fd_array'[u][d] = NoFile
    BY DEF TablesCounted
  <2>1. /\ files_count[u] = Cardinality(Users(u))
        /\ pwd[u] = NONE <=> files_count[u] = 0
        /\ files_count[u] = 0 => \A d \in Fd : fd_array[u][d] = NoFile
    BY DEF FilesInv, TablesCounted
  <2>2. files_count[u] = 0 => u # t
    OBVIOUS
  <2>3. QED
    BY <1>1, <1>4, <2>1, <2>2
<1>7. ReaderSees'
  <2> SUFFICES ASSUME NEW p \in Procs, reading[p] # NONE
               PROVE  /\ filesp[p] \in Tabs /\ reading[p] \in Fd
                      /\ fd_array'[filesp[p]][reading[p]].node = seen[p]
    BY DEF ReaderSees
  <2>1. filesp[p] \in Tabs /\ reading[p] \in Fd /\ fd_array[filesp[p]][reading[p]].node = seen[p]
    BY DEF FilesInv, ReaderSees
  <2>2. p \in Readers(filesp[p], reading[p])
    BY DEF Readers
  <2>3. QED
    BY <1>1, <2>1, <2>2
<1>8. QED
  BY <1>1, <1>2, <1>3, <1>5, <1>6, <1>7 DEF FilesInv

LEMMA SomeReader ==
    ASSUME FilesInv, NEW t, NEW d
    PROVE  /\ Cardinality(Readers(t, d)) \in Nat
           /\ Readers(t, d) # {} <=> Cardinality(Readers(t, d)) > 0
<1>1. IsFiniteSet(Readers(t, d)) /\ Cardinality(Readers(t, d)) \in Nat
  BY CallFacts
<1>2. QED
  BY <1>1, FS_EmptySet

LEMMA CloseStep ==
    ASSUME FilesInv, NEW p \in Procs, NEW d \in Fd, file_close(p, d)
    PROVE  FilesInv'
<1> DEFINE t == filesp[p]
           s == Work(t)
           c == fd_array_close(s, d)
           r == Cardinality(Readers(t, d))
<1>1. /\ fate = "ok" /\ t # NONE /\ fd_array[t][d].status = "OPENED" /\ Set(t, c)
      /\ filesp' = filesp /\ reading' = reading /\ files_count' = files_count /\ pwd' = pwd
      /\ seen' = seen /\ lost' = lost
  BY DEF file_close, Runs, Opened
<1>2. t \in Tabs /\ files_count[t] > 0
  BY <1>1, TableInUse
<1> HIDE DEF t, s
<1>3. /\ Good(t, s, pwd, lost) /\ s.fds = fd_array[t] /\ lost \in Hands
      /\ \A x \in Fd : EntryOK(fd_array[t][x], Cardinality(Readers(t, x)))
  BY <1>1, <1>2, WorkGood DEF s
<1>4. r \in Nat /\ FilesTypeOK /\ pwd \in [Tabs -> Nodes \cup {NONE}]
  BY SomeReader DEF FilesInv, FilesTypeOK
<1> HIDE DEF r
<1>5. /\ Good(t, c, pwd, lost)
      /\ EntryOK(c.fds[d], r) /\ c.fds[d].status # "OPENED"
      /\ r > 0 => c.fds[d].node = s.fds[d].node
      /\ \A x \in Fd : x # d => c.fds[x] = s.fds[x]
  <2>1. s.fds[d].status = "OPENED" /\ EntryOK(s.fds[d], r)
    BY <1>1, <1>3 DEF r
  <2>2. QED
    BY <1>2, <1>3, <1>4, <2>1, CloseGood
<1> HIDE DEF c
<1>6. c \in WorkType /\ c.fate = "ok" /\ Refs(Tables(t, c), c.ref, c.open, c.cached, pwd', lost')
  BY <1>1, <1>5 DEF Good
<1>7. \A x \in Fd : /\ EntryOK(c.fds[x], Cardinality(Readers(t, x)))
                    /\ Readers(t, x) # {} => c.fds[x].node = fd_array[t][x].node
  <2> TAKE x \in Fd
  <2>1. CASE x = d
    BY <1>3, <1>5, <2>1, SomeReader DEF r
  <2>2. CASE x # d
    BY <1>3, <1>5, <2>2
  <2>3. QED
    BY <2>1, <2>2
<1>8. QED
  BY <1>1, <1>2, <1>3, <1>4, <1>6, <1>7, CallStep

LEMMA CloseAllStep ==
    ASSUME FilesInv, NEW p \in Procs, files_closeall(p)
    PROVE  FilesInv'
<1> DEFINE t == filesp[p]
           s == Work(t)
           c == close_from(s, 2)
           R == [d \in Fd |-> Cardinality(Readers(t, d))]
<1>1. /\ fate = "ok" /\ t # NONE /\ Set(t, c)
      /\ filesp' = filesp /\ reading' = reading /\ files_count' = files_count /\ pwd' = pwd
      /\ seen' = seen /\ lost' = lost
  BY DEF files_closeall, Runs
<1>2. t \in Tabs /\ files_count[t] > 0
  BY <1>1, TableInUse
<1> HIDE DEF t, s
<1>3. /\ Good(t, s, pwd, lost) /\ s.fds = fd_array[t] /\ lost \in Hands
      /\ \A x \in Fd : EntryOK(fd_array[t][x], Cardinality(Readers(t, x)))
  BY <1>1, <1>2, WorkGood DEF s
<1>4. /\ R \in [Fd -> Nat] /\ \A x \in Fd : R[x] = Cardinality(Readers(t, x))
      /\ FilesTypeOK /\ pwd \in [Tabs -> Nodes \cup {NONE}]
  BY SomeReader DEF FilesInv, FilesTypeOK
<1> HIDE DEF R
<1>5. /\ Good(t, c, pwd, lost)
      /\ \A x \in Fd : /\ EntryOK(c.fds[x], R[x])
                       /\ R[x] > 0 => c.fds[x].node = s.fds[x].node
  <2>1. \A x \in Fd : EntryOK(s.fds[x], R[x])
    BY <1>3, <1>4
  <2>2. QED
    BY <1>2, <1>3, <1>4, <2>1, LoopGood
<1> HIDE DEF c
<1>6. c \in WorkType /\ c.fate = "ok" /\ Refs(Tables(t, c), c.ref, c.open, c.cached, pwd', lost')
  BY <1>1, <1>5 DEF Good
<1>7. \A x \in Fd : /\ EntryOK(c.fds[x], Cardinality(Readers(t, x)))
                    /\ Readers(t, x) # {} => c.fds[x].node = fd_array[t][x].node
  BY <1>3, <1>4, <1>5, SomeReader
<1>8. QED
  BY <1>1, <1>2, <1>3, <1>4, <1>6, <1>7, CallStep

\* A free entry has no readers.
LEMMA FreeEntry ==
    ASSUME FilesInv, NEW t \in Tabs, NEW d \in Fd, fd_array[t][d].status = "NONE"
    PROVE  fd_array[t][d] = NoFile /\ Cardinality(Readers(t, d)) = 0 /\ Readers(t, d) = {}
<1>1. EntryOK(fd_array[t][d], Cardinality(Readers(t, d)))
  BY DEF FilesInv, EntriesCounted
<1>2. fd_array[t][d] = NoFile
  BY <1>1 DEF EntryOK
<1>3. NoFile.count = (IF NoFile.status = "OPENED" THEN 1 ELSE 0) + Cardinality(Readers(t, d))
  BY <1>1, <1>2 DEF EntryOK
<1>4. NoFile.count = 0 /\ NoFile.status = "NONE"
  BY DEF NoFile
<1>5. Cardinality(Readers(t, d)) = 0
  BY <1>3, <1>4, SomeReader
<1>6. QED
  BY <1>2, <1>5, SomeReader

NewFile(n) == [status |-> "OPENED", count |-> 1, node |-> n]

\* open and dup: an entry takes the reference to n that is in the hand.
FillEntry(s, d, n) == [s EXCEPT !.open[n] = @ + 1, !.fds[d] = NewFile(n)]

SameBut(f, g, d) == \A x \in Fd : x # d => f[x] = g[x]

LEMMA FillGood ==
    ASSUME FilesTypeOK, NEW t \in Tabs, NEW s, NEW pw, NEW hand \in Hands, NEW n \in Nodes,
           Good(t, s, pw, [hand EXCEPT ![n] = @ + 1]), NEW d \in Fd, s.fds[d] = NoFile
    PROVE  LET o == FillEntry(s, d, n)
           IN  /\ Good(t, o, pw, hand) /\ o.fds[d] = NewFile(n)
               /\ SameBut(o.fds, s.fds, d)
<1> DEFINE o == FillEntry(s, d, n)
           open2 == [s.open EXCEPT ![n] = @ + 1]
           fds2 == [s.fds EXCEPT ![d] = NewFile(n)]
           up == [hand EXCEPT ![n] = @ + 1]
<1>0. /\ s \in WorkType /\ s.fate = "ok" /\ s.open \in [Nodes -> Nat] /\ s.fds \in [Fd -> Entry]
      /\ Refs(Tables(t, s), s.ref, s.open, s.cached, pw, up)
  BY DEF Good, WorkType
<1>1. o = [s EXCEPT !.open = open2, !.fds = fds2]
  BY <1>0 DEF FillEntry, WorkType
<1>2. NewFile(n) \in Entry /\ NewFile(n).node = n
  BY DEF NewFile, Entry
<1>3. open2 \in [Nodes -> Nat] /\ fds2 \in [Fd -> Entry] /\ fds2[d] = NewFile(n)
      /\ \A x \in Fd : x # d => fds2[x] = s.fds[x]
  BY <1>0, <1>2
<1> HIDE DEF open2, fds2, o
<1>4. /\ o \in WorkType /\ o.fds = fds2 /\ o.open = open2 /\ o.ref = s.ref /\ o.cached = s.cached
      /\ o.fate = "ok"
  BY <1>0, <1>1, <1>3 DEF WorkType
<1>5. Moved(Tables(t, s), Tables(t, o), t, d, n)
  <2>1. \A x \in Fd : o.fds[x].node = IF x = d THEN n ELSE s.fds[x].node
    BY <1>2, <1>3, <1>4
  <2>2. QED
    BY <1>0, <1>4, <2>1, TablesAt
<1>6. Tables(t, s)[t][d].node = NONE
  BY <1>0, TablesAt DEF NoFile
<1>7. up \in [Nodes -> Nat] /\ up[n] > 0 /\ [up EXCEPT ![n] = @ - 1] = hand
  BY ONLY hand \in Hands, n \in Nodes, UpDown DEF Hands
<1> HIDE DEF up
<1>8. Refs(Tables(t, o), s.ref, open2, s.cached, pw, [up EXCEPT ![n] = @ - 1])
  BY <1>0, <1>5, <1>6, <1>7, EntryFilled DEF open2
<1>9. Good(t, o, pw, hand)
  BY <1>4, <1>7, <1>8 DEF Good
<1>10. QED
  BY <1>3, <1>4, <1>9 DEF o, SameBut

\* The entries of t after a new file takes the free entry d.
LEMMA FilledEntries ==
    ASSUME FilesInv, NEW t \in Tabs, NEW d \in Fd, fd_array[t][d] = NoFile, NEW n \in Nodes,
           NEW o, o.fds[d] = NewFile(n), \A x \in Fd : x # d => o.fds[x] = fd_array[t][x]
    PROVE  \A x \in Fd : /\ EntryOK(o.fds[x], Cardinality(Readers(t, x)))
                         /\ Readers(t, x) # {} => o.fds[x].node = fd_array[t][x].node
<1> TAKE x \in Fd
<1>1. EntryOK(fd_array[t][x], Cardinality(Readers(t, x)))
  BY DEF FilesInv, EntriesCounted
<1>2. CASE x = d
  <2>1. Cardinality(Readers(t, x)) = 0 /\ Readers(t, x) = {}
    BY <1>2, FreeEntry DEF NoFile
  <2>2. QED
    BY <1>2, <2>1 DEF EntryOK, NewFile
<1>3. CASE x # d
  BY <1>1, <1>3
<1>4. QED
  BY <1>2, <1>3

LEMMA OpenStep ==
    ASSUME FilesInv, NEW p \in Procs, NEW n \in Nodes, NEW flags \in OpenFlags, file_open(p, n, flags)
    PROVE  FilesInv'
<1> DEFINE t == filesp[p]
           d == Min(Free(p))
           w == Work(t)
           s == vfs_lookup(w, n)
           o == FillEntry(s, d, n)
           up == [lost EXCEPT ![n] = @ + 1]
<1>1. /\ fate = "ok" /\ t # NONE /\ Free(p) # {}
      /\ filesp' = filesp /\ reading' = reading /\ files_count' = files_count /\ pwd' = pwd /\ seen' = seen
      /\ \/ lost' = up /\ Set(t, s)
         \/ lost' = lost /\ Set(t, inode_ref_dec(s, n))
         \/ lost' = lost /\ Set(t, [s EXCEPT !.fate = "vop"])
         \/ lost' = lost /\ Set(t, o)
  BY DEF file_open, Runs, FillEntry, NewFile, open_refused
<1>2. t \in Tabs /\ files_count[t] > 0
  BY <1>1, TableInUse
<1>3. d \in Fd /\ fd_array[t][d].status = "NONE"
  <2>1. Free(p) \in SUBSET Nat
    BY FilesAssumption DEF Free, Fd
  <2>2. Min(Free(p)) \in Free(p)
    BY <1>1, <2>1, LeastElement
  <2>3. QED
    BY <2>2 DEF Free
<1>4. fd_array[t][d] = NoFile
  BY <1>2, <1>3, FreeEntry
<1> HIDE DEF t, d, w
<1>5. /\ Good(t, w, pwd, lost) /\ w.fds = fd_array[t] /\ lost \in Hands
      /\ \A x \in Fd : EntryOK(fd_array[t][x], Cardinality(Readers(t, x)))
  BY <1>1, <1>2, WorkGood DEF w
<1>6. FilesTypeOK /\ pwd \in [Tabs -> Nodes \cup {NONE}] /\ up \in Hands /\ up[n] > 0
      /\ [up EXCEPT ![n] = @ - 1] = lost
  <2>1. up \in Hands /\ up[n] > 0 /\ [up EXCEPT ![n] = @ - 1] = lost
    BY ONLY <1>5, UpDown
  <2>2. QED
    BY <2>1 DEF FilesInv, FilesTypeOK
<1>7. Good(t, s, pwd, up) /\ s.fds = fd_array[t]
  BY <1>2, <1>5, <1>6, LookupGood
<1> HIDE DEF s
<1>8. CASE lost' = up /\ Set(t, s)
  <2>1. s \in WorkType /\ s.fate = "ok" /\ Refs(Tables(t, s), s.ref, s.open, s.cached, pwd', lost')
    BY <1>1, <1>7, <1>8 DEF Good
  <2>2. QED
    BY <1>1, <1>2, <1>5, <1>6, <1>7, <1>8, <2>1, CallStep
<1>9. CASE lost' = lost /\ Set(t, inode_ref_dec(s, n))
  <2> DEFINE r == inode_ref_dec(s, n)
  <2>1. Good(t, r, pwd, [up EXCEPT ![n] = @ - 1]) /\ r.fds = s.fds
    <3> HIDE DEF up
    <3>1. QED
      BY <1>2, <1>6, <1>7, DropGood
  <2> HIDE DEF r
  <2>2. r \in WorkType /\ r.fate = "ok" /\ Refs(Tables(t, r), r.ref, r.open, r.cached, pwd', lost')
    BY <1>1, <1>6, <1>9, <2>1 DEF Good
  <2>3. Set(t, r)
    BY <1>9 DEF r
  <2>4. QED
    BY <1>1, <1>2, <1>5, <1>6, <1>7, <1>9, <2>1, <2>2, <2>3, CallStep
<1>10. CASE lost' = lost /\ Set(t, [s EXCEPT !.fate = "vop"])
  <2> DEFINE r == [s EXCEPT !.fate = "vop"]
  <2>1. s \in WorkType
    BY <1>7 DEF Good
  <2>2. r \in WorkType /\ r.fate = "vop" /\ r.fds = s.fds
    BY <2>1 DEF WorkType
  <2> HIDE DEF r
  <2>3. Set(t, r)
    BY <1>10 DEF r
  <2>4. QED
    BY <1>1, <1>2, <1>5, <1>6, <1>7, <1>10, <2>2, <2>3, CallStep
<1>11. CASE lost' = lost /\ Set(t, o)
  <2>1. s.fds[d] = NoFile
    BY <1>4, <1>7
  <2>2. /\ Good(t, o, pwd, lost) /\ o.fds[d] = NewFile(n)
        /\ \A x \in Fd : x # d => o.fds[x] = s.fds[x]
    <3>1. /\ FilesTypeOK /\ t \in Tabs /\ lost \in Hands /\ n \in Nodes /\ d \in Fd
          /\ Good(t, s, pwd, up) /\ s.fds[d] = NoFile
      BY <1>2, <1>3, <1>5, <1>6, <1>7, <2>1
    <3>2. Good(t, o, pwd, lost)
      BY ONLY <3>1, FillGood
    <3>3. o.fds[d] = NewFile(n)
      BY ONLY <3>1, FillGood
    <3>4. SameBut(o.fds, s.fds, d)
      BY ONLY <3>1, FillGood
    <3>5. QED
      BY ONLY <3>2, <3>3, <3>4 DEF SameBut
  <2> HIDE DEF o
  <2>3. o \in WorkType /\ o.fate = "ok" /\ Refs(Tables(t, o), o.ref, o.open, o.cached, pwd', lost')
    BY <1>1, <1>11, <2>2 DEF Good
  <2>4. \A x \in Fd : /\ EntryOK(o.fds[x], Cardinality(Readers(t, x)))
                      /\ Readers(t, x) # {} => o.fds[x].node = fd_array[t][x].node
    BY <1>2, <1>3, <1>4, <1>7, <2>2, FilledEntries
  <2>5. QED
    BY <1>1, <1>2, <1>5, <1>6, <1>11, <2>3, <2>4, CallStep
<1>12. QED
  BY <1>1, <1>8, <1>9, <1>10, <1>11

LEMMA NoVopStep ==
    ASSUME FilesInv, NEW p \in Procs, file_no_vop(p)
    PROVE  FilesInv'
<1>1. /\ fate' = "vop" /\ filesp' = filesp /\ reading' = reading /\ files_count' = files_count
      /\ pwd' = pwd /\ fd_array' = fd_array /\ ref_count' = ref_count /\ open_count' = open_count
      /\ cached' = cached /\ seen' = seen /\ lost' = lost
  BY DEF file_no_vop
<1>2. FilesTypeOK' /\ (fate # "assert")'
  BY <1>1 DEF FilesInv, FilesTypeOK
<1>3. EntriesCounted'
  BY <1>1 DEF FilesInv, EntriesCounted, EntryOK, Readers
<1>4. TablesCounted'
  BY <1>1 DEF FilesInv, TablesCounted, Users
<1>5. ReaderSees'
  BY <1>1 DEF FilesInv, ReaderSees
<1>6. QED
  BY <1>1, <1>2, <1>3, <1>4, <1>5 DEF FilesInv

\* An inode that an entry is on has a reference.
LEMMA EntryHolds ==
    ASSUME FilesInv, fate = "ok", NEW t \in Tabs, NEW d \in Fd, fd_array[t][d].status = "OPENED"
    PROVE  fd_array[t][d].node \in Nodes /\ ref_count[fd_array[t][d].node] > 0
<1> DEFINE n == fd_array[t][d].node
<1>1. n \in Nodes
  BY DEF FilesInv, EntriesCounted, EntryOK
<1>2. <<t, d>> \in On(fd_array, n)
  BY DEF On
<1> HIDE DEF n
<1>3. Cardinality(On(fd_array, n)) > 0 /\ Cardinality(On(fd_array, n)) \in Nat
  <2>1. IsFiniteSet(On(fd_array, n))
    BY SetsFinite
  <2>2. QED
    BY ONLY <1>2, <2>1, OneLess
<1>4. lost \in [Nodes -> Nat] /\ Refs(fd_array, ref_count, open_count, cached, pwd, lost)
  BY DEF FilesInv, FilesTypeOK
<1>5. /\ open_count[n] = Cardinality(On(fd_array, n)) /\ open_count[n] \in Nat
      /\ ref_count[n] = open_count[n] + base(n) + lost[n] + Cardinality(In(pwd, n))
      /\ base(n) \in Nat /\ lost[n] \in Nat /\ Cardinality(In(pwd, n)) \in Nat
  BY ONLY <1>1, <1>4, RefsAt
<1>6. ref_count[n] > 0
  BY ONLY <1>3, <1>5
<1>7. QED
  BY <1>1, <1>6 DEF n

LEMMA DupStep ==
    ASSUME FilesInv, NEW p \in Procs, NEW d \in Fd, NEW e \in Fd, file_dup(p, d, e)
    PROVE  FilesInv'
<1> DEFINE t == filesp[p]
           w == Work(t)
           n == fd_array[t][d].node
           s == inode_ref_inc(w, n)
           o == FillEntry(s, e, n)
           up == [lost EXCEPT ![n] = @ + 1]
<1>1. /\ fate = "ok" /\ t # NONE /\ fd_array[t][d].status = "OPENED" /\ fd_array[t][e].status = "NONE"
      /\ filesp' = filesp /\ reading' = reading /\ files_count' = files_count /\ pwd' = pwd /\ seen' = seen
      /\ lost' = lost /\ Set(t, o)
  BY DEF file_dup, Runs, Opened, Free, FillEntry, NewFile
<1>2. t \in Tabs /\ files_count[t] > 0
  BY <1>1, TableInUse
<1>3. n \in Nodes /\ ref_count[n] > 0 /\ fd_array[t][e] = NoFile
  BY <1>1, <1>2, EntryHolds, FreeEntry
<1> HIDE DEF t, n, w
<1>4. Good(t, w, pwd, lost) /\ w.fds = fd_array[t] /\ lost \in Hands /\ w.ref[n] > 0
  BY <1>1, <1>2, <1>3, WorkGood DEF w
<1>5. FilesTypeOK /\ pwd \in [Tabs -> Nodes \cup {NONE}]
  BY DEF FilesInv, FilesTypeOK
<1>6. Good(t, s, pwd, up) /\ s.fds = fd_array[t]
  BY <1>2, <1>3, <1>4, <1>5, IncGood
<1> HIDE DEF s
<1>7. /\ Good(t, o, pwd, lost) /\ o.fds[e] = NewFile(n)
      /\ \A x \in Fd : x # e => o.fds[x] = s.fds[x]
  <2>1. s.fds[e] = NoFile
    BY <1>3, <1>6
  <2>2. /\ FilesTypeOK /\ t \in Tabs /\ lost \in Hands /\ n \in Nodes /\ e \in Fd
        /\ Good(t, s, pwd, up) /\ s.fds[e] = NoFile
    BY <1>2, <1>3, <1>4, <1>5, <1>6, <2>1
  <2>3. Good(t, o, pwd, lost)
    BY ONLY <2>2, FillGood
  <2>4. o.fds[e] = NewFile(n)
    BY ONLY <2>2, FillGood
  <2>5. SameBut(o.fds, s.fds, e)
    BY ONLY <2>2, FillGood
  <2>6. QED
    BY ONLY <2>3, <2>4, <2>5 DEF SameBut
<1> HIDE DEF o
<1>8. o \in WorkType /\ o.fate = "ok" /\ Refs(Tables(t, o), o.ref, o.open, o.cached, pwd', lost')
  BY <1>1, <1>7 DEF Good
<1>9. \A x \in Fd : /\ EntryOK(o.fds[x], Cardinality(Readers(t, x)))
                    /\ Readers(t, x) # {} => o.fds[x].node = fd_array[t][x].node
  BY <1>2, <1>3, <1>6, <1>7, FilledEntries
<1>10. QED
  BY <1>1, <1>2, <1>4, <1>5, <1>8, <1>9, CallStep

LEMMA ChdirStep ==
    ASSUME FilesInv, NEW p \in Procs, NEW n \in Nodes, vfs_chdir(p, n)
    PROVE  FilesInv'
<1> DEFINE t == filesp[p]
           w == Work(t)
           s == vfs_lookup(w, n)
           m == pwd[t]
           up == [lost EXCEPT ![n] = @ + 1]
           moves == n \in Dirs /\ n # m
           u == inode_ref_inc(s, n)
           v == inode_ref_dec(u, m)
           r == inode_ref_dec(IF moves THEN v ELSE s, n)
<1>1. /\ fate = "ok" /\ t # NONE /\ Set(t, r)
      /\ pwd' = IF n \in Dirs THEN [pwd EXCEPT ![t] = n] ELSE pwd
      /\ filesp' = filesp /\ reading' = reading /\ files_count' = files_count /\ seen' = seen
      /\ lost' = lost
  BY DEF vfs_chdir, Runs
<1>2. t \in Tabs /\ files_count[t] > 0 /\ m \in Nodes /\ m # NONE
  BY <1>1, TableInUse
<1>3. NONE \notin Nodes /\ FilesTypeOK /\ pwd \in [Tabs -> Nodes \cup {NONE}]
  BY CallFacts DEF FilesInv, FilesTypeOK
<1>4. /\ pwd' \in [Tabs -> Nodes \cup {NONE}] /\ \A x \in Tabs : pwd'[x] = NONE <=> pwd[x] = NONE
      /\ ~moves => pwd' = pwd
      /\ moves => pwd' = [[pwd EXCEPT ![t] = NONE] EXCEPT ![t] = n]
  BY <1>1, <1>2, <1>3
<1> HIDE DEF t, w
<1>5. /\ Good(t, w, pwd, lost) /\ w.fds = fd_array[t] /\ lost \in Hands
      /\ \A x \in Fd : EntryOK(fd_array[t][x], Cardinality(Readers(t, x)))
  BY <1>1, <1>2, WorkGood DEF w
<1>6. Good(t, s, pwd, up) /\ s.fds = fd_array[t] /\ s.ref[n] > 0
  BY <1>2, <1>3, <1>5, LookupGood
<1>7. up \in Hands /\ up[n] > 0 /\ [up EXCEPT ![n] = @ - 1] = lost
  BY ONLY <1>5, UpDown
<1> HIDE DEF s, m, up
<1>8. Good(t, r, pwd', lost) /\ r.fds = fd_array[t]
  <2>1. CASE ~moves
    <3>1. r = inode_ref_dec(s, n)
      BY <2>1
    <3>2. Good(t, inode_ref_dec(s, n), pwd, [up EXCEPT ![n] = @ - 1]) /\ inode_ref_dec(s, n).fds = s.fds
      <4>1. FilesTypeOK /\ t \in Tabs /\ n \in Nodes /\ Good(t, s, pwd, up) /\ up \in Hands /\ up[n] > 0
        BY <1>2, <1>3, <1>6, <1>7
      <4>2. Good(t, inode_ref_dec(s, n), pwd, [up EXCEPT ![n] = @ - 1])
        BY ONLY <4>1, DropGood
      <4>3. inode_ref_dec(s, n).fds = s.fds
        BY ONLY <4>1, DropGood
      <4>4. QED
        BY ONLY <4>2, <4>3
    <3>3. QED
      BY <1>4, <1>6, <1>7, <2>1, <3>1, <3>2
  <2>2. CASE moves
    <3> DEFINE up2 == [up EXCEPT ![n] = @ + 1]
               up3 == [up2 EXCEPT ![m] = @ + 1]
               pw2 == [pwd EXCEPT ![t] = NONE]
               pw3 == [pw2 EXCEPT ![t] = n]
    <3>1. Good(t, u, pwd, up2) /\ u.fds = s.fds
      BY <1>2, <1>3, <1>6, <1>7, IncGood
    <3>2. up2 \in Hands /\ up2[n] > 0 /\ [up2 EXCEPT ![n] = @ - 1] = up
      BY ONLY <1>7, UpDown
    <3> HIDE DEF u, up2
    <3>3. up3 \in Hands /\ up3[m] > 0 /\ [up3 EXCEPT ![m] = @ - 1] = up2
      BY ONLY <1>2, <3>2, UpDown
    <3>4. Good(t, u, pw2, up3)
      <4>1. u \in WorkType /\ u.fate = "ok" /\ Refs(Tables(t, u), u.ref, u.open, u.cached, pwd, up2)
        BY <3>1 DEF Good
      <4>2. pwd[t] = m /\ t \in Tabs /\ m \in Nodes /\ up2 \in [Nodes -> Nat]
            /\ pwd \in [Tabs -> Nodes \cup {NONE}]
        BY <1>2, <1>3, <3>2 DEF m, Hands
      <4>3. Refs(Tables(t, u), u.ref, u.open, u.cached, pw2, up3)
        BY ONLY <4>1, <4>2, PwdLeft
      <4>4. QED
        BY <4>1, <4>3 DEF Good
    <3> HIDE DEF up3
    <3>5. Good(t, v, pw2, up2) /\ v.fds = u.fds
      <4> HIDE DEF pw2
      <4>1. /\ FilesTypeOK /\ t \in Tabs /\ m \in Nodes /\ up3 \in Hands /\ up3[m] > 0
            /\ Good(t, u, pw2, up3)
        BY <1>2, <1>3, <3>3, <3>4
      <4>2. Good(t, v, pw2, [up3 EXCEPT ![m] = @ - 1])
        BY ONLY <4>1, DropGood
      <4>3. v.fds = u.fds
        BY ONLY <4>1, DropGood
      <4>4. QED
        BY ONLY <3>3, <4>2, <4>3
    <3> HIDE DEF v
    <3>6. Good(t, v, pw3, up)
      <4>1. v \in WorkType /\ v.fate = "ok" /\ Refs(Tables(t, v), v.ref, v.open, v.cached, pw2, up2)
        BY <3>5 DEF Good
      <4>2. pw2 \in [Tabs -> Nodes \cup {NONE}] /\ pw2[t] = NONE
        BY <1>2, <1>3
      <4> HIDE DEF pw2
      <4>3. up2 \in [Nodes -> Nat] /\ up2[n] > 0 /\ t \in Tabs /\ n \in Nodes
        BY <1>2, <3>2 DEF Hands
      <4>4. Refs(Tables(t, v), v.ref, v.open, v.cached, pw3, [up2 EXCEPT ![n] = @ - 1])
        BY ONLY <4>1, <4>2, <4>3, PwdEntered
      <4>5. QED
        BY <3>2, <4>1, <4>4 DEF Good
    <3>7. pw3 = pwd'
      BY <1>4, <2>2
    <3> HIDE DEF pw3
    <3>8. Good(t, inode_ref_dec(v, n), pw3, lost) /\ inode_ref_dec(v, n).fds = v.fds
      <4>1. /\ FilesTypeOK /\ t \in Tabs /\ n \in Nodes /\ up \in Hands /\ up[n] > 0
            /\ Good(t, v, pw3, up)
        BY <1>2, <1>3, <1>7, <3>6
      <4>2. Good(t, inode_ref_dec(v, n), pw3, [up EXCEPT ![n] = @ - 1])
        BY ONLY <4>1, DropGood
      <4>3. inode_ref_dec(v, n).fds = v.fds
        BY ONLY <4>1, DropGood
      <4>4. QED
        BY ONLY <1>7, <4>2, <4>3
    <3>9. r = inode_ref_dec(v, n)
      BY <2>2
    <3>10. QED
      BY ONLY <1>6, <3>1, <3>5, <3>7, <3>8, <3>9
  <2>3. QED
    BY <2>1, <2>2
<1> HIDE DEF r
<1>9. r \in WorkType /\ r.fate = "ok" /\ Refs(Tables(t, r), r.ref, r.open, r.cached, pwd', lost')
  BY <1>1, <1>8 DEF Good
<1>10. QED
  BY <1>1, <1>2, <1>4, <1>5, <1>8, <1>9, CallStep

\* Readers that come and go.
LEMMA ReadStep ==
    ASSUME FilesInv, NEW p \in Procs, NEW d \in Fd, file_read(p, d)
    PROVE  FilesInv'
<1>0. PICK t \in Tabs : t = filesp[p] /\ files_count[t] > 0
  <2>1. filesp[p] # NONE
    BY DEF file_read, Runs
  <2>2. QED
    BY <2>1, TableInUse
<1> DEFINE e == fd_array[t][d]
           e2 == [e EXCEPT !.count = @ + 1]
<1>1. /\ fate = "ok" /\ reading[p] = NONE /\ e.status = "OPENED"
      /\ reading' = [reading EXCEPT ![p] = d] /\ seen' = [seen EXCEPT ![p] = e.node]
      /\ fd_array' = [fd_array EXCEPT ![t][d].count = @ + 1]
      /\ filesp' = filesp /\ files_count' = files_count /\ pwd' = pwd /\ ref_count' = ref_count
      /\ open_count' = open_count /\ cached' = cached /\ fate' = fate /\ lost' = lost
  BY <1>0 DEF file_read, Runs, Opened
<1>2. t \in Tabs /\ files_count[t] > 0
  BY <1>0
<1>3. FilesTypeOK /\ fd_array \in [Tabs -> [Fd -> Entry]] /\ reading \in [Procs -> Fd \cup {NONE}]
      /\ NONE \notin Fd
  BY CallFacts DEF FilesInv, FilesTypeOK
<1>4. e \in Entry /\ e2 \in Entry /\ e2.node = e.node /\ e2.status = e.status /\ e2.count = e.count + 1
  <2>1. e \in Entry
    BY <1>2, <1>3
  <2>2. QED
    BY ONLY <2>1 DEF Entry
<1>5. fd_array' = [fd_array EXCEPT ![t] = [fd_array[t] EXCEPT ![d] = e2]]
  BY <1>1, <1>2, <1>3
<1> HIDE DEF e2
<1>6. /\ fd_array' \in [Tabs -> [Fd -> Entry]]
      /\ \A u \in Tabs, x \in Fd : fd_array'[u][x] = IF u = t /\ x = d THEN e2 ELSE fd_array[u][x]
  BY <1>2, <1>3, <1>4, <1>5
<1>7. FilesTypeOK'
  <2>1. seen' \in [Procs -> Nodes \cup {NONE}]
    BY <1>1, <1>3, <1>4 DEF FilesTypeOK, Entry
  <2>2. QED
    BY <1>1, <1>3, <1>6, <2>1 DEF FilesTypeOK
<1>8. Refs(fd_array, ref_count, open_count, cached, pwd, lost)'
  <2>1. Refs(fd_array, ref_count, open_count, cached, pwd, lost)
    BY <1>1 DEF FilesInv
  <2>2. \A u \in Tabs, x \in Fd : fd_array'[u][x].node = fd_array[u][x].node
    BY <1>4, <1>6
  <2>3. Refs(fd_array', ref_count, open_count, cached, pwd, lost)
    BY ONLY <2>1, <2>2, NodesSame
  <2>4. QED
    BY <1>1, <2>3
<1>9. /\ \A u : Users(u)' = Users(u)
      /\ Readers(t, d)' = Readers(t, d) \cup {p} /\ p \notin Readers(t, d)
      /\ \A u \in Tabs, x \in Fd : ~(u = t /\ x = d) => Readers(u, x)' = Readers(u, x)
  <2>1. \A u : Users(u)' = Users(u)
    BY <1>1 DEF Users
  <2>2. \A q \in Procs : reading'[q] = IF q = p THEN d ELSE reading[q]
    BY <1>1, <1>3
  <2>3. \A u, x : Readers(u, x)' = {q \in Procs : filesp[q] = u /\ reading'[q] = x}
    BY <1>1 DEF Readers
  <2>4. Readers(t, d)' = Readers(t, d) \cup {p} /\ p \notin Readers(t, d)
    BY <1>1, <1>3, <2>2, <2>3, <1>0 DEF Readers
  <2>5. \A u \in Tabs, x \in Fd : ~(u = t /\ x = d) => Readers(u, x)' = Readers(u, x)
    BY <1>1, <1>3, <2>2, <2>3, <1>0 DEF Readers
  <2>6. QED
    BY <2>1, <2>4, <2>5
<1>10. EntriesCounted'
  <2> SUFFICES ASSUME NEW u \in Tabs, NEW x \in Fd
               PROVE  EntryOK(fd_array'[u][x], Cardinality(Readers(u, x)'))
    BY DEF EntriesCounted, EntryOK
  <2>1. EntryOK(fd_array[u][x], Cardinality(Readers(u, x))) /\ IsFiniteSet(Readers(u, x))
    BY CallFacts DEF FilesInv, EntriesCounted
  <2>2. CASE u = t /\ x = d
    <3>1. EntryOK(e, Cardinality(Readers(t, d))) /\ fd_array'[u][x] = e2
      BY <1>6, <2>1, <2>2, <1>0
    <3>2. Cardinality(Readers(u, x)') = Cardinality(Readers(t, d)) + 1 /\ Cardinality(Readers(t, d)) \in Nat
      <4>1. Readers(t, d)' = Readers(t, d) \cup {p} /\ p \notin Readers(t, d) /\ IsFiniteSet(Readers(t, d))
        BY <1>9, <2>1, <2>2
      <4>2. Cardinality(Readers(t, d)') = Cardinality(Readers(t, d)) + 1 /\ Cardinality(Readers(t, d)) \in Nat
        BY ONLY <4>1, OneMore
      <4>3. QED
        BY ONLY <2>2, <4>2
    <3>3. EntryOK(e2, Cardinality(Readers(t, d)) + 1)
      <4>1. e.node \in Nodes /\ e.count = 1 + Cardinality(Readers(t, d))
        BY <1>1, <3>1 DEF EntryOK
      <4>2. e2.node \in Nodes /\ e2.status = "OPENED" /\ e2.count = 1 + (Cardinality(Readers(t, d)) + 1)
        BY ONLY <1>1, <1>4, <3>2, <4>1
      <4>3. QED
        BY ONLY <4>2 DEF EntryOK
    <3>4. QED
      BY <3>1, <3>2, <3>3
  <2>3. CASE ~(u = t /\ x = d)
    BY <1>6, <1>9, <2>1, <2>3
  <2>4. QED
    BY <2>2, <2>3
<1>11. TablesCounted'
  <2> SUFFICES ASSUME NEW u \in Tabs
               PROVE  /\ files_count'[u] = Cardinality(Users(u)')
                      /\ pwd'[u] = NONE <=> files_count'[u] = 0
                      /\ files_count'[u] = 0 => \A x \in Fd : fd_array'[u][x] = NoFile
    BY DEF TablesCounted
  <2>1. /\ files_count[u] = Cardinality(Users(u))
        /\ pwd[u] = NONE <=> files_count[u] = 0
        /\ files_count[u] = 0 => \A x \in Fd : fd_array[u][x] = NoFile
    BY DEF FilesInv, TablesCounted
  <2>2. files_count[u] = 0 => u # t
    BY <1>2
  <2>3. QED
    BY <1>1, <1>6, <1>9, <2>1, <2>2
<1>12. ReaderSees'
  <2> SUFFICES ASSUME NEW q \in Procs, reading'[q] # NONE
               PROVE  /\ filesp'[q] \in Tabs /\ reading'[q] \in Fd
                      /\ fd_array'[filesp'[q]][reading'[q]].node = seen'[q]
    BY DEF ReaderSees
  <2>0. reading'[q] = (IF q = p THEN d ELSE reading[q])
    BY <1>1, <1>3
  <2>1. CASE q = p
    <3>1. seen'[q] = e.node
      BY <1>1, <1>3, <2>1 DEF FilesTypeOK
    <3>2. filesp'[q] = t /\ reading'[q] = d
      BY <1>1, <2>0, <2>1, <1>0
    <3>3. QED
      BY <1>2, <1>4, <1>6, <3>1, <3>2
  <2>2. CASE q # p
    <3>1. seen'[q] = seen[q] /\ reading'[q] = reading[q] /\ filesp'[q] = filesp[q]
      BY <1>1, <2>0, <2>2
    <3>2. filesp[q] \in Tabs /\ reading[q] \in Fd /\ fd_array[filesp[q]][reading[q]].node = seen[q]
      BY <3>1 DEF FilesInv, ReaderSees
    <3>3. fd_array'[filesp[q]][reading[q]].node = fd_array[filesp[q]][reading[q]].node
      BY <1>4, <1>6, <3>2, <1>0
    <3>4. QED
      BY <3>1, <3>2, <3>3
  <2>3. QED
    BY <2>1, <2>2
<1>13. QED
  BY <1>1, <1>7, <1>8, <1>10, <1>11, <1>12 DEF FilesInv

LEMMA ReadDoneStep ==
    ASSUME FilesInv, NEW p \in Procs, file_read_done(p)
    PROVE  FilesInv'
<1>0. PICK t \in Tabs, d \in Fd : t = filesp[p] /\ d = reading[p]
  BY CallFacts DEF file_read_done
<1> DEFINE s == Work(t)
           r == fd_array_release(s, d)
           e == fd_array[t][d]
           k == Cardinality(Readers(t, d))
<1>1. /\ fate = "ok" /\ reading[p] # NONE /\ Set(t, r)
      /\ reading' = [reading EXCEPT ![p] = NONE] /\ seen' = [seen EXCEPT ![p] = NONE]
      /\ filesp' = filesp /\ files_count' = files_count /\ pwd' = pwd /\ lost' = lost
  BY <1>0 DEF file_read_done
<1>2. FilesTypeOK /\ reading \in [Procs -> Fd \cup {NONE}] /\ seen \in [Procs -> Nodes \cup {NONE}]
      /\ NONE \notin Fd /\ fd_array \in [Tabs -> [Fd -> Entry]]
  BY CallFacts DEF FilesInv, FilesTypeOK
<1>3. /\ Good(t, s, pwd, lost) /\ s.fds = fd_array[t] /\ lost \in Hands /\ EntryOK(e, k)
  BY <1>1, WorkGood
<1>4. p \in Readers(t, d) /\ IsFiniteSet(Readers(t, d))
  <2>1. p \in Readers(t, d)
    BY <1>0 DEF Readers
  <2>2. QED
    BY <2>1, CallFacts
<1>5. k \in Nat /\ k > 0
  BY <1>4, OneLess
<1>6. files_count[t] > 0
  <2>1. filesp[p] # NONE
    BY <1>0, CallFacts
  <2>2. QED
    BY <1>0, <2>1, TableInUse
<1> HIDE DEF k, s
<1>7. e \in Entry /\ e.count \in Nat /\ e.node \in Nodes /\ e.count > 0 /\ (e.count = 1 => e.status = "CLOSED")
      /\ e.count = (IF e.status = "OPENED" THEN 1 ELSE 0) + k
  <2>1. e \in Entry
    BY <1>2
  <2>2. e.count \in Nat /\ e.status \in {"NONE", "OPENED", "CLOSED"}
    BY <2>1 DEF Entry
  <2>3. /\ e.status = "NONE" => e = NoFile
        /\ e.status # "NONE" => e.node \in Nodes
        /\ e.count = (IF e.status = "OPENED" THEN 1 ELSE 0) + k
    BY <1>3 DEF EntryOK
  <2>4. e.count > 0
    BY <1>5, <2>2, <2>3
  <2>5. e.status # "NONE"
    BY <2>3, <2>4 DEF NoFile
  <2>6. e.count = 1 => e.status = "CLOSED"
    BY <1>5, <2>2, <2>3, <2>5
  <2>7. QED
    BY <2>1, <2>2, <2>3, <2>4, <2>5, <2>6
<1> HIDE DEF e
<1>8. Good(t, r, pwd, lost) /\ r.fds = [fd_array[t] EXCEPT ![d] = Released(e)]
  <2>1. s.fds[d] = e
    BY <1>3 DEF e
  <2>2. /\ FilesTypeOK /\ t \in Tabs /\ lost \in Hands /\ Good(t, s, pwd, lost) /\ d \in Fd
        /\ s.fds[d].node \in Nodes /\ s.fds[d].count > 0 /\ (s.fds[d].count = 1 => s.fds[d].status = "CLOSED")
    BY <1>2, <1>3, <1>7, <2>1
  <2>3. Good(t, r, pwd, lost)
    BY ONLY <2>2, ReleaseGood
  <2>4. r.fds = [s.fds EXCEPT ![d] = Released(s.fds[d])]
    BY ONLY <2>2, ReleaseGood
  <2>5. QED
    BY ONLY <1>3, <2>1, <2>3, <2>4
<1>9. EntryOK(Released(e), k - 1) /\ (k # 1 => Released(e).node = e.node)
  <2>1. CASE e.count = 1
    <3>1. k = 1
      BY ONLY <1>5, <1>7, <2>1
    <3>2. Released(e) = NoFile
      BY <2>1 DEF Released
    <3>3. QED
      BY <3>1, <3>2 DEF EntryOK, NoFile
  <2>2. CASE e.count # 1
    <3>1. Released(e) = [e EXCEPT !.count = @ - 1]
      BY <2>2 DEF Released
    <3>2. Released(e).count = e.count - 1 /\ Released(e).status = e.status /\ Released(e).node = e.node
      BY <1>7, <3>1 DEF Entry
    <3>3. e.status # "NONE" /\ e.count - 1 > 0
      BY <1>3, <1>7, <2>2 DEF EntryOK, NoFile
    <3>4. e.count - 1 = (IF e.status = "OPENED" THEN 1 ELSE 0) + (k - 1)
      BY ONLY <1>5, <1>7
    <3>5. QED
      BY ONLY <1>7, <3>2, <3>3, <3>4 DEF EntryOK
  <2>3. QED
    BY <2>1, <2>2
<1> HIDE DEF r
<1>10. r \in WorkType /\ r.fate = "ok" /\ Refs(Tables(t, r), r.ref, r.open, r.cached, pwd, lost)
  BY <1>8 DEF Good
<1>11. /\ fd_array' = Tables(t, r) /\ fd_array' \in [Tabs -> [Fd -> Entry]]
       /\ \A u \in Tabs : fd_array'[u] = IF u = t THEN r.fds ELSE fd_array[u]
       /\ ref_count' = r.ref /\ open_count' = r.open /\ cached' = r.cached /\ fate' = "ok"
       /\ ref_count' \in [Nodes -> Nat] /\ open_count' \in [Nodes -> Nat] /\ cached' \in SUBSET Nodes
  BY <1>1, <1>10, SetFacts
<1>12. \A u \in Tabs, x \in Fd : fd_array'[u][x] = IF u = t /\ x = d THEN Released(e) ELSE fd_array[u][x]
  BY <1>2, <1>8, <1>11
<1>13. FilesTypeOK'
  BY <1>1, <1>2, <1>11 DEF FilesTypeOK
<1>14. Refs(fd_array, ref_count, open_count, cached, pwd, lost)'
  BY <1>1, <1>10, <1>11
<1>15. /\ \A u : Users(u)' = Users(u)
       /\ Readers(t, d)' = Readers(t, d) \ {p}
       /\ \A u \in Tabs, x \in Fd : ~(u = t /\ x = d) => Readers(u, x)' = Readers(u, x)
  <2>1. \A u : Users(u)' = Users(u)
    BY <1>1 DEF Users
  <2>2. \A q \in Procs : reading'[q] = IF q = p THEN NONE ELSE reading[q]
    BY <1>1, <1>2
  <2>3. \A u, x : Readers(u, x)' = {q \in Procs : filesp[q] = u /\ reading'[q] = x}
    BY <1>1 DEF Readers
  <2>4. /\ \A u, x, q : q \in Readers(u, x)' <=> q \in Procs /\ filesp[q] = u /\ reading'[q] = x
        /\ \A u, x, q : q \in Readers(u, x) <=> q \in Procs /\ filesp[q] = u /\ reading[q] = x
    BY <2>3 DEF Readers
  <2>5. d # NONE /\ \A x \in Fd : x # NONE
    BY <1>2
  <2>6. Readers(t, d)' = Readers(t, d) \ {p}
    <3>1. \A q : q \in Readers(t, d)' <=> q \in Readers(t, d) /\ q # p
      BY ONLY <2>2, <2>4, <2>5
    <3>2. QED
      BY ONLY <3>1
  <2>7. \A u \in Tabs, x \in Fd : ~(u = t /\ x = d) => Readers(u, x)' = Readers(u, x)
    <3> SUFFICES ASSUME NEW u \in Tabs, NEW x \in Fd, ~(u = t /\ x = d)
                 PROVE  Readers(u, x)' = Readers(u, x)
      OBVIOUS
    <3>1. p \notin Readers(u, x)
      BY <1>0, <2>4
    <3>2. \A q : q \in Readers(u, x)' <=> q \in Readers(u, x)
      BY ONLY <2>2, <2>4, <2>5, <3>1, x \in Fd
    <3>3. QED
      BY ONLY <3>2
  <2>8. QED
    BY <2>1, <2>6, <2>7
<1>16. Cardinality(Readers(t, d)') = k - 1
  BY ONLY <1>4, <1>15, OneLess DEF k
<1>17. EntriesCounted'
  <2> SUFFICES ASSUME NEW u \in Tabs, NEW x \in Fd
               PROVE  EntryOK(fd_array'[u][x], Cardinality(Readers(u, x)'))
    BY DEF EntriesCounted, EntryOK
  <2>1. EntryOK(fd_array[u][x], Cardinality(Readers(u, x)))
    BY DEF FilesInv, EntriesCounted
  <2>2. CASE u = t /\ x = d
    BY ONLY <1>9, <1>12, <1>16, <2>2, t \in Tabs, d \in Fd
  <2>3. CASE ~(u = t /\ x = d)
    BY <1>12, <1>15, <2>1, <2>3
  <2>4. QED
    BY <2>2, <2>3
<1>18. TablesCounted'
  <2> SUFFICES ASSUME NEW u \in Tabs
               PROVE  /\ files_count'[u] = Cardinality(Users(u)')
                      /\ pwd'[u] = NONE <=> files_count'[u] = 0
                      /\ files_count'[u] = 0 => \A x \in Fd : fd_array'[u][x] = NoFile
    BY DEF TablesCounted
  <2>1. /\ files_count[u] = Cardinality(Users(u))
        /\ pwd[u] = NONE <=> files_count[u] = 0
        /\ files_count[u] = 0 => \A x \in Fd : fd_array[u][x] = NoFile
    BY DEF FilesInv, TablesCounted
  <2>2. files_count[u] = 0 => u # t
    BY <1>6
  <2>3. QED
    BY <1>1, <1>12, <1>15, <2>1, <2>2
<1>19. ReaderSees'
  <2> SUFFICES ASSUME NEW q \in Procs, reading'[q] # NONE
               PROVE  /\ filesp'[q] \in Tabs /\ reading'[q] \in Fd
                      /\ fd_array'[filesp'[q]][reading'[q]].node = seen'[q]
    BY DEF ReaderSees
  <2>1. q # p /\ reading'[q] = reading[q] /\ seen'[q] = seen[q] /\ filesp'[q] = filesp[q]
    BY <1>1, <1>2
  <2>2. filesp[q] \in Tabs /\ reading[q] \in Fd /\ fd_array[filesp[q]][reading[q]].node = seen[q]
    BY <2>1 DEF FilesInv, ReaderSees
  <2>3. CASE filesp[q] = t /\ reading[q] = d
    <3>1. q \in Readers(t, d) /\ q \in Readers(t, d) \ {p}
      BY <2>1, <2>3 DEF Readers
    <3>2. k # 1
      <4>1. IsFiniteSet(Readers(t, d) \ {p}) /\ Cardinality(Readers(t, d) \ {p}) = k - 1
        BY ONLY <1>4, OneLess DEF k
      <4>2. Cardinality(Readers(t, d) \ {p}) > 0
        BY ONLY <3>1, <4>1, OneLess
      <4>3. QED
        BY ONLY <1>5, <4>1, <4>2
    <3>3. fd_array'[t][d].node = e.node
      BY <1>9, <1>12, <3>2
    <3>4. QED
      BY <2>1, <2>2, <2>3, <3>3 DEF e
  <2>4. CASE ~(filesp[q] = t /\ reading[q] = d)
    BY <1>12, <2>1, <2>2, <2>4
  <2>5. QED
    BY <2>3, <2>4
<1>20. QED
  BY <1>11, <1>13, <1>14, <1>17, <1>18, <1>19 DEF FilesInv

LEMMA ForkSharedStep ==
    ASSUME FilesInv, NEW p \in Procs, NEW c \in Procs, fork_shared(p, c)
    PROVE  FilesInv'
<1>0. PICK t \in Tabs : t = filesp[p] /\ files_count[t] > 0 /\ files_count[t] \in Nat
  <2>1. filesp[p] # NONE
    BY DEF fork_shared, Runs
  <2>2. QED
    BY <2>1, TableInUse
<1>1. /\ filesp[c] = NONE /\ filesp' = [filesp EXCEPT ![c] = t]
      /\ files_count' = [files_count EXCEPT ![t] = @ + 1]
      /\ reading' = reading /\ pwd' = pwd /\ fd_array' = fd_array /\ ref_count' = ref_count
      /\ open_count' = open_count /\ cached' = cached /\ fate' = fate /\ seen' = seen /\ lost' = lost
  BY <1>0 DEF fork_shared
<1>2. /\ FilesTypeOK /\ filesp \in [Procs -> Tabs \cup {NONE}] /\ files_count \in [Tabs -> Nat]
      /\ NONE \notin Tabs /\ NONE \notin Fd /\ reading[c] = NONE
  BY <1>1, CallFacts DEF FilesInv, FilesTypeOK
<1>3. FilesTypeOK'
  BY <1>1, <1>2 DEF FilesTypeOK
<1>4. (fate # "assert")' /\ (fate = "ok" => Refs(fd_array, ref_count, open_count, cached, pwd, lost))'
  BY <1>1 DEF FilesInv
<1>5. \A q \in Procs : filesp'[q] = IF q = c THEN t ELSE filesp[q]
  BY <1>1, <1>2
<1>6. /\ \A u, x : Readers(u, x)' = {q \in Procs : filesp'[q] = u /\ reading[q] = x}
      /\ \A u : Users(u)' = {q \in Procs : filesp'[q] = u}
  BY <1>1 DEF Readers, Users
<1>7. /\ \A u \in Tabs, x \in Fd : Readers(u, x)' = Readers(u, x)
      /\ Users(t)' = Users(t) \cup {c} /\ c \notin Users(t)
      /\ \A u \in Tabs : u # t => Users(u)' = Users(u)
  <2>1. \A u \in Tabs, x \in Fd : Readers(u, x)' = Readers(u, x)
    BY <1>2, <1>5, <1>6 DEF Readers
  <2>2. Users(t)' = Users(t) \cup {c} /\ c \notin Users(t)
    BY <1>1, <1>2, <1>5, <1>6 DEF Users
  <2>3. \A u \in Tabs : u # t => Users(u)' = Users(u)
    BY <1>1, <1>2, <1>5, <1>6 DEF Users
  <2>4. QED
    BY <2>1, <2>2, <2>3
<1>8. EntriesCounted'
  <2> SUFFICES ASSUME NEW u \in Tabs, NEW x \in Fd
               PROVE  EntryOK(fd_array'[u][x], Cardinality(Readers(u, x)'))
    BY DEF EntriesCounted, EntryOK
  <2>1. EntryOK(fd_array[u][x], Cardinality(Readers(u, x)))
    BY DEF FilesInv, EntriesCounted
  <2>2. QED
    BY <1>1, <1>7, <2>1
<1>9. TablesCounted'
  <2> SUFFICES ASSUME NEW u \in Tabs
               PROVE  /\ files_count'[u] = Cardinality(Users(u)')
                      /\ pwd'[u] = NONE <=> files_count'[u] = 0
                      /\ files_count'[u] = 0 => \A x \in Fd : fd_array'[u][x] = NoFile
    BY DEF TablesCounted
  <2>1. /\ files_count[u] = Cardinality(Users(u))
        /\ pwd[u] = NONE <=> files_count[u] = 0
        /\ files_count[u] = 0 => \A x \in Fd : fd_array[u][x] = NoFile
        /\ IsFiniteSet(Users(u))
    BY CallFacts DEF FilesInv, TablesCounted
  <2>2. CASE u = t
    <3>1. Cardinality(Users(t)') = Cardinality(Users(t)) + 1 /\ Cardinality(Users(t)) \in Nat
      BY <1>7, <2>1, <2>2, OneMore
    <3>2. files_count'[t] = files_count[t] + 1 /\ files_count'[t] # 0
      BY <1>0, <1>1, <1>2
    <3>3. QED
      BY <1>0, <1>1, <2>1, <2>2, <3>1, <3>2
  <2>3. CASE u # t
    BY <1>1, <1>2, <1>7, <2>1, <2>3
  <2>4. QED
    BY <2>2, <2>3
<1>10. ReaderSees'
  <2> SUFFICES ASSUME NEW q \in Procs, reading[q] # NONE
               PROVE  /\ filesp'[q] \in Tabs /\ reading[q] \in Fd
                      /\ fd_array[filesp'[q]][reading[q]].node = seen[q]
    BY <1>1 DEF ReaderSees
  <2>1. q # c
    BY <1>2
  <2>2. QED
    BY <1>5, <2>1 DEF FilesInv, ReaderSees
<1>11. QED
  BY <1>3, <1>4, <1>8, <1>9, <1>10 DEF FilesInv

\* The last user of a table takes it with him.
LEMMA PutStep ==
    ASSUME FilesInv, NEW p \in Procs, put_files(p)
    PROVE  FilesInv'
<1>0. PICK t \in Tabs : /\ t = filesp[p] /\ files_count[t] > 0 /\ files_count[t] \in Nat
                        /\ pwd[t] \in Nodes /\ pwd[t] # NONE
  <2>1. filesp[p] # NONE
    BY DEF put_files, Runs
  <2>2. QED
    BY <2>1, TableInUse
<1> DEFINE m == pwd[t]
           w == Work(t)
           v == inode_ref_dec(w, m)
           s == close_from(v, 0)
           z == Asserted(s, \A d \in Fd : s.fds[d].status = "NONE")
<1>1. /\ fate = "ok" /\ reading[p] = NONE
      /\ filesp' = [filesp EXCEPT ![p] = NONE] /\ files_count' = [files_count EXCEPT ![t] = @ - 1]
      /\ reading' = reading /\ seen' = seen /\ lost' = lost
      /\ IF files_count[t] = 1
            THEN Set(t, z) /\ pwd' = [pwd EXCEPT ![t] = NONE]
            ELSE UNCHANGED <<pwd, fd_array, ref_count, open_count, cached, fate>>
  BY <1>0 DEF put_files, Runs
<1>2. /\ FilesTypeOK /\ filesp \in [Procs -> Tabs \cup {NONE}] /\ files_count \in [Tabs -> Nat]
      /\ NONE \notin Tabs /\ NONE \notin Fd /\ pwd \in [Tabs -> Nodes \cup {NONE}]
      /\ fd_array \in [Tabs -> [Fd -> Entry]]
  BY CallFacts DEF FilesInv, FilesTypeOK
<1>3. \A q \in Procs : filesp'[q] = IF q = p THEN NONE ELSE filesp[q]
  BY <1>1, <1>2
<1>4. /\ \A u, x, q : q \in Readers(u, x)' <=> q \in Procs /\ filesp'[q] = u /\ reading[q] = x
      /\ \A u, x, q : q \in Readers(u, x) <=> q \in Procs /\ filesp[q] = u /\ reading[q] = x
      /\ \A u, q : q \in Users(u)' <=> q \in Procs /\ filesp'[q] = u
      /\ \A u, q : q \in Users(u) <=> q \in Procs /\ filesp[q] = u
  BY <1>1 DEF Readers, Users
<1>5. /\ \A u \in Tabs, x \in Fd : Readers(u, x)' = Readers(u, x)
      /\ Users(t)' = Users(t) \ {p} /\ p \in Users(t)
      /\ \A u \in Tabs : u # t => Users(u)' = Users(u)
  <2>0. /\ reading[p] = NONE /\ \A u \in Tabs : u # NONE
        /\ \A x \in Fd : x # NONE
    BY <1>1, <1>2
  <2>1. ASSUME NEW u \in Tabs, NEW x \in Fd PROVE Readers(u, x)' = Readers(u, x)
    <3>1. \A q : q \in Readers(u, x)' <=> q \in Readers(u, x)
      BY ONLY <1>3, <1>4, <2>0, <2>1
    <3>2. QED
      BY ONLY <3>1
  <2>2. Users(t)' = Users(t) \ {p} /\ p \in Users(t)
    <3>1. \A q : q \in Users(t)' <=> q \in Users(t) /\ q # p
      BY <1>3, <1>4, <2>0
    <3>2. p \in Users(t)
      BY <1>0, <1>4
    <3>3. QED
      BY ONLY <3>1, <3>2
  <2>3. ASSUME NEW u \in Tabs, u # t PROVE Users(u)' = Users(u)
    <3>1. \A q : q \in Users(u)' <=> q \in Users(u)
      BY <1>0, <1>3, <1>4, <2>0, <2>3
    <3>2. QED
      BY ONLY <3>1
  <2>4. QED
    BY <2>1, <2>2, <2>3
<1>6. /\ files_count[t] = Cardinality(Users(t)) /\ IsFiniteSet(Users(t))
      /\ Cardinality(Users(t)') = files_count[t] - 1
  <2>1. files_count[t] = Cardinality(Users(t)) /\ IsFiniteSet(Users(t))
    BY CallFacts DEF FilesInv, TablesCounted
  <2>2. QED
    BY ONLY <1>5, <2>1, OneLess
<1>7. /\ files_count' \in [Tabs -> Nat] /\ files_count'[t] = files_count[t] - 1
      /\ \A u \in Tabs : u # t => files_count'[u] = files_count[u]
  BY <1>0, <1>1, <1>2
<1>8. \A q \in Procs : reading[q] # NONE => q # p /\ filesp'[q] = filesp[q]
  BY <1>1, <1>3
<1>9. CASE files_count[t] # 1
  <2>1. /\ pwd' = pwd /\ fd_array' = fd_array /\ ref_count' = ref_count /\ open_count' = open_count
        /\ cached' = cached /\ fate' = fate
    BY <1>1, <1>9
  <2>2. FilesTypeOK'
    BY <1>1, <1>2, <1>7, <2>1 DEF FilesTypeOK
  <2>3. (fate # "assert")' /\ (fate = "ok" => Refs(fd_array, ref_count, open_count, cached, pwd, lost))'
    BY <1>1, <2>1 DEF FilesInv
  <2>4. EntriesCounted'
    <3> SUFFICES ASSUME NEW u \in Tabs, NEW x \in Fd
                 PROVE  EntryOK(fd_array'[u][x], Cardinality(Readers(u, x)'))
      BY DEF EntriesCounted, EntryOK
    <3>1. EntryOK(fd_array[u][x], Cardinality(Readers(u, x)))
      BY DEF FilesInv, EntriesCounted
    <3>2. QED
      BY <1>5, <2>1, <3>1
  <2>5. TablesCounted'
    <3> SUFFICES ASSUME NEW u \in Tabs
                 PROVE  /\ files_count'[u] = Cardinality(Users(u)')
                        /\ pwd'[u] = NONE <=> files_count'[u] = 0
                        /\ files_count'[u] = 0 => \A x \in Fd : fd_array'[u][x] = NoFile
      BY DEF TablesCounted
    <3>1. /\ files_count[u] = Cardinality(Users(u))
          /\ pwd[u] = NONE <=> files_count[u] = 0
          /\ files_count[u] = 0 => \A x \in Fd : fd_array[u][x] = NoFile
      BY DEF FilesInv, TablesCounted
    <3>2. CASE u = t
      <4>1. files_count'[u] # 0 /\ files_count'[u] = Cardinality(Users(u)')
        BY <1>0, <1>6, <1>7, <1>9, <3>2
      <4>2. QED
        BY <1>0, <2>1, <3>2, <4>1
    <3>3. CASE u # t
      BY <1>5, <1>7, <2>1, <3>1, <3>3
    <3>4. QED
      BY <3>2, <3>3
  <2>6. ReaderSees'
    <3> SUFFICES ASSUME NEW q \in Procs, reading[q] # NONE
                 PROVE  /\ filesp'[q] \in Tabs /\ reading[q] \in Fd
                        /\ fd_array[filesp'[q]][reading[q]].node = seen[q]
      BY <1>1, <2>1 DEF ReaderSees
    <3>1. QED
      BY <1>8 DEF FilesInv, ReaderSees
  <2>7. QED
    BY <2>2, <2>3, <2>4, <2>5, <2>6 DEF FilesInv
<1>10. CASE files_count[t] = 1
  <2>1. \A x \in Fd : Readers(t, x) = {} /\ Cardinality(Readers(t, x)) = 0
    <3>1. Cardinality(Users(t) \ {p}) = 0 /\ IsFiniteSet(Users(t) \ {p})
      BY <1>5, <1>6, <1>10, OneLess
    <3>2. Users(t) \ {p} = {}
      BY ONLY <3>1, FS_EmptySet
    <3>3. \A x \in Fd : Readers(t, x) = {}
      <4> SUFFICES ASSUME NEW x \in Fd, NEW q \in Readers(t, x) PROVE FALSE
        OBVIOUS
      <4>1. q \in Procs /\ filesp[q] = t /\ reading[q] = x
        BY <1>4
      <4>2. q \in Users(t) /\ q # p
        BY <1>1, <1>2, <1>4, <4>1
      <4>3. QED
        BY ONLY <3>2, <4>2
    <3>4. QED
      BY <3>3, FS_EmptySet
  <2> DEFINE pw2 == [pwd EXCEPT ![t] = NONE]
             up == [lost EXCEPT ![m] = @ + 1]
             R == [x \in Fd |-> 0]
  <2>2. /\ Good(t, w, pwd, lost) /\ w.fds = fd_array[t] /\ lost \in Hands
        /\ \A x \in Fd : EntryOK(fd_array[t][x], Cardinality(Readers(t, x)))
    BY <1>1, WorkGood
  <2> HIDE DEF w
  <2>3. up \in Hands /\ up[m] > 0 /\ [up EXCEPT ![m] = @ - 1] = lost
    BY ONLY <1>0, <2>2, UpDown
  <2>4. Good(t, w, pw2, up)
    <3>1. w \in WorkType /\ w.fate = "ok" /\ Refs(Tables(t, w), w.ref, w.open, w.cached, pwd, lost)
      BY <2>2 DEF Good
    <3>2. pwd[t] = m /\ t \in Tabs /\ m \in Nodes /\ lost \in [Nodes -> Nat]
          /\ pwd \in [Tabs -> Nodes \cup {NONE}]
      BY <1>0, <1>2, <2>2 DEF Hands
    <3> HIDE DEF m
    <3>3. Refs(Tables(t, w), w.ref, w.open, w.cached, pw2, up)
      BY ONLY <3>1, <3>2, PwdLeft
    <3>4. QED
      BY <3>1, <3>3 DEF Good
  <2> HIDE DEF up, pw2
  <2>5. Good(t, v, pw2, lost) /\ v.fds = fd_array[t]
    <3>1. FilesTypeOK /\ t \in Tabs /\ m \in Nodes /\ Good(t, w, pw2, up) /\ up \in Hands /\ up[m] > 0
      BY <1>0, <1>2, <2>3, <2>4
    <3> HIDE DEF m
    <3>2. Good(t, v, pw2, [up EXCEPT ![m] = @ - 1])
      BY ONLY <3>1, DropGood
    <3>3. v.fds = w.fds
      BY ONLY <3>1, DropGood
    <3>4. QED
      BY ONLY <2>2, <2>3, <3>2, <3>3 DEF m
  <2> HIDE DEF v
  <2>6. R \in [Fd -> Nat] /\ \A x \in Fd : R[x] = 0
    OBVIOUS
  <2> HIDE DEF R
  <2>7. /\ Good(t, s, pw2, lost)
        /\ \A x \in Fd : EntryOK(s.fds[x], 0) /\ (x >= 0 => s.fds[x].status # "OPENED")
    <3>1. \A x \in Fd : EntryOK(v.fds[x], R[x])
      BY <2>1, <2>2, <2>5, <2>6
    <3>2. /\ Good(t, s, pw2, lost)
          /\ \A x \in Fd : EntryOK(s.fds[x], R[x]) /\ (x >= 0 => s.fds[x].status # "OPENED")
      BY <1>2, <2>2, <2>5, <2>6, <3>1, LoopGood
    <3>3. QED
      BY ONLY <2>6, <3>2
  <2> HIDE DEF s
  <2>8. s \in WorkType /\ s.fate = "ok" /\ Refs(Tables(t, s), s.ref, s.open, s.cached, pw2, lost)
    BY <2>7 DEF Good
  <2>9. \A x \in Fd : s.fds[x] = NoFile
    <3> TAKE x \in Fd
    <3>1. s.fds[x].status # "OPENED" /\ EntryOK(s.fds[x], 0)
      BY <2>7, FilesAssumption DEF Fd
    <3>2. s.fds[x].count = 0
      BY ONLY <3>1 DEF EntryOK
    <3>3. s.fds[x] \in Entry
      BY <2>8 DEF WorkType
    <3>4. s.fds[x].status = "NONE"
      BY ONLY <3>1, <3>2, <3>3 DEF EntryOK, Entry
    <3>5. QED
      BY ONLY <3>1, <3>4 DEF EntryOK
  <2>10. z = s
    BY <2>9 DEF Asserted, NoFile
  <2>11. Set(t, s) /\ pwd' = pw2
    BY <1>1, <1>10, <2>10 DEF pw2
  <2>12. /\ fd_array' = Tables(t, s) /\ fd_array' \in [Tabs -> [Fd -> Entry]]
         /\ \A u \in Tabs : fd_array'[u] = IF u = t THEN s.fds ELSE fd_array[u]
         /\ ref_count' = s.ref /\ open_count' = s.open /\ cached' = s.cached /\ fate' = "ok"
         /\ ref_count' \in [Nodes -> Nat] /\ open_count' \in [Nodes -> Nat] /\ cached' \in SUBSET Nodes
    BY <2>8, <2>11, SetFacts
  <2>13. pwd' \in [Tabs -> Nodes \cup {NONE}] /\ pwd'[t] = NONE /\ \A u \in Tabs : u # t => pwd'[u] = pwd[u]
    BY <1>2, <2>11 DEF pw2
  <2>14. FilesTypeOK'
    BY <1>1, <1>2, <1>7, <2>12, <2>13 DEF FilesTypeOK
  <2>15. Refs(fd_array, ref_count, open_count, cached, pwd, lost)'
    BY <1>1, <2>8, <2>11, <2>12
  <2>16. EntriesCounted'
    <3> SUFFICES ASSUME NEW u \in Tabs, NEW x \in Fd
                 PROVE  EntryOK(fd_array'[u][x], Cardinality(Readers(u, x)'))
      BY DEF EntriesCounted, EntryOK
    <3>1. EntryOK(fd_array[u][x], Cardinality(Readers(u, x)))
      BY DEF FilesInv, EntriesCounted
    <3>2. CASE u = t
      <4>1. fd_array'[u][x] = s.fds[x] /\ Cardinality(Readers(u, x)') = 0
        BY <1>5, <2>1, <2>12, <3>2
      <4>2. QED
        BY <2>7, <4>1
    <3>3. CASE u # t
      BY <1>5, <2>12, <3>1, <3>3
    <3>4. QED
      BY <3>2, <3>3
  <2>17. TablesCounted'
    <3> SUFFICES ASSUME NEW u \in Tabs
                 PROVE  /\ files_count'[u] = Cardinality(Users(u)')
                        /\ pwd'[u] = NONE <=> files_count'[u] = 0
                        /\ files_count'[u] = 0 => \A x \in Fd : fd_array'[u][x] = NoFile
      BY DEF TablesCounted
    <3>1. /\ files_count[u] = Cardinality(Users(u))
          /\ pwd[u] = NONE <=> files_count[u] = 0
          /\ files_count[u] = 0 => \A x \in Fd : fd_array[u][x] = NoFile
      BY DEF FilesInv, TablesCounted
    <3>2. CASE u = t
      <4>1. files_count'[u] = 0 /\ Cardinality(Users(u)') = 0
        BY <1>6, <1>7, <1>10, <3>2
      <4>2. QED
        BY <2>9, <2>12, <2>13, <3>2, <4>1
    <3>3. CASE u # t
      BY <1>5, <1>7, <2>12, <2>13, <3>1, <3>3
    <3>4. QED
      BY <3>2, <3>3
  <2>18. ReaderSees'
    <3> SUFFICES ASSUME NEW q \in Procs, reading[q] # NONE
                 PROVE  /\ filesp'[q] \in Tabs /\ reading[q] \in Fd
                        /\ fd_array'[filesp'[q]][reading[q]].node = seen[q]
      BY <1>1 DEF ReaderSees
    <3>1. filesp[q] \in Tabs /\ reading[q] \in Fd /\ fd_array[filesp[q]][reading[q]].node = seen[q]
      BY DEF FilesInv, ReaderSees
    <3>2. filesp[q] # t
      <4>1. q \in Readers(filesp[q], reading[q])
        BY <1>4
      <4>2. QED
        BY <2>1, <3>1, <4>1
    <3>3. QED
      BY <1>8, <2>12, <3>1, <3>2
  <2>19. QED
    BY <2>12, <2>14, <2>15, <2>16, <2>17, <2>18 DEF FilesInv
<1>11. QED
  BY <1>9, <1>10

\* A table nobody uses: fork gives it to the child.
LEMMA UnusedTable ==
    ASSUME FilesInv, NEW t \in Tabs, files_count[t] = 0
    PROVE  /\ pwd[t] = NONE /\ \A d \in Fd : fd_array[t][d] = NoFile
           /\ \A p \in Procs : filesp[p] # t
<1>1. /\ Cardinality(Users(t)) = 0 /\ IsFiniteSet(Users(t)) /\ pwd[t] = NONE
      /\ \A d \in Fd : fd_array[t][d] = NoFile
  BY CallFacts DEF FilesInv, TablesCounted
<1>2. Users(t) = {}
  BY <1>1, FS_EmptySet
<1>3. QED
  BY <1>1, <1>2 DEF Users

\* dup_files: the new table holds a reference for each entry it copies and one to
\* the working directory, and all those inodes were in memory.
Duplicated(F2, ref2, open2, pw2, At, old, t) ==
    /\ \A n \in Nodes : At[n] = {d \in copied(old) : fd_array[old][d].node = n}
    /\ \A u \in Tabs, d \in Fd : F2[u][d].node =
          IF u = t THEN (IF d \in copied(old) THEN fd_array[old][d].node ELSE NONE)
          ELSE fd_array[u][d].node
    /\ pw2 = [pwd EXCEPT ![t] = pwd[old]]
    /\ \A n \in Nodes : ref2[n] =
          ref_count[n] + Cardinality(At[n]) + (IF pwd[old] = n THEN 1 ELSE 0)
    /\ \A n \in Nodes : open2[n] = open_count[n] + Cardinality(At[n])

LEMMA DupRefs ==
    ASSUME FilesInv, fate = "ok", NEW old \in Tabs, files_count[old] > 0,
           NEW t \in Tabs, files_count[t] = 0,
           NEW At, NEW F2, NEW pw2, NEW ref2, NEW open2,
           Duplicated(F2, ref2, open2, pw2, At, old, t)
    PROVE  /\ Refs(F2, ref2, open2, cached, pw2, lost)
           /\ \A n \in Nodes : ref2[n] \in Nat /\ open2[n] \in Nat
<1>0. /\ lost \in [Nodes -> Nat] /\ Refs(fd_array, ref_count, open_count, cached, pwd, lost)
      /\ pwd \in [Tabs -> Nodes \cup {NONE}] /\ NONE \notin Nodes
      /\ pwd[t] = NONE /\ (\A d \in Fd : fd_array[t][d] = NoFile)
  BY CallFacts, UnusedTable DEF FilesInv, FilesTypeOK
<1>a. /\ \A n \in Nodes : At[n] = {d \in copied(old) : fd_array[old][d].node = n}
      /\ \A u \in Tabs, d \in Fd : F2[u][d].node =
            IF u = t THEN (IF d \in copied(old) THEN fd_array[old][d].node ELSE NONE)
            ELSE fd_array[u][d].node
      /\ pw2 = [pwd EXCEPT ![t] = pwd[old]]
      /\ \A n \in Nodes : ref2[n] =
            ref_count[n] + Cardinality(At[n]) + (IF pwd[old] = n THEN 1 ELSE 0)
      /\ \A n \in Nodes : open2[n] = open_count[n] + Cardinality(At[n])
  BY DEF Duplicated
<1> USE <1>a
<1> SUFFICES ASSUME NEW n \in Nodes
             PROVE  /\ open2[n] = Cardinality(On(F2, n))
                    /\ ref2[n] = open2[n] + base(n) + lost[n] + Cardinality(In(pw2, n))
                    /\ n \notin Devs => (n \in cached <=> ref2[n] > 0)
                    /\ ref2[n] \in Nat /\ open2[n] \in Nat
  BY DEF Refs
<1>1. /\ open_count[n] = Cardinality(On(fd_array, n)) /\ open_count[n] \in Nat
      /\ ref_count[n] = open_count[n] + base(n) + lost[n] + Cardinality(In(pwd, n)) /\ ref_count[n] \in Nat
      /\ base(n) \in Nat /\ lost[n] \in Nat /\ Cardinality(In(pwd, n)) \in Nat
      /\ n \notin Devs => (n \in cached <=> ref_count[n] > 0)
  BY ONLY <1>0, n \in Nodes, RefsAt
<1>2. /\ IsFiniteSet(At[n]) /\ Cardinality(At[n]) \in Nat
      /\ \A d : d \in At[n] <=> d \in copied(old) /\ fd_array[old][d].node = n
      /\ \A d \in At[n] : d \in Fd
  <2>1. \A d : d \in At[n] <=> d \in copied(old) /\ fd_array[old][d].node = n
    OBVIOUS
  <2>2. At[n] \in SUBSET Fd
    BY <2>1 DEF copied
  <2>3. QED
    BY <2>1, <2>2, SetsFinite, FS_Subset, FS_CardinalityType
<1>3. /\ IsFiniteSet(On(fd_array, n)) /\ IsFiniteSet(In(pwd, n))
  BY SetsFinite
<1> DEFINE A == At[n]
           new == {t} \X A
<1>4. IsFiniteSet(new) /\ Cardinality(new) = Cardinality(A)
  <2>1. IsFiniteSet({t}) /\ Cardinality({t}) = 1
    BY FS_Singleton
  <2> HIDE DEF A
  <2>2. IsFiniteSet(A) /\ Cardinality(A) \in Nat
    BY <1>2 DEF A
  <2>3. IsFiniteSet({t} \X A) /\ Cardinality({t} \X A) = Cardinality({t}) * Cardinality(A)
    BY ONLY <2>1, <2>2, FS_Product
  <2>4. QED
    BY ONLY <2>1, <2>2, <2>3
<1>5. Cardinality(On(F2, n)) = Cardinality(On(fd_array, n)) + Cardinality(A)
  <2>1. \A e : e \in new <=> e \in Tabs \X Fd /\ e[1] = t /\ e[2] \in A
    BY <1>2
  <2>2. \A e : e \in On(F2, n) <=> e \in Tabs \X Fd /\ F2[e[1]][e[2]].node = n
    BY DEF On
  <2>3. \A e : e \in On(fd_array, n) <=> e \in Tabs \X Fd /\ fd_array[e[1]][e[2]].node = n
    BY DEF On
  <2>4. \A e \in Tabs \X Fd : e[1] \in Tabs /\ e[2] \in Fd
    OBVIOUS
  <2>5. \A d \in Fd : fd_array[t][d].node # n
    BY <1>0 DEF NoFile
  <2> HIDE DEF new, A
  <2>6. \A e \in Tabs \X Fd : e[1] = t => (F2[e[1]][e[2]].node = n <=> e[2] \in A)
    <3> SUFFICES ASSUME NEW e \in Tabs \X Fd, e[1] = t PROVE F2[e[1]][e[2]].node = n <=> e[2] \in A
      OBVIOUS
    <3>1. F2[e[1]][e[2]].node = IF e[2] \in copied(old) THEN fd_array[old][e[2]].node ELSE NONE
      BY <2>4
    <3>2. QED
      BY <1>0, <1>2, <3>1 DEF A
  <2>7. \A e \in Tabs \X Fd : e[1] # t => F2[e[1]][e[2]].node = fd_array[e[1]][e[2]].node
    BY <2>4
  <2>8. \A e : e \in On(F2, n) <=> e \in On(fd_array, n) \/ e \in new
    BY ONLY <2>1, <2>2, <2>3, <2>4, <2>5, <2>6, <2>7
  <2>9. \A e \in On(fd_array, n) : e \notin new
    BY ONLY <2>1, <2>3, <2>4, <2>5
  <2>10. On(F2, n) = On(fd_array, n) \cup new /\ On(fd_array, n) \cap new = {}
    BY ONLY <2>8, <2>9
  <2>11. Cardinality(On(F2, n)) = Cardinality(On(fd_array, n)) + Cardinality(new) - 0
    BY ONLY <1>3, <1>4, <2>10, FS_Union, FS_EmptySet
  <2>12. Cardinality(On(fd_array, n)) \in Nat /\ Cardinality(A) \in Nat
    BY <1>1, <1>2 DEF A
  <2>13. QED
    BY ONLY <1>4, <2>11, <2>12
<1>6. Cardinality(In(pw2, n)) = Cardinality(In(pwd, n)) + (IF pwd[old] = n THEN 1 ELSE 0)
  <2>1. CASE pwd[old] = n
    <3>1. In(pw2, n) = In(pwd, n) \cup {t} /\ t \notin In(pwd, n)
      BY <1>0, <2>1 DEF In
    <3>2. Cardinality(In(pw2, n)) = Cardinality(In(pwd, n)) + 1
      BY ONLY <1>3, <3>1, OneMore
    <3>3. QED
      BY <2>1, <3>2
  <2>2. CASE pwd[old] # n
    <3>1. In(pw2, n) = In(pwd, n)
      BY <1>0, <2>2 DEF In
    <3>2. QED
      BY <1>1, <2>2, <3>1
  <2>3. QED
    BY <2>1, <2>2
<1>7. Cardinality(A) > 0 => ref_count[n] > 0
  <2> SUFFICES ASSUME Cardinality(A) > 0 PROVE ref_count[n] > 0
    OBVIOUS
  <2>1. A # {}
    <3> HIDE DEF A
    <3>1. Cardinality({}) = 0
      BY FS_EmptySet
    <3> SUFFICES ASSUME A = {} PROVE FALSE
      OBVIOUS
    <3>2. Cardinality(A) = 0
      BY ONLY <3>1, A = {}
    <3>3. QED
      BY ONLY <3>2, Cardinality(A) > 0
  <2>2. PICK d \in A : TRUE
    BY <2>1
  <2>3. <<old, d>> \in On(fd_array, n)
    BY <1>2 DEF On
  <2>4. Cardinality(On(fd_array, n)) > 0
    BY ONLY <1>3, <2>3, OneLess
  <2>5. QED
    BY ONLY <1>1, <2>4
<1>8. pwd[old] = n => ref_count[n] > 0
  <2> SUFFICES ASSUME pwd[old] = n PROVE ref_count[n] > 0
    OBVIOUS
  <2>1. old \in In(pwd, n)
    BY DEF In
  <2>2. Cardinality(In(pwd, n)) > 0
    BY ONLY <1>3, <2>1, OneLess
  <2>3. QED
    BY ONLY <1>1, <2>2
<1>9. /\ ref2[n] = ref_count[n] + Cardinality(A) + (IF pwd[old] = n THEN 1 ELSE 0)
      /\ open2[n] = open_count[n] + Cardinality(A) /\ Cardinality(A) \in Nat
  BY <1>2
<1> HIDE DEF A
<1>10. QED
  BY ONLY <1>1, <1>5, <1>6, <1>7, <1>8, <1>9

LEMMA ForkCopiedStep ==
    ASSUME FilesInv, NEW p \in Procs, NEW c \in Procs, NEW t \in Tabs, fork_copied(p, c, t)
    PROVE  FilesInv'
<1>0. PICK old \in Tabs : /\ old = filesp[p] /\ files_count[old] > 0
                          /\ pwd[old] \in Nodes /\ pwd[old] # NONE
  <2>1. filesp[p] # NONE
    BY DEF fork_copied, Runs
  <2>2. QED
    BY <2>1, TableInUse
<1> DEFINE At == [n \in Nodes |-> {d \in copied(old) : fd_array[old][d].node = n}]
           fds2 == [d \in Fd |-> IF d \in copied(old) THEN [fd_array[old][d] EXCEPT !.count = 1]
                                 ELSE NoFile]
<1>1. /\ fate = "ok" /\ filesp[c] = NONE /\ files_count[t] = 0
      /\ fd_array' = [fd_array EXCEPT ![t] = fds2]
      /\ ref_count' = [n \in Nodes |->
            ref_count[n] + Cardinality({d \in copied(old) : fd_array[old][d].node = n})
                         + (IF pwd[old] = n THEN 1 ELSE 0)]
      /\ open_count' = [n \in Nodes |->
            open_count[n] + Cardinality({d \in copied(old) : fd_array[old][d].node = n})]
      /\ pwd' = [pwd EXCEPT ![t] = pwd[old]]
      /\ filesp' = [filesp EXCEPT ![c] = t] /\ files_count' = [files_count EXCEPT ![t] = 1]
      /\ reading' = reading /\ cached' = cached /\ fate' = fate /\ seen' = seen /\ lost' = lost
  BY <1>0 DEF fork_copied, Runs
<1>2. /\ FilesTypeOK /\ filesp \in [Procs -> Tabs \cup {NONE}] /\ files_count \in [Tabs -> Nat]
      /\ NONE \notin Tabs /\ NONE \notin Fd /\ NONE \notin Nodes /\ pwd \in [Tabs -> Nodes \cup {NONE}]
      /\ fd_array \in [Tabs -> [Fd -> Entry]] /\ reading[c] = NONE
  BY <1>1, CallFacts DEF FilesInv, FilesTypeOK
<1>3. (\A d \in Fd : fd_array[t][d] = NoFile) /\ (\A q \in Procs : filesp[q] # t) /\ old # t
  BY <1>0, <1>1, UnusedTable
<1>4. \A d \in Fd : /\ fds2[d] \in Entry /\ EntryOK(fds2[d], 0)
                    /\ fds2[d].node = IF d \in copied(old) THEN fd_array[old][d].node ELSE NONE
  <2> TAKE d \in Fd
  <2>1. CASE d \in copied(old)
    <3> DEFINE e == fd_array[old][d]
               e2 == [e EXCEPT !.count = 1]
    <3>1. e \in Entry /\ e.status = "OPENED" /\ fds2[d] = e2
      BY <1>2, <2>1 DEF copied
    <3>2. e.node \in Nodes
      BY <3>1 DEF FilesInv, EntriesCounted, EntryOK
    <3> HIDE DEF e, fds2
    <3>3. e2 \in Entry /\ e2.status = "OPENED" /\ e2.count = 1 /\ e2.node = e.node
      BY ONLY <3>1 DEF Entry
    <3>4. EntryOK(e2, 0)
      BY ONLY <3>2, <3>3 DEF EntryOK
    <3>5. QED
      BY ONLY <2>1, <3>1, <3>3, <3>4 DEF e
  <2>2. CASE d \notin copied(old)
    <3>1. fds2[d] = NoFile
      BY <2>2
    <3>2. NoFile \in Entry /\ EntryOK(NoFile, 0) /\ NoFile.node = NONE
      BY DEF NoFile, Entry, EntryOK
    <3>3. QED
      BY ONLY <2>2, <3>1, <3>2
  <2>3. QED
    BY <2>1, <2>2
<1>5. fds2 \in [Fd -> Entry]
  <2>1. fds2 = [d \in Fd |-> fds2[d]]
    OBVIOUS
  <2> HIDE DEF fds2
  <2>2. QED
    BY ONLY <1>4, <2>1
<1> HIDE DEF fds2
<1>6. /\ fd_array' \in [Tabs -> [Fd -> Entry]]
      /\ \A u \in Tabs : fd_array'[u] = IF u = t THEN fds2 ELSE fd_array[u]
  BY <1>1, <1>2, <1>5
<1>7. \A u \in Tabs, d \in Fd : fd_array'[u][d].node =
         IF u = t THEN (IF d \in copied(old) THEN fd_array[old][d].node ELSE NONE)
         ELSE fd_array[u][d].node
  BY ONLY <1>4, <1>6
<1>8. /\ Refs(fd_array', ref_count', open_count', cached, pwd', lost)
      /\ \A n \in Nodes : ref_count'[n] \in Nat /\ open_count'[n] \in Nat
  <2>1. \A n \in Nodes : At[n] = {d \in copied(old) : fd_array[old][d].node = n}
    OBVIOUS
  <2>2. /\ \A n \in Nodes : ref_count'[n] =
              ref_count[n] + Cardinality(At[n]) + (IF pwd[old] = n THEN 1 ELSE 0)
        /\ \A n \in Nodes : open_count'[n] = open_count[n] + Cardinality(At[n])
    BY <1>1, <2>1
  <2> HIDE DEF At
  <2>3. FilesInv /\ fate = "ok" /\ files_count[old] > 0 /\ files_count[t] = 0
        /\ pwd' = [pwd EXCEPT ![t] = pwd[old]]
    BY <1>0, <1>1
  <2>a. Duplicated(fd_array', ref_count', open_count', pwd', At, old, t)
    BY ONLY <1>7, <2>1, <2>2, <2>3 DEF Duplicated
  <2>4. Refs(fd_array', ref_count', open_count', cached, pwd', lost)
    BY ONLY <2>a, <2>3, old \in Tabs, t \in Tabs, DupRefs
  <2>5. \A n \in Nodes : ref_count'[n] \in Nat /\ open_count'[n] \in Nat
    BY ONLY <2>a, <2>3, old \in Tabs, t \in Tabs, DupRefs
  <2>6. QED
    BY ONLY <2>4, <2>5
<1>9. ref_count' \in [Nodes -> Nat] /\ open_count' \in [Nodes -> Nat]
  <2>1. ref_count' = [n \in Nodes |-> ref_count'[n]] /\ open_count' = [n \in Nodes |-> open_count'[n]]
    BY <1>1
  <2>2. QED
    BY ONLY <1>8, <2>1
<1>10. FilesTypeOK'
  <2>1. pwd' \in [Tabs -> Nodes \cup {NONE}] /\ files_count' \in [Tabs -> Nat]
        /\ filesp' \in [Procs -> Tabs \cup {NONE}]
    BY <1>0, <1>1, <1>2
  <2>2. QED
    BY <1>1, <1>2, <1>6, <1>9, <2>1 DEF FilesTypeOK
<1>11. Refs(fd_array, ref_count, open_count, cached, pwd, lost)' /\ fate' = "ok"
  BY <1>1, <1>8
<1>12. \A q \in Procs : filesp'[q] = IF q = c THEN t ELSE filesp[q]
  BY <1>1, <1>2
<1>13. /\ \A u, x, q : q \in Readers(u, x)' <=> q \in Procs /\ filesp'[q] = u /\ reading[q] = x
       /\ \A u, x, q : q \in Readers(u, x) <=> q \in Procs /\ filesp[q] = u /\ reading[q] = x
       /\ \A u, q : q \in Users(u)' <=> q \in Procs /\ filesp'[q] = u
       /\ \A u, q : q \in Users(u) <=> q \in Procs /\ filesp[q] = u
  BY <1>1 DEF Readers, Users
<1>14. /\ \A x \in Fd : Readers(t, x)' = {}
       /\ \A u \in Tabs, x \in Fd : Readers(u, x)' = Readers(u, x)
       /\ Users(t)' = {c}
       /\ \A u \in Tabs : u # t => Users(u)' = Users(u)
  <2>0. /\ reading[c] = NONE /\ (\A u \in Tabs : u # NONE) /\ (\A x \in Fd : x # NONE)
        /\ c \in Procs /\ filesp[c] = NONE
    BY <1>1, <1>2
  <2>1. ASSUME NEW u \in Tabs, NEW x \in Fd PROVE Readers(u, x)' = Readers(u, x)
    <3>1. \A q : q \in Readers(u, x)' <=> q \in Readers(u, x)
      BY ONLY <1>12, <1>13, <2>0, <2>1
    <3>2. QED
      BY ONLY <3>1
  <2>2. ASSUME NEW x \in Fd PROVE Readers(t, x)' = {}
    <3>1. \A q : q \notin Readers(t, x)
      BY <1>3, <1>13
    <3>2. QED
      BY <2>1, <3>1
  <2>3. Users(t)' = {c}
    <3>1. \A q : q \in Users(t)' <=> q = c
      BY ONLY <1>3, <1>12, <1>13, <2>0
    <3>2. QED
      BY ONLY <3>1
  <2>4. ASSUME NEW u \in Tabs, u # t PROVE Users(u)' = Users(u)
    <3>1. \A q : q \in Users(u)' <=> q \in Users(u)
      BY ONLY <1>12, <1>13, <2>0, <2>4
    <3>2. QED
      BY ONLY <3>1
  <2>5. QED
    BY <2>1, <2>2, <2>3, <2>4
<1>15. EntriesCounted'
  <2> SUFFICES ASSUME NEW u \in Tabs, NEW x \in Fd
               PROVE  EntryOK(fd_array'[u][x], Cardinality(Readers(u, x)'))
    BY DEF EntriesCounted, EntryOK
  <2>1. EntryOK(fd_array[u][x], Cardinality(Readers(u, x)))
    BY DEF FilesInv, EntriesCounted
  <2>2. CASE u = t
    <3>1. Cardinality(Readers(u, x)') = 0 /\ fd_array'[u][x] = fds2[x]
      BY <1>6, <1>14, <2>2, FS_EmptySet
    <3>2. QED
      BY <1>4, <3>1
  <2>3. CASE u # t
    BY <1>6, <1>14, <2>1, <2>3
  <2>4. QED
    BY <2>2, <2>3
<1>16. TablesCounted'
  <2> SUFFICES ASSUME NEW u \in Tabs
               PROVE  /\ files_count'[u] = Cardinality(Users(u)')
                      /\ pwd'[u] = NONE <=> files_count'[u] = 0
                      /\ files_count'[u] = 0 => \A x \in Fd : fd_array'[u][x] = NoFile
    BY DEF TablesCounted
  <2>1. /\ files_count[u] = Cardinality(Users(u))
        /\ pwd[u] = NONE <=> files_count[u] = 0
        /\ files_count[u] = 0 => \A x \in Fd : fd_array[u][x] = NoFile
    BY DEF FilesInv, TablesCounted
  <2>2. CASE u = t
    <3>1. files_count'[u] = 1 /\ Cardinality(Users(u)') = 1 /\ pwd'[u] = pwd[old]
      BY <1>1, <1>2, <1>14, <2>2, FS_Singleton
    <3>2. QED
      BY <1>0, <3>1
  <2>3. CASE u # t
    <3>1. files_count'[u] = files_count[u] /\ pwd'[u] = pwd[u]
      BY <1>1, <1>2, <2>3
    <3>2. QED
      BY <1>6, <1>14, <2>1, <2>3, <3>1
  <2>4. QED
    BY <2>2, <2>3
<1>17. ReaderSees'
  <2> SUFFICES ASSUME NEW q \in Procs, reading[q] # NONE
               PROVE  /\ filesp'[q] \in Tabs /\ reading[q] \in Fd
                      /\ fd_array'[filesp'[q]][reading[q]].node = seen[q]
    BY <1>1 DEF ReaderSees
  <2>1. q # c /\ filesp'[q] = filesp[q] /\ filesp[q] # t
    BY <1>2, <1>3, <1>12
  <2>2. filesp[q] \in Tabs /\ reading[q] \in Fd /\ fd_array[filesp[q]][reading[q]].node = seen[q]
    BY DEF FilesInv, ReaderSees
  <2>3. QED
    BY <1>6, <2>1, <2>2
<1>18. QED
  BY <1>10, <1>11, <1>15, <1>16, <1>17 DEF FilesInv

LEMMA FilesStep == FilesInv /\ [Next]_vars => FilesInv'
<1> SUFFICES ASSUME FilesInv, [Next]_vars PROVE FilesInv'
  OBVIOUS
<1>1. CASE UNCHANGED vars
  <2>0. /\ filesp' = filesp /\ reading' = reading /\ files_count' = files_count /\ pwd' = pwd
        /\ fd_array' = fd_array /\ ref_count' = ref_count /\ open_count' = open_count
        /\ cached' = cached /\ fate' = fate /\ seen' = seen /\ lost' = lost
    BY <1>1 DEF vars
  <2>1. FilesTypeOK' /\ (fate # "assert")'
    BY <2>0 DEF FilesInv, FilesTypeOK
  <2>2. (fate = "ok" => Refs(fd_array, ref_count, open_count, cached, pwd, lost))'
    BY <2>0 DEF FilesInv
  <2>3. EntriesCounted'
    BY <2>0 DEF FilesInv, EntriesCounted, EntryOK, Readers
  <2>4. TablesCounted'
    BY <2>0 DEF FilesInv, TablesCounted, Users
  <2>5. ReaderSees'
    BY <2>0 DEF FilesInv, ReaderSees
  <2>6. QED
    BY <2>1, <2>2, <2>3, <2>4, <2>5 DEF FilesInv
<1>2. ASSUME NEW p \in Procs, NEW n \in Nodes, NEW flags \in OpenFlags, file_open(p, n, flags) PROVE FilesInv'
  BY <1>2, OpenStep
<1>3. ASSUME NEW p \in Procs, NEW n \in Nodes, vfs_chdir(p, n) PROVE FilesInv'
  BY <1>3, ChdirStep
<1>4. ASSUME NEW p \in Procs, NEW d \in Fd, file_close(p, d) PROVE FilesInv'
  BY <1>4, CloseStep
<1>5. ASSUME NEW p \in Procs, NEW d \in Fd, file_read(p, d) PROVE FilesInv'
  BY <1>5, ReadStep
<1>6. ASSUME NEW p \in Procs, NEW d \in Fd, NEW e \in Fd, file_dup(p, d, e) PROVE FilesInv'
  BY <1>6, DupStep
<1>7. ASSUME NEW p \in Procs, file_read_done(p) PROVE FilesInv'
  BY <1>7, ReadDoneStep
<1>8. ASSUME NEW p \in Procs, file_no_vop(p) PROVE FilesInv'
  BY <1>8, NoVopStep
<1>9. ASSUME NEW p \in Procs, NEW c \in Procs, fork_shared(p, c) PROVE FilesInv'
  BY <1>9, ForkSharedStep
<1>10. ASSUME NEW p \in Procs, NEW c \in Procs, NEW t \in Tabs, fork_copied(p, c, t) PROVE FilesInv'
  BY <1>10, ForkCopiedStep
<1>11. ASSUME NEW p \in Procs, files_closeall(p) PROVE FilesInv'
  BY <1>11, CloseAllStep
<1>12. ASSUME NEW p \in Procs, put_files(p) PROVE FilesInv'
  BY <1>12, PutStep
<1>13. QED
  BY <1>1, <1>2, <1>3, <1>4, <1>5, <1>6, <1>7, <1>8, <1>9, <1>10, <1>11, <1>12 DEF Next

LEMMA FilesInvariant == Spec => []FilesInv
  BY FilesInit, FilesStep, PTL DEF Spec

\* Every reference to an inode has an owner, whatever the order of the calls of open
\* with its failures, close, dup, chdir, fork, exec and exit (file.c, vfsfile.c,
\* inode.c): open_count is the number of entries on the inode, ref_count adds the
\* working directories and what vfs_open lost, and an inode is in memory exactly
\* while it is referenced.
THEOREM RefsCorrect == Spec => []RefsExact
<1>1. FilesInv => RefsExact
  <2>1. \A n : Entries(n) = On(fd_array, n) /\ {t \in Tabs : pwd[t] = n} = In(pwd, n)
    BY DEF Entries, On, In
  <2>2. QED
    BY <2>1 DEF FilesInv, RefsExact, Refs
<1>2. QED
  BY <1>1, FilesInvariant, PTL

\* A process that sleeps in a read of the keyboard comes back to the file it started
\* on, whatever the other users of the table close, open and destroy meanwhile:
\* fd_array_acquire keeps the entry.
THEOREM ReaderFileKept == Spec => []ReaderKeepsFile
<1>1. FilesInv => ReaderKeepsFile
  <2> SUFFICES ASSUME FilesInv, NEW p \in Procs, reading[p] # NONE
               PROVE  /\ filesp[p] # NONE
                      /\ fd_array[filesp[p]][reading[p]].node = seen[p]
                      /\ fd_array[filesp[p]][reading[p]].status \in {"OPENED", "CLOSED"}
    BY DEF ReaderKeepsFile
  <2>1. PICK t \in Tabs, d \in Fd : t = filesp[p] /\ d = reading[p] /\ fd_array[t][d].node = seen[p]
    BY DEF FilesInv, ReaderSees
  <2>2. p \in Readers(t, d) /\ t # NONE
    BY <2>1, CallFacts DEF Readers
  <2>3. fd_array[t][d].status # "NONE"
    BY <2>2, FreeEntry
  <2>4. fd_array[t][d] \in Entry
    BY DEF FilesInv, FilesTypeOK
  <2>5. fd_array[t][d].status \in {"OPENED", "CLOSED"}
    BY <2>3, <2>4 DEF Entry
  <2>6. QED
    BY <2>1, <2>2, <2>5
<1>2. QED
  BY <1>1, FilesInvariant, PTL

\* The assertions of file.c, fs.c and inode.c about counts and states cannot fail:
\* counts are positive where they are decremented, an entry that is freed has no
\* users, a table that is destroyed is empty, an inode that is killed is not open.
THEOREM FileAssertionsHold == Spec => []AssertionsHold
<1>1. FilesInv => AssertionsHold
  BY DEF FilesInv, AssertionsHold
<1>2. QED
  BY <1>1, FilesInvariant, PTL
=============================================================================
