--------------------------- MODULE ProcRes_proofs ---------------------------
(***************************************************************************)
(* Proofs about ProcRes, for any processes, mms, tables and clone flags:   *)
(* the count of an mm is exact, no table of open files is destroyed under  *)
(* a process that uses it, and no two processes have the same number.      *)
(*                                                                         *)
(* Every action changes the users of an mm or of a table by one process,   *)
(* and the counts with them.  For this to be so the invariant must say     *)
(* that a process that is not alive has no mm (do_exit took it away), and  *)
(* that a living one has a table (so that do_exit puts the table it        *)
(* counts for).                                                            *)
(*                                                                         *)
(* The numbers need an invariant about the variable that get_pid keeps     *)
(* between calls: no number in use lies between last_pid and next_safe.    *)
(* Its loop starts again at the head of the list, so neither the list nor  *)
(* the number alone shows that it ends: a number that is free comes closer *)
(* with every restart.                                                     *)
(***************************************************************************)
EXTENDS ProcRes, ListLemmas

ResTypeOK ==
    /\ state \in [Procs -> {"FREE", "LIVE", "ZOMBIE"}]
    /\ mm \in [Procs -> MMs \cup {NULL}]
    /\ filesp \in [Procs -> FSs \cup {NULL}]
    /\ mm_count \in [MMs -> Nat]
    /\ files_count \in [FSs -> Nat]

\* The processes on an mm.
OnMm(m) == {p \in Procs : mm[p] = m}

OnlyLiveHaveMm == \A p \in Procs : mm[p] # NULL => state[p] = "LIVE"

LiveHaveFiles == \A p \in Procs : state[p] = "LIVE" => filesp[p] \in FSs

ResInv ==
    /\ ResTypeOK
    /\ OnlyLiveHaveMm
    /\ LiveHaveFiles
    /\ MmCountExact
    /\ FilesOutliveUsers
-----------------------------------------------------------------------------
LEMMA UsersFinite ==
    /\ \A m : IsFiniteSet(OnMm(m)) /\ Cardinality(OnMm(m)) \in Nat
    /\ \A f : IsFiniteSet(Users(f)) /\ Cardinality(Users(f)) \in Nat
  BY ResAssumption, FS_Subset, FS_CardinalityType DEF OnMm, Users, Live

LEMMA ResInit == Init => ResInv
<1> SUFFICES ASSUME Init PROVE ResInv
  OBVIOUS
<1> USE ResAssumption DEF Init
<1>1. ResTypeOK /\ OnlyLiveHaveMm /\ LiveHaveFiles
  BY DEF ResTypeOK, OnlyLiveHaveMm, LiveHaveFiles
<1>2. MmCountExact
  <2> SUFFICES ASSUME NEW m \in MMs PROVE mm_count[m] = Cardinality({p \in Procs : mm[p] = m})
    BY DEF MmCountExact
  <2>1. {p \in Procs : mm[p] = m} = {}
    OBVIOUS
  <2>2. QED
    BY <2>1, FS_EmptySet
<1>3. FilesOutliveUsers
  <2> SUFFICES ASSUME NEW f \in FSs PROVE files_count[f] >= Cardinality(Users(f))
    BY DEF FilesOutliveUsers
  <2>1. CASE f = rootfs
    <3>1. Users(f) = {root}
      BY <2>1 DEF Users, Live
    <3>2. QED
      BY <2>1, <3>1, FS_Singleton
  <2>2. CASE f # rootfs
    <3>1. Users(f) = {}
      BY <2>2 DEF Users, Live
    <3>2. QED
      BY <2>2, <3>1, FS_EmptySet
  <2>3. QED
    BY <2>1, <2>2
<1>4. QED
  BY <1>1, <1>2, <1>3 DEF ResInv

\* Dec on the mm of p: an mm that p is on has a count to take from.
LEMMA PutMm ==
    ASSUME ResInv, NEW p \in Procs
    PROVE  /\ put_mm(p) \in [MMs -> Nat]
           /\ \A m \in MMs : put_mm(p)[m] = Cardinality(OnMm(m) \ {p})
<1> USE DEF ResInv, ResTypeOK
<1>0. put_mm(p) \in [MMs -> Int]
  BY DEF put_mm, Dec
<1> SUFFICES ASSUME NEW m \in MMs
             PROVE  /\ put_mm(p)[m] = Cardinality(OnMm(m) \ {p})
                    /\ put_mm(p)[m] \in Nat
  BY <1>0
<1>1. mm_count[m] = Cardinality(OnMm(m))
  BY DEF MmCountExact, OnMm
<1>2. p \in OnMm(m) <=> mm[p] = m
  BY DEF OnMm
<1>3. Cardinality(OnMm(m) \ {p}) = IF p \in OnMm(m) THEN Cardinality(OnMm(m)) - 1 ELSE Cardinality(OnMm(m))
  BY UsersFinite, FS_RemoveElement
<1>4. Cardinality(OnMm(m) \ {p}) \in Nat
  BY UsersFinite, FS_RemoveElement, FS_CardinalityType
<1>5. put_mm(p)[m] = IF mm[p] = m THEN mm_count[m] - 1 ELSE mm_count[m]
  BY ResAssumption DEF put_mm, Dec
<1>6. QED
  BY <1>1, <1>2, <1>3, <1>4, <1>5

\* A process leaves its mm, as do_exit and a failed do_execve do: the counts are
\* those put_mm computes and stay exact.
LEMMA LeaveMm ==
    ASSUME ResInv, NEW p \in Procs, mm_count' = put_mm(p), mm' = [mm EXCEPT ![p] = NULL]
    PROVE  MmCountExact'
<1> SUFFICES ASSUME NEW m \in MMs
             PROVE  mm_count'[m] = Cardinality({q \in Procs : mm'[q] = m})
  BY DEF MmCountExact
<1>1. {q \in Procs : mm'[q] = m} = OnMm(m) \ {p}
  BY ResAssumption DEF OnMm, ResInv, ResTypeOK
<1>2. QED
  BY <1>1, PutMm

\* Nobody joins a table.
LEMMA FilesKept ==
    ASSUME ResInv, \A f \in FSs : Users(f)' \in SUBSET Users(f), UNCHANGED files_count
    PROVE  FilesOutliveUsers'
<1> SUFFICES ASSUME NEW f \in FSs PROVE files_count[f] >= Cardinality(Users(f)')
  BY DEF FilesOutliveUsers
<1>1. Cardinality(Users(f)') <= Cardinality(Users(f)) /\ Cardinality(Users(f)') \in Nat
  BY UsersFinite, FS_Subset, FS_CardinalityType
<1>2. files_count[f] >= Cardinality(Users(f)) /\ files_count[f] \in Nat
  BY DEF ResInv, ResTypeOK, FilesOutliveUsers
<1>3. QED
  BY <1>1, <1>2, UsersFinite

\* do_exit gives back the mm and, if there was one, the table.
LEMMA ExitStep ==
    ASSUME ResInv, NEW p \in Procs, do_exit(p)
    PROVE  ResInv'
<1> USE ResAssumption DEF ResInv, do_exit
<1>1. ResTypeOK /\ filesp[p] \in FSs
  BY DEF LiveHaveFiles
<1>2. \A f \in FSs : Users(f)' = Users(f) \ {p}
  BY <1>1 DEF Users, Live, ResTypeOK
<1>3. /\ files_count' \in [FSs -> Int]
      /\ \A f \in FSs : files_count'[f] = IF mm[p] # NULL /\ filesp[p] = f
                                          THEN files_count[f] - 1 ELSE files_count[f]
  BY <1>1 DEF ResTypeOK, put_files, Dec
<1>4. \A f \in FSs : files_count'[f] >= Cardinality(Users(f)') /\ files_count'[f] \in Nat
  <2> SUFFICES ASSUME NEW f \in FSs
               PROVE  files_count'[f] >= Cardinality(Users(f)') /\ files_count'[f] \in Nat
    OBVIOUS
  <2>1. p \in Users(f) <=> filesp[p] = f
    BY DEF Users, Live
  <2>2. Cardinality(Users(f)') = IF p \in Users(f) THEN Cardinality(Users(f)) - 1 ELSE Cardinality(Users(f))
    BY <1>2, UsersFinite, FS_RemoveElement
  <2>3. Cardinality(Users(f)') \in Nat
    BY <1>2, UsersFinite, FS_RemoveElement, FS_CardinalityType
  <2>4. files_count[f] >= Cardinality(Users(f)) /\ files_count[f] \in Nat
    BY DEF FilesOutliveUsers, ResTypeOK
  <2>5. QED
    BY <1>3, <2>1, <2>2, <2>3, <2>4, UsersFinite
<1>5. FilesOutliveUsers'
  BY <1>4 DEF FilesOutliveUsers
<1>6. files_count' \in [FSs -> Nat]
  BY <1>1, <1>3, <1>4
<1>7. ResTypeOK'
  BY <1>1, <1>6, PutMm DEF ResTypeOK
<1>8. OnlyLiveHaveMm' /\ LiveHaveFiles'
  BY <1>1 DEF OnlyLiveHaveMm, LiveHaveFiles, ResTypeOK
<1>9. MmCountExact'
  BY LeaveMm
<1>10. QED
  BY <1>5, <1>7, <1>8, <1>9

\* The exit of a process whose new program could not be loaded: its mm went before.
LEMMA NoLoadStep ==
    ASSUME ResInv, NEW p \in Procs, do_execve_no_load(p)
    PROVE  ResInv'
<1> USE ResAssumption DEF ResInv, do_execve_no_load
<1>1. ResTypeOK' /\ OnlyLiveHaveMm' /\ LiveHaveFiles'
  BY PutMm DEF OnlyLiveHaveMm, LiveHaveFiles, ResTypeOK
<1>2. MmCountExact'
  BY LeaveMm
<1>3. \A f \in FSs : Users(f)' \in SUBSET Users(f)
  BY DEF Users, Live, ResTypeOK
<1>4. QED
  BY <1>1, <1>2, <1>3, FilesKept

\* do_execve: the process leaves one mm and is the only one on the next.
LEMMA ExecveStep ==
    ASSUME ResInv, NEW p \in Procs, do_execve(p)
    PROVE  ResInv'
<1> USE ResAssumption DEF ResInv, do_execve
<1> PICK m \in MMs : /\ put_mm(p)[m] = 0
                     /\ mm' = [mm EXCEPT ![p] = m]
                     /\ mm_count' = Inc(put_mm(p), m)
  OBVIOUS
<1>0. m # NULL /\ mm_count' = [put_mm(p) EXCEPT ![m] = @ + 1]
  BY DEF Inc
<1>1. ResTypeOK' /\ OnlyLiveHaveMm' /\ LiveHaveFiles'
  BY <1>0, PutMm DEF OnlyLiveHaveMm, LiveHaveFiles, ResTypeOK
<1>2. MmCountExact'
  <2> SUFFICES ASSUME NEW n \in MMs
               PROVE  mm_count'[n] = Cardinality({q \in Procs : mm'[q] = n})
    BY DEF MmCountExact
  <2>1. CASE n = m
    <3>1. {q \in Procs : mm'[q] = n} = (OnMm(m) \ {p}) \cup {p}
      BY <2>1 DEF OnMm, ResTypeOK
    <3>2. IsFiniteSet(OnMm(m) \ {p})
      BY UsersFinite, FS_RemoveElement
    <3>3. Cardinality((OnMm(m) \ {p}) \cup {p}) = Cardinality(OnMm(m) \ {p}) + 1
      BY <3>2, FS_AddElement
    <3>4. mm_count'[m] = put_mm(p)[m] + 1
      BY <1>0, PutMm
    <3>5. put_mm(p)[m] = Cardinality(OnMm(m) \ {p})
      BY PutMm
    <3>6. QED
      BY <2>1, <3>1, <3>3, <3>4, <3>5
  <2>2. CASE n # m
    <3>1. {q \in Procs : mm'[q] = n} = OnMm(n) \ {p}
      BY <2>2 DEF OnMm, ResTypeOK
    <3>2. QED
      BY <1>0, <2>2, <3>1, PutMm
  <2>3. QED
    BY <2>1, <2>2
<1>3. \A f \in FSs : Users(f)' \in SUBSET Users(f)
  BY DEF Users, Live
<1>4. QED
  BY <1>1, <1>2, <1>3, FilesKept

\* do_fork: the child joins one mm and one table.
LEMMA ForkStep ==
    ASSUME ResInv, NEW p \in Procs, NEW c \in Procs, NEW flags, do_fork(p, c, flags)
    PROVE  ResInv'
<1> USE ResAssumption DEF ResInv
<1> PICK m \in MMs, f \in FSs :
       /\ mm' = [mm EXCEPT ![c] = m]
       /\ filesp' = [filesp EXCEPT ![c] = f]
       /\ mm_count' = Inc(mm_count, m)
       /\ files_count' = Inc(files_count, f)
  BY DEF do_fork
<1>0. /\ mm_count' = [mm_count EXCEPT ![m] = @ + 1]
      /\ files_count' = [files_count EXCEPT ![f] = @ + 1]
      /\ state[c] = "FREE" /\ state' = [state EXCEPT ![c] = "LIVE"]
  BY DEF Inc, do_fork
<1>1. ResTypeOK' /\ OnlyLiveHaveMm' /\ LiveHaveFiles'
  BY <1>0 DEF OnlyLiveHaveMm, LiveHaveFiles, ResTypeOK
<1>2. MmCountExact'
  <2> SUFFICES ASSUME NEW n \in MMs
               PROVE  mm_count'[n] = Cardinality({q \in Procs : mm'[q] = n})
    BY DEF MmCountExact
  <2>1. c \notin OnMm(n) /\ mm_count[n] = Cardinality(OnMm(n))
    BY <1>0 DEF OnMm, OnlyLiveHaveMm, MmCountExact
  <2>2. {q \in Procs : mm'[q] = n} = IF n = m THEN OnMm(n) \cup {c} ELSE OnMm(n)
    BY <2>1 DEF OnMm, ResTypeOK
  <2>3. Cardinality(OnMm(n) \cup {c}) = Cardinality(OnMm(n)) + 1
    BY <2>1, UsersFinite, FS_AddElement
  <2>4. QED
    BY <1>0, <2>1, <2>2, <2>3 DEF ResTypeOK
<1>3. FilesOutliveUsers'
  <2> SUFFICES ASSUME NEW g \in FSs PROVE files_count'[g] >= Cardinality(Users(g)')
    BY DEF FilesOutliveUsers
  <2>1. c \notin Users(g) /\ files_count[g] >= Cardinality(Users(g)) /\ files_count[g] \in Nat
    BY <1>0 DEF Users, Live, FilesOutliveUsers, ResTypeOK
  <2>2. Users(g)' = IF g = f THEN Users(g) \cup {c} ELSE Users(g)
    BY <1>0, <2>1 DEF Users, Live, ResTypeOK
  <2>3. Cardinality(Users(g) \cup {c}) = Cardinality(Users(g)) + 1
    BY <2>1, UsersFinite, FS_AddElement
  <2>4. QED
    BY <1>0, <2>1, <2>2, <2>3, UsersFinite DEF ResTypeOK
<1>4. QED
  BY <1>1, <1>2, <1>3

\* do_wait frees the struct of a process that has no mm any more.
LEMMA WaitStep ==
    ASSUME ResInv, NEW c \in Procs, do_wait(c)
    PROVE  ResInv'
<1> USE ResAssumption DEF ResInv, do_wait
<1>1. ResTypeOK' /\ OnlyLiveHaveMm' /\ LiveHaveFiles'
  BY DEF OnlyLiveHaveMm, LiveHaveFiles, ResTypeOK
<1>2. MmCountExact'
  BY DEF MmCountExact
<1>3. \A f \in FSs : Users(f)' \in SUBSET Users(f)
  BY DEF Users, Live, ResTypeOK
<1>4. QED
  BY <1>1, <1>2, <1>3, FilesKept

LEMMA ResStep == ResInv /\ [Next]_vars => ResInv'
<1> SUFFICES ASSUME ResInv, [Next]_vars PROVE ResInv'
  OBVIOUS
<1>1. ASSUME UNCHANGED <<state, mm, filesp, mm_count, files_count>> PROVE ResInv'
  BY <1>1 DEF ResInv, ResTypeOK, OnlyLiveHaveMm, LiveHaveFiles, MmCountExact,
              FilesOutliveUsers, Users, Live
<1>2. CASE UNCHANGED vars
  BY <1>1, <1>2 DEF vars
<1>3. ASSUME NEW p \in Procs, do_fork_no_memory(p) PROVE ResInv'
  BY <1>1, <1>3 DEF do_fork_no_memory
<1>4. ASSUME NEW p \in Procs, do_execve_no_file(p) \/ sys_exit(p) PROVE ResInv'
  BY <1>4, ExitStep DEF do_execve_no_file, sys_exit
<1>5. QED
  BY <1>2, <1>3, <1>4, ForkStep, ExecveStep, NoLoadStep, WaitStep DEF Next

\* mm_count is the number of processes on the mm, through every path of do_fork,
\* do_execve, do_exit and do_wait: exit_mmap runs for the last of them only.
THEOREM MmCountCorrect == Spec => []MmCountExact
<1>1. ResInv => MmCountExact
  BY DEF ResInv
<1>2. QED
  BY ResInit, ResStep, <1>1, PTL DEF Spec

\* A table of open files has at least as many references as living users, so
\* put_files never destroys one in use, also after a do_execve that failed.
THEOREM FilesNotDestroyedInUse == Spec => []FilesOutliveUsers
<1>1. ResInv => FilesOutliveUsers
  BY DEF ResInv
<1>2. QED
  BY ResInit, ResStep, <1>1, PTL DEF Spec
-----------------------------------------------------------------------------
\* The numbers of the processes in proc_list and the static variables of get_pid.
PidTypeOK ==
    /\ MAX_PID \in Nat /\ MAX_PID > 1
    /\ proc_list \in Seq(1..(MAX_PID - 1))
    /\ last_pid \in 1..(MAX_PID - 1)
    /\ next_safe \in 1..MAX_PID

\* One round of the loop of get_pid: what scan goes on with.
Rest(s) ==
    IF proc_list[s.k] = s.last /\ s.last + 1 >= s.safe
    THEN [last |-> IF s.last + 1 >= MAX_PID THEN 1 ELSE s.last + 1, safe |-> MAX_PID, k |-> 1]
    ELSE IF proc_list[s.k] = s.last THEN [last |-> s.last + 1, safe |-> s.safe, k |-> s.k + 1]
    ELSE [last |-> s.last, k |-> s.k + 1,
          safe |-> IF proc_list[s.k] > s.last /\ proc_list[s.k] < s.safe THEN proc_list[s.k] ELSE s.safe]

LEMMA RestTyped ==
    ASSUME PidTypeOK, NEW s \in Scans, ~(s.k > Len(proc_list)) PROVE Rest(s) \in Scans
<1>1. /\ Len(proc_list) \in Nat /\ s.k \in 1..Len(proc_list) /\ s.k + 1 \in 1..(Len(proc_list) + 1)
      /\ s.last \in 1..MAX_PID /\ s.safe \in 1..MAX_PID /\ 1 \in 1..(Len(proc_list) + 1)
  BY DEF PidTypeOK, Scans
<1>2. proc_list[s.k] \in 1..MAX_PID /\ MAX_PID \in 1..MAX_PID /\ 1 \in 1..MAX_PID
  BY <1>1 DEF PidTypeOK
<1>3. CASE proc_list[s.k] = s.last /\ s.last + 1 >= s.safe
  <2>1. (IF s.last + 1 >= MAX_PID THEN 1 ELSE s.last + 1) \in 1..MAX_PID
    BY <1>1, <1>2
  <2>2. Rest(s) = [last |-> IF s.last + 1 >= MAX_PID THEN 1 ELSE s.last + 1, safe |-> MAX_PID, k |-> 1]
    BY <1>3 DEF Rest
  <2>3. QED
    BY <1>1, <1>2, <2>1, <2>2 DEF Scans
<1>4. CASE proc_list[s.k] = s.last /\ ~(s.last + 1 >= s.safe)
  <2>1. s.last + 1 \in 1..MAX_PID
    BY ONLY <1>1, <1>4, ResAssumption DEF ResAssumption
  <2>2. Rest(s) = [last |-> s.last + 1, safe |-> s.safe, k |-> s.k + 1]
    BY <1>4 DEF Rest
  <2>3. QED
    BY <1>1, <2>1, <2>2 DEF Scans
<1>5. CASE proc_list[s.k] # s.last
  BY <1>1, <1>2, <1>5 DEF Rest, Scans
<1>6. QED
  BY <1>3, <1>4, <1>5

\* scan is the loop: it stops at the end of the list and goes on with Rest before.
LEMMA ScanRounds ==
    ASSUME PidTypeOK, NEW s \in Scans
    PROVE  scan[s] = IF s.k > Len(proc_list) THEN s ELSE scan[Rest(s)]
<1> DEFINE T == {x \in Scans : x.k > Len(proc_list)}
           g == [x \in Scans |-> Rest(x)]
           P(h) == h = [x \in Scans |->
                LET at == proc_list[x.k]
                    next == x.last + 1
                IN IF x.k > Len(proc_list) THEN x
                   ELSE IF at = x.last /\ next >= x.safe
                   THEN h[[last |-> IF next >= MAX_PID THEN 1 ELSE next, safe |-> MAX_PID, k |-> 1]]
                   ELSE IF at = x.last THEN h[[last |-> next, safe |-> x.safe, k |-> x.k + 1]]
                   ELSE h[[last |-> x.last, k |-> x.k + 1,
                           safe |-> IF at > x.last /\ at < x.safe THEN at ELSE x.safe]]]
           Q(h) == h = [x \in Scans |-> IF x \in T THEN x ELSE h[g[x]]]
           loop == CHOOSE h : P(h)
<1>1. scan = loop
  BY DEF scan
<1>2. ASSUME NEW h PROVE P(h) <=> Q(h)
  <2>1. ASSUME NEW x \in Scans
        PROVE  (LET at == proc_list[x.k]
                    next == x.last + 1
                IN IF x.k > Len(proc_list) THEN x
                   ELSE IF at = x.last /\ next >= x.safe
                   THEN h[[last |-> IF next >= MAX_PID THEN 1 ELSE next, safe |-> MAX_PID, k |-> 1]]
                   ELSE IF at = x.last THEN h[[last |-> next, safe |-> x.safe, k |-> x.k + 1]]
                   ELSE h[[last |-> x.last, k |-> x.k + 1,
                           safe |-> IF at > x.last /\ at < x.safe THEN at ELSE x.safe]])
               = IF x \in T THEN x ELSE h[g[x]]
    <3>1. x \in T <=> x.k > Len(proc_list)
      OBVIOUS
    <3>2. g[x] = Rest(x)
      OBVIOUS
    <3> HIDE DEF T, g
    <3>3. QED
      BY ONLY <3>1, <3>2 DEF Rest
  <2> HIDE DEF T, g
  <2>2. QED
    BY <2>1
<1> HIDE DEF P
<1>3. \E h : Q(h)
  <2>1. \A x \in Scans : x \notin T => g[x] \in Scans
    BY RestTyped
  <2> HIDE DEF T, g
  <2>2. PICK f : LoopValues(f, Scans, T, g)
    BY ONLY <2>1, LoopHasValue
  <2>3. Q(f)
    BY ONLY <2>2 DEF LoopValues
  <2>4. QED
    BY ONLY <2>3
<1>4. Q(loop)
  BY <1>2, <1>3
<1> HIDE DEF loop
<1>5. QED
  BY <1>1, <1>4

\* What a round of the loop has established: s.last is none of the numbers passed, and
\* those of them above it are not below s.safe.
Passed(s) ==
    /\ s \in Scans
    /\ s.last < MAX_PID /\ s.last < s.safe
    /\ \A i \in 1..(s.k - 1) :
          proc_list[i] # s.last /\ (proc_list[i] > s.last => proc_list[i] >= s.safe)

LEMMA RestPasses ==
    ASSUME PidTypeOK, NEW s, Passed(s), ~(s.k > Len(proc_list)) PROVE Passed(Rest(s))
<1>0. s \in Scans /\ Rest(s) \in Scans
  BY RestTyped DEF Passed
<1>1. /\ Len(proc_list) \in Nat /\ s.k \in 1..Len(proc_list)
      /\ s.last \in 1..MAX_PID /\ s.safe \in 1..MAX_PID /\ MAX_PID \in Nat /\ MAX_PID > 1
  BY <1>0 DEF PidTypeOK, Scans
<1>2. \A i \in 1..s.k : proc_list[i] \in 1..(MAX_PID - 1)
  BY <1>1 DEF PidTypeOK
<1>3. \A i \in 1..(s.k - 1) : i \in 1..s.k
  BY <1>1
<1>4. /\ s.last < MAX_PID /\ s.last < s.safe
      /\ \A i \in 1..(s.k - 1) :
            proc_list[i] # s.last /\ (proc_list[i] > s.last => proc_list[i] >= s.safe)
  BY DEF Passed
<1>5. CASE proc_list[s.k] = s.last /\ s.last + 1 >= s.safe
  <2>1. Rest(s) = [last |-> IF s.last + 1 >= MAX_PID THEN 1 ELSE s.last + 1, safe |-> MAX_PID, k |-> 1]
    BY <1>5 DEF Rest
  <2>2. Rest(s).last < MAX_PID /\ Rest(s).last < Rest(s).safe /\ Rest(s).k = 1
    BY <1>1, <2>1
  <2>3. QED
    BY <1>0, <2>2 DEF Passed
<1>6. CASE proc_list[s.k] = s.last /\ ~(s.last + 1 >= s.safe)
  <2>1. Rest(s).last = s.last + 1 /\ Rest(s).safe = s.safe /\ Rest(s).k = s.k + 1
    BY <1>6 DEF Rest
  <2>2. Rest(s).last < MAX_PID /\ Rest(s).last < Rest(s).safe
    BY ONLY <1>1, <1>6, <2>1
  <2>3. ASSUME NEW i \in 1..s.k
        PROVE  proc_list[i] # s.last + 1 /\ (proc_list[i] > s.last + 1 => proc_list[i] >= s.safe)
    <3>1. i = s.k \/ i \in 1..(s.k - 1)
      BY <1>1
    <3>2. proc_list[i] \in Nat
      BY <1>1, <1>2
    <3>3. QED
      BY ONLY <1>1, <1>4, <1>6, <3>1, <3>2
  <2>4. Rest(s).k - 1 = s.k
    BY <1>1, <2>1
  <2>5. QED
    BY ONLY <1>0, <2>1, <2>2, <2>3, <2>4 DEF Passed
<1>7. CASE proc_list[s.k] # s.last
  <2> DEFINE at == proc_list[s.k]
             safe == IF at > s.last /\ at < s.safe THEN at ELSE s.safe
  <2>1. Rest(s).last = s.last /\ Rest(s).safe = safe /\ Rest(s).k = s.k + 1
    BY <1>7 DEF Rest
  <2>2. at \in Nat /\ s.k \in Nat
    BY <1>1, <1>2
  <2>3. s.last < safe /\ safe <= s.safe
    BY ONLY <1>1, <1>4, <2>2
  <2>4. ASSUME NEW i \in 1..s.k
        PROVE  proc_list[i] # s.last /\ (proc_list[i] > s.last => proc_list[i] >= safe)
    <3>1. i = s.k \/ i \in 1..(s.k - 1)
      BY <1>1
    <3>2. proc_list[i] \in Nat
      BY <1>1, <1>2
    <3>3. CASE i = s.k
      BY ONLY <1>1, <1>7, <2>2, <3>3
    <3>4. CASE i \in 1..(s.k - 1)
      BY ONLY <1>1, <1>4, <2>2, <2>3, <3>2, <3>4
    <3>5. QED
      BY ONLY <3>1, <3>3, <3>4
  <2> HIDE DEF at, safe
  <2>5. Rest(s).k - 1 = s.k
    BY <2>1, <2>2
  <2>6. QED
    BY ONLY <1>0, <1>4, <2>1, <2>3, <2>4, <2>5 DEF Passed
<1>8. QED
  BY <1>5, <1>6, <1>7

\* How far s.last is from the number q, counting upwards and around.
Away(s, q) == IF s.last <= q THEN q - s.last ELSE q - s.last + MAX_PID - 1

\* A round passes over a number in use, and is then closer to one that is free, or
\* goes to the next entry of the list.
LEMMA RestCloser ==
    ASSUME PidTypeOK, NEW s, Passed(s), ~(s.k > Len(proc_list)),
           NEW q \in 1..(MAX_PID - 1), q \notin ToSet(proc_list)
    PROVE  /\ Away(s, q) \in 0..(MAX_PID - 1)
           /\ \/ Away(Rest(s), q) = Away(s, q) - 1
              \/ Rest(s).last = s.last /\ Rest(s).k = s.k + 1
<1>1. /\ Len(proc_list) \in Nat /\ s.k \in 1..Len(proc_list)
      /\ s.last \in 1..(MAX_PID - 1) /\ s.safe \in 1..MAX_PID /\ MAX_PID \in Nat /\ MAX_PID > 1
  BY DEF PidTypeOK, Passed, Scans
<1>2. proc_list[s.k] # q
  BY <1>1 DEF PidTypeOK, ToSet
<1>3. CASE proc_list[s.k] = s.last
  <2>1. Rest(s).last = IF s.last + 1 >= MAX_PID THEN 1 ELSE s.last + 1
    BY <1>1, <1>3 DEF Rest
  <2> DEFINE l == s.last
             r == Rest(s).last
  <2>2. l \in 1..(MAX_PID - 1) /\ MAX_PID \in Nat /\ l # q /\ r = IF l + 1 >= MAX_PID THEN 1 ELSE l + 1
    BY <1>1, <1>2, <1>3, <2>1
  <2>3. Away(s, q) = (IF l <= q THEN q - l ELSE q - l + MAX_PID - 1)
        /\ Away(Rest(s), q) = (IF r <= q THEN q - r ELSE q - r + MAX_PID - 1)
    BY DEF Away
  <2> HIDE DEF l, r
  <2>4. Away(Rest(s), q) = Away(s, q) - 1 /\ Away(s, q) \in 0..(MAX_PID - 1)
    BY ONLY <2>2, <2>3, q \in 1..(MAX_PID - 1)
  <2>5. QED
    BY <2>4
<1>4. CASE proc_list[s.k] # s.last
  <2>1. Rest(s).last = s.last /\ Rest(s).k = s.k + 1
    BY <1>4 DEF Rest
  <2>2. QED
    BY ONLY <1>1, <2>1, q \in 1..(MAX_PID - 1) DEF Away
<1>5. QED
  BY <1>3, <1>4

\* The loop ends: it comes closer to the free number q in every passage of the list
\* that it does not complete.
LEMMA ScanEnds ==
    ASSUME PidTypeOK, NEW q \in 1..(MAX_PID - 1), q \notin ToSet(proc_list),
           NEW start, Passed(start)
    PROVE  Passed(scan[start]) /\ scan[start].k > Len(proc_list)
<1> DEFINE Ended(s) == Passed(scan[s]) /\ scan[s].k > Len(proc_list)
           Near == {n \in 0..MAX_PID : \A s \in Scans : Passed(s) /\ Away(s, q) < n => Ended(s)}
<1>0. MAX_PID \in Nat /\ Len(proc_list) \in Nat
  BY DEF PidTypeOK
<1>1. ASSUME NEW s, Passed(s)
      PROVE  /\ s \in Scans /\ s.k \in 1..(Len(proc_list) + 1)
             /\ s.k > Len(proc_list) => Ended(s)
             /\ ~(s.k > Len(proc_list)) =>
                   /\ Passed(Rest(s)) /\ Rest(s) \in Scans
                   /\ Ended(Rest(s)) => Ended(s)
                   /\ Away(s, q) \in 0..(MAX_PID - 1)
                   /\ \/ Away(Rest(s), q) = Away(s, q) - 1
                      \/ Away(Rest(s), q) = Away(s, q) /\ Rest(s).k = s.k + 1
  <2>1. s \in Scans /\ s.k \in 1..(Len(proc_list) + 1)
    BY <1>1 DEF Passed, Scans
  <2>2. scan[s] = IF s.k > Len(proc_list) THEN s ELSE scan[Rest(s)]
    BY <2>1, ScanRounds
  <2>3. CASE s.k > Len(proc_list)
    BY <1>1, <2>1, <2>2, <2>3
  <2>4. CASE ~(s.k > Len(proc_list))
    <3>1. Passed(Rest(s)) /\ Rest(s) \in Scans
      BY <1>1, <2>1, <2>4, RestPasses, RestTyped
    <3>2. Away(s, q) \in 0..(MAX_PID - 1)
          /\ (Away(Rest(s), q) = Away(s, q) - 1 \/ (Rest(s).last = s.last /\ Rest(s).k = s.k + 1))
      BY <1>1, <2>4, RestCloser
    <3>3. Rest(s).last = s.last => Away(Rest(s), q) = Away(s, q)
      BY DEF Away
    <3>4. QED
      BY <2>1, <2>2, <2>4, <3>1, <3>2, <3>3
  <2>5. QED
    BY <2>3, <2>4
<1> HIDE DEF Ended
<1>2. 0 \in Near
  <2>1. ASSUME NEW s \in Scans, Passed(s), Away(s, q) < 0 PROVE Ended(s)
    BY <1>0, <1>1, <2>1
  <2>2. QED
    BY <1>0, <2>1
<1>3. ASSUME NEW n \in 0..(MAX_PID - 1), n \in Near PROVE n + 1 \in Near
  <2> DEFINE Late == {j \in 0..Len(proc_list) : \A s \in Scans :
                         Passed(s) /\ Away(s, q) < n + 1 /\ Len(proc_list) + 1 - s.k <= j => Ended(s)}
  <2>1. 0 \in Late
    <3>1. ASSUME NEW s \in Scans, Passed(s), Len(proc_list) + 1 - s.k <= 0 PROVE Ended(s)
      BY <1>0, <1>1, <3>1
    <3>2. QED
      BY <1>0, <3>1
  <2>2. ASSUME NEW j \in 0..(Len(proc_list) - 1), j \in Late PROVE j + 1 \in Late
    <3>1. ASSUME NEW s \in Scans, Passed(s), Away(s, q) < n + 1, Len(proc_list) + 1 - s.k <= j + 1
          PROVE  Ended(s)
      <4>1. CASE s.k > Len(proc_list)
        BY <1>1, <3>1, <4>1
      <4>2. CASE ~(s.k > Len(proc_list))
        <5> DEFINE r == Rest(s)
        <5>1. /\ Passed(r) /\ r \in Scans /\ (Ended(r) => Ended(s)) /\ s.k \in Nat
              /\ Away(s, q) \in 0..(MAX_PID - 1)
              /\ \/ Away(r, q) = Away(s, q) - 1
                 \/ Away(r, q) = Away(s, q) /\ r.k = s.k + 1
          BY <1>1, <3>1, <4>2
        <5> HIDE DEF r
        <5>2. CASE Away(r, q) = Away(s, q) - 1
          <6>1. Away(r, q) < n
            BY <1>0, <3>1, <5>1, <5>2
          <6>2. QED
            BY <1>3, <5>1, <6>1
        <5>3. CASE Away(r, q) = Away(s, q) /\ r.k = s.k + 1
          <6>1. Away(r, q) < n + 1 /\ Len(proc_list) + 1 - r.k <= j
            BY <1>0, <3>1, <5>1, <5>3
          <6>2. QED
            BY <2>2, <5>1, <6>1
        <5>4. QED
          BY <5>1, <5>2, <5>3
      <4>3. QED
        BY <4>1, <4>2
    <3>2. j + 1 \in 0..Len(proc_list)
      BY <1>0
    <3>3. QED
      BY <3>1, <3>2
  <2> HIDE DEF Late
  <2>3. \A j \in 0..Len(proc_list) : j \in Late
    BY ONLY <1>0, <2>1, <2>2, IntervalInduction
  <2>4. Len(proc_list) \in Late
    BY <1>0, <2>3
  <2>5. ASSUME NEW s \in Scans, Passed(s), Away(s, q) < n + 1 PROVE Ended(s)
    <3>1. Len(proc_list) + 1 - s.k <= Len(proc_list)
      BY <1>0, <1>1, <2>5
    <3>2. QED
      BY <2>4, <2>5, <3>1 DEF Late
  <2>6. n + 1 \in 0..MAX_PID
    BY <1>0
  <2>7. QED
    BY <2>5, <2>6
<1> HIDE DEF Near
<1>4. \A n \in 0..MAX_PID : n \in Near
  BY ONLY <1>0, <1>2, <1>3, IntervalInduction
<1>5. MAX_PID \in Near
  BY <1>0, <1>4
<1>6. start \in Scans /\ (~(start.k > Len(proc_list)) => Away(start, q) < MAX_PID)
  BY <1>0, <1>1
<1>7. Ended(start)
  BY <1>1, <1>5, <1>6 DEF Near
<1>8. QED
  BY <1>7 DEF Ended

\* The processes that have a number, zombies included.
Numbered == {p \in Procs : state[p] # "FREE"}

\* No number in use lies between the last one given and next_safe.
NextSafeSound == \A x \in ToSet(proc_list) : x > last_pid => x >= next_safe

PidInv ==
    /\ PidTypeOK
    /\ pid \in [Procs -> Nat]
    /\ ToSet(proc_list) = {1} \cup {pid[p] : p \in Numbered}
    /\ Len(proc_list) = Cardinality(Numbered) + 1 /\ IsInjective(proc_list)
    /\ \A p \in Numbered : pid[p] # 1
    /\ \A p, q \in Numbered : pid[p] = pid[q] => p = q
    /\ NextSafeSound

\* There are more numbers than processes.
LEMMA FreeNumber ==
    ASSUME PidInv, NEW c \in Procs, state[c] = "FREE"
    PROVE  \E q \in 1..(MAX_PID - 1) : q \notin ToSet(proc_list)
<1> SUFFICES ASSUME 1..(MAX_PID - 1) \subseteq ToSet(proc_list) PROVE FALSE
  OBVIOUS
<1>0. Len(proc_list) \in Nat /\ DOMAIN proc_list = 1..Len(proc_list) /\ MAX_PID \in Nat /\ MAX_PID > 1
  BY DEF PidInv, PidTypeOK
<1>1. IsFiniteSet(ToSet(proc_list)) /\ Cardinality(ToSet(proc_list)) = Len(proc_list)
  <2> DEFINE S == 1..Len(proc_list)
  <2>1. proc_list \in [S -> ToSet(proc_list)]
    BY <1>0 DEF ToSet, PidInv, PidTypeOK
  <2>2. IsFiniteSet(S) /\ Cardinality(S) = Len(proc_list)
    BY <1>0, FS_Interval
  <2>3. \A x, y \in S : proc_list[x] = proc_list[y] => x = y
    BY <1>0 DEF PidInv, IsInjective
  <2>4. \A t \in ToSet(proc_list) : \E x \in S : proc_list[x] = t
    BY <1>0 DEF ToSet
  <2> HIDE DEF S
  <2>5. QED
    BY <2>1, <2>2, <2>3, <2>4, OneToOne
<1>2. Cardinality(1..(MAX_PID - 1)) = MAX_PID - 1
  BY <1>0, FS_Interval
<1>3. Cardinality(1..(MAX_PID - 1)) <= Len(proc_list)
  BY <1>1, FS_Subset
<1>4. Cardinality(Numbered) <= Cardinality(Procs \ {c}) /\ Cardinality(Procs \ {c}) = Cardinality(Procs) - 1
      /\ Cardinality(Procs) \in Nat /\ Cardinality(Numbered) \in Nat
  <2>1. Numbered \subseteq Procs \ {c}
    BY DEF Numbered
  <2>2. IsFiniteSet(Procs) /\ IsFiniteSet(Procs \ {c})
    BY ResAssumption, FS_RemoveElement
  <2>3. QED
    BY <2>1, <2>2, FS_Subset, FS_RemoveElement, FS_CardinalityType
<1>5. QED
  BY <1>0, <1>2, <1>3, <1>4, ResAssumption DEF PidInv

\* get_pid returns a number that is not in use, and leaves a next_safe that it may
\* believe the next time.
LEMMA PidFresh ==
    ASSUME PidInv, NEW c \in Procs, state[c] = "FREE"
    PROVE  /\ get_pid.last \in 1..(MAX_PID - 1) /\ get_pid.safe \in 1..MAX_PID
           /\ get_pid.last \notin ToSet(proc_list)
           /\ \A x \in ToSet(proc_list) : x > get_pid.last => x >= get_pid.safe
<1> DEFINE next == IF last_pid + 1 >= MAX_PID THEN 1 ELSE last_pid + 1
           start == [last |-> next, safe |-> MAX_PID, k |-> 1]
<1>0. /\ PidTypeOK /\ Len(proc_list) \in Nat /\ DOMAIN proc_list = 1..Len(proc_list)
      /\ MAX_PID \in Nat /\ MAX_PID > 1 /\ last_pid \in 1..(MAX_PID - 1) /\ next_safe \in 1..MAX_PID
      /\ \A i \in 1..Len(proc_list) : proc_list[i] \in 1..(MAX_PID - 1)
  BY DEF PidInv, PidTypeOK
<1>1. \A x \in ToSet(proc_list) : x \in 1..(MAX_PID - 1)
  BY <1>0 DEF ToSet
<1>2. next \in 1..(MAX_PID - 1) /\ (next # 1 => next = last_pid + 1)
  BY <1>0
<1>3. CASE next # 1 /\ next < next_safe
  <2>1. get_pid = [last |-> next, safe |-> next_safe]
    BY <1>3 DEF get_pid
  <2>2. get_pid.last = next /\ get_pid.safe = next_safe
    BY <2>1
  <2> HIDE DEF next
  <2>3. ASSUME NEW x \in ToSet(proc_list) PROVE x # next /\ (x > next => x >= next_safe)
    <3>1. x > last_pid => x >= next_safe
      BY DEF PidInv, NextSafeSound
    <3>2. QED
      BY ONLY <1>0, <1>1, <1>2, <1>3, <3>1, x \in ToSet(proc_list)
  <2>4. QED
    BY <1>0, <1>2, <2>2, <2>3
<1>4. CASE ~(next # 1 /\ next < next_safe)
  <2>1. get_pid = scan[start]
    BY <1>4 DEF get_pid
  <2> HIDE DEF next
  <2>2. Passed(start)
    <3>1. start \in Scans
      BY <1>0, <1>2 DEF Scans
    <3>2. QED
      BY <1>0, <1>2, <3>1 DEF Passed
  <2>3. PICK q \in 1..(MAX_PID - 1) : q \notin ToSet(proc_list)
    BY FreeNumber
  <2> DEFINE s == get_pid
  <2> HIDE DEF start, s
  <2>4. Passed(s) /\ s.k > Len(proc_list)
    BY <1>0, <2>1, <2>2, <2>3, ScanEnds DEF s
  <2>5. /\ s.last \in 1..(MAX_PID - 1) /\ s.safe \in 1..MAX_PID /\ s.k = Len(proc_list) + 1
        /\ \A i \in 1..(s.k - 1) : proc_list[i] # s.last /\ (proc_list[i] > s.last => proc_list[i] >= s.safe)
    BY <1>0, <2>4 DEF Passed, Scans
  <2>6. s.k - 1 = Len(proc_list)
    BY <1>0, <2>5
  <2>7. \A x \in ToSet(proc_list) : x # s.last /\ (x > s.last => x >= s.safe)
    BY <1>0, <2>5, <2>6 DEF ToSet
  <2>8. QED
    BY <2>5, <2>7 DEF s
<1>5. QED
  BY <1>3, <1>4

LEMMA PidInit == Init => PidInv
<1> SUFFICES ASSUME Init PROVE PidInv
  OBVIOUS
<1> USE DEF Init
<1>1. MAX_PID \in Nat /\ MAX_PID > 2 /\ root \in Procs /\ IsFiniteSet(Procs)
  <2>1. Procs # {} /\ Cardinality(Procs) \in Nat /\ Cardinality(Procs) # 0
    BY ResAssumption, FS_CardinalityType, FS_EmptySet
  <2>2. QED
    BY <2>1, ResAssumption
<1>2. PidTypeOK
  BY <1>1 DEF PidTypeOK
<1>3. Numbered = {root}
  BY <1>1 DEF Numbered
<1>4. Cardinality(Numbered) = 1
  BY <1>3, FS_Singleton
<1>5. Len(proc_list) = 2 /\ DOMAIN proc_list = {1, 2} /\ proc_list[1] = 2 /\ proc_list[2] = 1
  <2>1. 1..2 = {1, 2}
    OBVIOUS
  <2>2. QED
    BY <2>1
<1>6. ToSet(proc_list) = {1, 2}
  BY <1>5 DEF ToSet
<1>7. pid \in [Procs -> Nat] /\ pid[root] = 2
  BY <1>1
<1>8. ToSet(proc_list) = {1} \cup {pid[p] : p \in Numbered}
  BY <1>3, <1>6, <1>7
<1>9. IsInjective(proc_list)
  BY <1>5 DEF IsInjective
<1>10. NextSafeSound
  BY <1>6 DEF NextSafeSound
<1>11. QED
  BY <1>2, <1>3, <1>4, <1>5, <1>7, <1>8, <1>9, <1>10 DEF PidInv

\* do_fork: the child has a new number, first in the list.
LEMMA PidFork ==
    ASSUME PidInv, ResTypeOK, NEW c \in Procs, state[c] = "FREE",
           state' = [state EXCEPT ![c] = "LIVE"], number(c)
    PROVE  PidInv'
<1> DEFINE x == get_pid.last
<1>0. /\ pid' = [pid EXCEPT ![c] = x] /\ proc_list' = <<x>> \o proc_list
      /\ last_pid' = x /\ next_safe' = get_pid.safe
  BY DEF number
<1>1. /\ x \in 1..(MAX_PID - 1) /\ get_pid.safe \in 1..MAX_PID /\ x \notin ToSet(proc_list)
      /\ \A y \in ToSet(proc_list) : y > x => y >= get_pid.safe
  BY PidFresh
<1>2. /\ MAX_PID \in Nat /\ MAX_PID > 1 /\ proc_list \in Seq(1..(MAX_PID - 1))
      /\ Len(proc_list) \in Nat /\ DOMAIN proc_list = 1..Len(proc_list)
  BY DEF PidInv, PidTypeOK
<1> HIDE DEF x
<1>3. /\ proc_list' \in Seq(1..(MAX_PID - 1)) /\ Len(proc_list') = Len(proc_list) + 1
      /\ proc_list'[1] = x
      /\ \A i \in 2..(Len(proc_list) + 1) : proc_list'[i] = proc_list[i - 1]
  <2>1. <<x>> \in Seq(1..(MAX_PID - 1)) /\ Len(<<x>>) = 1 /\ <<x>>[1] = x
    BY <1>1
  <2>2. /\ proc_list' \in Seq(1..(MAX_PID - 1)) /\ Len(proc_list') = 1 + Len(proc_list)
        /\ \A i \in 1..(1 + Len(proc_list)) : proc_list'[i] = IF i <= 1 THEN <<x>>[i] ELSE proc_list[i - 1]
    BY <1>0, <1>2, <2>1, ConcatProperties
  <2>3. QED
    BY <1>2, <2>1, <2>2
<1>4. DOMAIN proc_list' = 1..(Len(proc_list) + 1)
  BY <1>3
<1>5. ToSet(proc_list') = {x} \cup ToSet(proc_list)
  <2>1. ASSUME NEW y \in ToSet(proc_list') PROVE y \in {x} \cup ToSet(proc_list)
    <3>1. PICK i \in 1..(Len(proc_list) + 1) : y = proc_list'[i]
      BY <1>4, <2>1 DEF ToSet
    <3>2. i = 1 \/ (i \in 2..(Len(proc_list) + 1) /\ i - 1 \in 1..Len(proc_list))
      BY <1>2
    <3>3. QED
      BY <1>2, <1>3, <3>1, <3>2 DEF ToSet
  <2>2. ASSUME NEW y \in ToSet(proc_list) PROVE y \in ToSet(proc_list')
    <3>1. PICK i \in 1..Len(proc_list) : y = proc_list[i]
      BY <1>2, <2>2 DEF ToSet
    <3>2. i + 1 \in 2..(Len(proc_list) + 1) /\ i + 1 \in 1..(Len(proc_list) + 1) /\ i + 1 - 1 = i
      BY <1>2
    <3>3. proc_list'[i + 1] = y
      BY <1>3, <3>1, <3>2
    <3>4. QED
      BY <1>4, <3>2, <3>3 DEF ToSet
  <2>3. x \in ToSet(proc_list')
    <3>1. 1 \in 1..(Len(proc_list) + 1)
      BY <1>2
    <3>2. QED
      BY <1>3, <1>4, <3>1 DEF ToSet
  <2>4. QED
    BY <2>1, <2>2, <2>3
<1>6. IsInjective(proc_list')
  <2> SUFFICES ASSUME NEW i \in 1..(Len(proc_list) + 1), NEW j \in 1..(Len(proc_list) + 1),
                      proc_list'[i] = proc_list'[j]
               PROVE  i = j
    BY <1>4 DEF IsInjective
  <2>1. ASSUME NEW k \in 1..(Len(proc_list) + 1), k # 1
        PROVE  k - 1 \in 1..Len(proc_list) /\ proc_list'[k] = proc_list[k - 1]
    <3>1. k - 1 \in 1..Len(proc_list) /\ k \in 2..(Len(proc_list) + 1)
      BY <1>2, <2>1
    <3>2. QED
      BY <1>3, <3>1
  <2>2. \A k \in 1..Len(proc_list) : proc_list[k] # x
    BY <1>1, <1>2 DEF ToSet
  <2>3. CASE i # 1 /\ j # 1
    <3>1. \A a, b \in 1..Len(proc_list) : proc_list[a] = proc_list[b] => a = b
      BY <1>2 DEF PidInv, IsInjective
    <3>2. i - 1 = j - 1
      BY <2>1, <2>3, <3>1
    <3>3. QED
      BY <1>2, <3>2
  <2>4. QED
    BY <1>3, <2>1, <2>2, <2>3
<1>7. Numbered' = Numbered \cup {c} /\ c \notin Numbered
  BY DEF Numbered, ResTypeOK
<1>8. Cardinality(Numbered') = Cardinality(Numbered) + 1 /\ Cardinality(Numbered) \in Nat
  <2>1. IsFiniteSet(Numbered)
    BY ResAssumption, FS_Subset DEF Numbered
  <2>2. QED
    BY <1>7, <2>1, FS_AddElement, FS_CardinalityType
<1>9. pid' \in [Procs -> Nat] /\ pid'[c] = x /\ \A p \in Numbered : pid'[p] = pid[p] /\ pid[p] # x
  BY <1>0, <1>1, <1>7 DEF PidInv, Numbered
<1>10. x # 1
  BY <1>1 DEF PidInv
<1>11. ToSet(proc_list') = {1} \cup {pid'[p] : p \in Numbered'}
  <2>1. {pid'[p] : p \in Numbered'} = {pid[p] : p \in Numbered} \cup {x}
    BY <1>7, <1>9
  <2>2. QED
    BY <1>5, <2>1 DEF PidInv
<1>12. NextSafeSound'
  BY <1>0, <1>1, <1>2, <1>5 DEF NextSafeSound
<1>13. PidTypeOK'
  BY <1>0, <1>1, <1>2, <1>3 DEF PidTypeOK
<1>14. (\A p \in Numbered : pid[p] # 1)' /\ (\A p, q \in Numbered : pid[p] = pid[q] => p = q)'
  BY <1>7, <1>9, <1>10 DEF PidInv
<1>15. Len(proc_list') = Cardinality(Numbered') + 1
  BY <1>2, <1>3, <1>8 DEF PidInv
<1>16. QED
  BY <1>6, <1>9, <1>11, <1>12, <1>13, <1>14, <1>15 DEF PidInv

\* do_wait: the number of the child leaves the list; next_safe may now be too careful.
LEMMA PidWait ==
    ASSUME PidInv, ResTypeOK, NEW c \in Procs, do_wait(c)
    PROVE  PidInv'
<1>0. /\ c \in Numbered /\ state' = [state EXCEPT ![c] = "FREE"] /\ pid' = [pid EXCEPT ![c] = 0]
      /\ UNCHANGED <<last_pid, next_safe>>
  BY DEF do_wait, Numbered
<1>1. PICK i \in DOMAIN proc_list : proc_list[i] = pid[c] /\ proc_list' = RemoveAt(proc_list, i)
  BY DEF do_wait
<1> DEFINE n == Len(proc_list)
<1>2. /\ MAX_PID \in Nat /\ MAX_PID > 1 /\ proc_list \in Seq(1..(MAX_PID - 1))
      /\ n \in Nat /\ DOMAIN proc_list = 1..n /\ i \in 1..n
  BY <1>1 DEF PidInv, PidTypeOK
<1>3. /\ proc_list' \in Seq(1..(MAX_PID - 1)) /\ Len(proc_list') = n - 1
      /\ \A k \in 1..(n - 1) : proc_list'[k] = IF k < i THEN proc_list[k] ELSE proc_list[k + 1]
  BY <1>1, <1>2, RemoveAtProperties
<1>4. DOMAIN proc_list' = 1..(n - 1)
  BY <1>3
<1>5. \A a, b \in 1..n : proc_list[a] = proc_list[b] => a = b
  BY <1>2 DEF PidInv, IsInjective
<1> DEFINE from == [k \in 1..(n - 1) |-> IF k < i THEN k ELSE k + 1]
<1> HIDE DEF n
<1>6. \A k \in 1..(n - 1) : from[k] \in 1..n /\ from[k] # i /\ proc_list'[k] = proc_list[from[k]]
  BY <1>2, <1>3
<1>7. \A k, l \in 1..(n - 1) : from[k] = from[l] => k = l
  BY <1>2
<1>8. \A j \in 1..n : j # i => \E k \in 1..(n - 1) : from[k] = j
  <2> SUFFICES ASSUME NEW j \in 1..n, j # i PROVE \E k \in 1..(n - 1) : from[k] = j
    OBVIOUS
  <2>1. CASE j < i
    <3>1. j \in 1..(n - 1) /\ from[j] = j
      BY <1>2, <2>1
    <3>2. QED
      BY <3>1
  <2>2. CASE ~(j < i)
    <3>1. j - 1 \in 1..(n - 1) /\ ~(j - 1 < i) /\ j - 1 + 1 = j
      BY <1>2, <2>2
    <3>2. from[j - 1] = j
      BY <3>1
    <3>3. QED
      BY <3>1, <3>2
  <2>3. QED
    BY <2>1, <2>2
<1> HIDE DEF from
<1>9. ToSet(proc_list') = ToSet(proc_list) \ {pid[c]}
  <2>1. ASSUME NEW y \in ToSet(proc_list') PROVE y \in ToSet(proc_list) /\ y # pid[c]
    <3>1. PICK k \in 1..(n - 1) : y = proc_list'[k]
      BY <1>4, <2>1 DEF ToSet
    <3>2. y = proc_list[from[k]] /\ from[k] \in 1..n /\ from[k] # i
      BY <1>6, <3>1
    <3>3. QED
      BY <1>1, <1>2, <1>5, <3>2 DEF ToSet
  <2>2. ASSUME NEW y \in ToSet(proc_list), y # pid[c] PROVE y \in ToSet(proc_list')
    <3>1. PICK j \in 1..n : y = proc_list[j]
      BY <1>2, <2>2 DEF ToSet
    <3>2. PICK k \in 1..(n - 1) : from[k] = j
      BY <1>1, <1>8, <2>2, <3>1
    <3>3. proc_list'[k] = y
      BY <1>6, <3>1, <3>2
    <3>4. QED
      BY <1>4, <3>3 DEF ToSet
  <2>3. QED
    BY <2>1, <2>2
<1>10. IsInjective(proc_list')
  <2> SUFFICES ASSUME NEW k \in 1..(n - 1), NEW l \in 1..(n - 1), proc_list'[k] = proc_list'[l]
               PROVE  k = l
    BY <1>4 DEF IsInjective
  <2>1. from[k] = from[l]
    BY <1>5, <1>6
  <2>2. QED
    BY <1>7, <2>1
<1>11. Numbered' = Numbered \ {c}
  BY <1>0 DEF Numbered, ResTypeOK
<1>12. Cardinality(Numbered') = Cardinality(Numbered) - 1
  <2>1. IsFiniteSet(Numbered)
    BY ResAssumption, FS_Subset DEF Numbered
  <2>2. QED
    BY <1>0, <1>11, <2>1, FS_RemoveElement
<1>13. pid' \in [Procs -> Nat] /\ \A p \in Numbered' : pid'[p] = pid[p] /\ p \in Numbered
  BY <1>0, <1>11 DEF PidInv, Numbered
<1>14. \A p, q \in Numbered : pid[p] = pid[q] => p = q
  BY DEF PidInv
<1>15. ToSet(proc_list') = {1} \cup {pid'[p] : p \in Numbered'}
  <2>1. {pid'[p] : p \in Numbered'} = {pid[p] : p \in Numbered} \ {pid[c]}
    BY <1>0, <1>11, <1>13, <1>14
  <2>2. pid[c] # 1
    BY <1>0 DEF PidInv
  <2>3. QED
    BY <1>9, <2>1, <2>2 DEF PidInv
<1>16. NextSafeSound'
  BY <1>0, <1>9 DEF NextSafeSound, PidInv
<1>17. PidTypeOK'
  BY <1>0, <1>3 DEF PidTypeOK, PidInv
<1>18. (\A p \in Numbered : pid[p] # 1)' /\ (\A p, q \in Numbered : pid[p] = pid[q] => p = q)'
  BY <1>13, <1>14 DEF PidInv
<1>19. Len(proc_list') = Cardinality(Numbered') + 1
  <2>1. n = Cardinality(Numbered) + 1 /\ Cardinality(Numbered) \in Nat
    <3>1. IsFiniteSet(Numbered)
      BY ResAssumption, FS_Subset DEF Numbered
    <3>2. QED
      BY <3>1, FS_CardinalityType DEF PidInv, n
  <2>2. QED
    BY <1>3, <1>12, <2>1
<1>20. QED
  BY <1>10, <1>13, <1>15, <1>16, <1>17, <1>18, <1>19 DEF PidInv

LEMMA PidStep == ResTypeOK /\ PidInv /\ [Next]_vars => PidInv'
<1> SUFFICES ASSUME ResTypeOK, PidInv, [Next]_vars PROVE PidInv'
  OBVIOUS
<1>1. ASSUME UNCHANGED pidvars, Numbered' = Numbered PROVE PidInv'
  <2>1. UNCHANGED <<pid, proc_list, last_pid, next_safe>>
    BY <1>1 DEF pidvars
  <2>2. QED
    BY <1>1, <2>1 DEF PidInv, PidTypeOK, NextSafeSound
<1>2. CASE UNCHANGED vars
  BY <1>1, <1>2 DEF vars, Numbered
<1>3. ASSUME NEW p \in Procs, do_fork_no_memory(p) \/ do_execve(p) PROVE PidInv'
  BY <1>1, <1>3 DEF do_fork_no_memory, do_execve, Numbered
<1>4. ASSUME NEW p \in Procs, do_exit(p) \/ do_execve_no_load(p) PROVE PidInv'
  <2>1. UNCHANGED pidvars /\ state' = [state EXCEPT ![p] = "ZOMBIE"] /\ state[p] = "LIVE"
    BY <1>4 DEF do_exit, do_execve_no_load
  <2>2. Numbered' = Numbered
    BY <2>1 DEF Numbered, ResTypeOK
  <2>3. QED
    BY <1>1, <2>1, <2>2
<1>5. ASSUME NEW p \in Procs, NEW c \in Procs, NEW flags, do_fork(p, c, flags) PROVE PidInv'
  BY <1>5, PidFork DEF do_fork
<1>6. QED
  BY <1>2, <1>3, <1>4, <1>5, PidWait DEF Next, do_execve_no_file, sys_exit

\* No two processes have the same number, init and zombies included, whatever order
\* they come and go in: the numbers get_pid gives without looking are free as well.
THEOREM NumbersUnique == Spec => []PidsUnique
<1>1. PidInv => PidsUnique
  <2> SUFFICES ASSUME PidInv PROVE PidsUnique
    OBVIOUS
  <2>1. ToSet(proc_list) \subseteq 1..(MAX_PID - 1)
    BY DEF PidInv, PidTypeOK, ToSet
  <2>2. QED
    BY <2>1 DEF PidInv, PidsUnique, Numbered
<1>2. ResInv => ResTypeOK
  BY DEF ResInv
<1>3. Init => PidInv
  BY PidInit
<1>4. QED
  BY ResInit, ResStep, PidStep, <1>1, <1>2, <1>3, PTL DEF Spec
=============================================================================
