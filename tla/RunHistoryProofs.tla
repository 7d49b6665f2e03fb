--------------------------- MODULE RunHistoryProofs ---------------------------
(***************************************************************************)
(* The life of runs for any number of requests, of runs per request, of    *)
(* restarts and any size of the history.                                   *)
(***************************************************************************)
EXTENDS RunHistory, FiniteSetTheorems, SequenceTheorems, WellFoundedInduction, TLAPS

-----------------------------------------------------------------------------
(* The newest members of a finite set.                                     *)

\* A finite set has a member with the least number.
LEMMA Lowest ==
  ASSUME NEW S, IsFiniteSet(S), S # {}, NEW f \in [S -> Int]
  PROVE  \E m \in S : \A s \in S : f[m] <= f[s]
<1> DEFINE Below(m) == {s \in S : f[s] < f[m]}
           T == {Below(m) : m \in S}
<1>1. IsWellFoundedOn(StrictSubsetOrdering(S), SUBSET S)
  BY FS_StrictSubsetOrderingWellFounded, FS_FiniteSubsetsOfFinite
<1>2. T \subseteq SUBSET S /\ T # {}
  <2>1. PICK m \in S : TRUE OBVIOUS
  <2>2. Below(m) \in T OBVIOUS
  <2>3. \A k \in S : Below(k) \in SUBSET S OBVIOUS
  <2> HIDE DEF Below
  <2>4. QED BY <2>2, <2>3
<1>3. PICK x \in T : \A y \in T : ~ (<<y, x>> \in StrictSubsetOrdering(S))
  <2> HIDE DEF T
  <2> QED BY <1>1, <1>2, WFMin
<1>4. PICK m \in S : x = Below(m)
  BY <1>3
<1>5. ASSUME NEW s \in S, f[s] < f[m] PROVE FALSE
  <2>1. Below(s) \subseteq Below(m)
    BY <1>5
  <2>2. s \in Below(m) /\ s \notin Below(s)
    BY <1>5
  <2>3. <<Below(s), Below(m)>> \in StrictSubsetOrdering(S)
    BY <2>1, <2>2 DEF StrictSubsetOrdering
  <2>4. QED BY <1>3, <1>4, <2>3
<1>6. QED BY <1>5

LEMMA Highest ==
  ASSUME NEW S, IsFiniteSet(S), S # {}, NEW f \in [S -> Int]
  PROVE  \E m \in S : \A s \in S : f[s] <= f[m]
<1> DEFINE g == [s \in S |-> 0 - f[s]]
<1>1. PICK m \in S : \A s \in S : g[m] <= g[s]
  <2>1. g \in [S -> Int] OBVIOUS
  <2> HIDE DEF g
  <2>2. QED BY <2>1, Lowest
<1>2. ASSUME NEW s \in S PROVE f[s] <= f[m]
  BY <1>1
<1>3. QED BY <1>2

Above(S, v) == {s \in S : born[s] > v}

LEMMA AboveIsFinite ==
  ASSUME NEW S, IsFiniteSet(S), NEW v
  PROVE  IsFiniteSet(Above(S, v)) /\ Cardinality(Above(S, v)) \in Nat
  BY FS_Subset, FS_CardinalityType DEF Above

\* Where a set has n members above a number, so have its n newest.
LEMMA NewestAbove ==
  ASSUME born \in [Runs -> Nat], NEW S \in SUBSET Runs, IsFiniteSet(S), NEW n \in Nat,
         NEW v \in Nat, Cardinality(Above(S, v)) >= n
  PROVE  Cardinality(Above(Newest(S, n), v)) >= n
<1> DEFINE W == Newest(S, n)
<1>1. W \subseteq S /\ IsFiniteSet(W) /\ Cardinality(W) \in Nat /\ Cardinality(S) \in Nat
  BY FS_Subset, FS_CardinalityType DEF Newest
<1>2. ASSUME NEW s \in W PROVE born[s] > v
  <2>1. Cardinality(Above(S, born[s])) < n
    BY DEF Newest, Above
  <2>2. SUFFICES ASSUME ~(born[s] > v) PROVE FALSE
    OBVIOUS
  <2>3. Above(S, v) \subseteq Above(S, born[s])
    BY <1>1, <2>2 DEF Above
  <2>4. Cardinality(Above(S, v)) <= Cardinality(Above(S, born[s]))
    BY <2>3, AboveIsFinite, FS_Subset
  <2>5. QED BY <2>1, <2>4, AboveIsFinite
<1>3. Above(W, v) = W
  BY <1>2 DEF Above
<1>4. Cardinality(W) >= n
  <2> SUFFICES ASSUME Cardinality(W) < n PROVE FALSE
    BY <1>1
  <2>1. Cardinality(S) >= n
    <3>1. Above(S, v) \in SUBSET S BY DEF Above
    <3>2. Cardinality(Above(S, v)) <= Cardinality(S) BY <3>1, FS_Subset
    <3>3. QED BY <1>1, <3>2, AboveIsFinite
  <2>2. S \ W # {} /\ IsFiniteSet(S \ W)
    BY <1>1, <2>1, FS_Subset
  <2>3. PICK m \in S \ W : \A s \in S \ W : born[s] <= born[m]
    <3> DEFINE f == [s \in S \ W |-> born[s]]
    <3>1. f \in [S \ W -> Int]
      BY <1>1
    <3>2. \E m \in S \ W : \A s \in S \ W : f[s] <= f[m]
      <4> HIDE DEF f, W
      <4> QED BY <2>2, <3>1, Highest
    <3>3. QED BY <3>2
  <2>4. Above(S, born[m]) \subseteq W
    BY <1>1, <2>3 DEF Above
  <2>5. Cardinality(Above(S, born[m])) <= Cardinality(W)
    BY <1>1, <2>4, FS_Subset
  <2>6. m \in W
    <3>1. Cardinality(Above(S, born[m])) \in Nat BY AboveIsFinite
    <3>2. Cardinality(Above(S, born[m])) < n BY <1>1, <2>5, <3>1
    <3>3. m \in S BY <2>3
    <3>4. QED BY <3>2, <3>3 DEF Newest, Above
  <2>7. QED BY <2>3, <2>6
<1>5. QED BY <1>3, <1>4

\* If no two started at the same time, no more than n are among the n newest, and
\* no fewer if one is not among them.
LEMMA NewestSize ==
  ASSUME born \in [Runs -> Nat], NEW S \in SUBSET Runs, IsFiniteSet(S), NEW n \in Nat,
         \A r, s \in S : born[r] = born[s] => r = s
  PROVE  /\ Newest(S, n) \subseteq S /\ IsFiniteSet(Newest(S, n))
         /\ Cardinality(Newest(S, n)) \in 0..n
         /\ \A r \in S \ Newest(S, n) : Cardinality(Newest(S, n)) = n
<1> DEFINE W == Newest(S, n)
<1>1. W \subseteq S /\ IsFiniteSet(W) /\ Cardinality(W) \in Nat
  BY FS_Subset, FS_CardinalityType DEF Newest
<1>2. Cardinality(W) <= n
  <2>1. CASE W = {} BY <2>1, FS_EmptySet
  <2>2. CASE W # {}
    <3>1. PICK m \in W : \A s \in W : born[m] <= born[s]
      <4> DEFINE f == [s \in W |-> born[s]]
      <4>1. f \in [W -> Int] BY <1>1
      <4>2. \E m \in W : \A s \in W : f[m] <= f[s]
        <5> HIDE DEF f, W
        <5> QED BY <1>1, <2>2, <4>1, Lowest
      <4>3. QED BY <4>2
    <3>2. W \ {m} \subseteq Above(S, born[m])
      BY <1>1, <3>1 DEF Above
    <3>3. Cardinality(W \ {m}) <= Cardinality(Above(S, born[m]))
      BY <3>2, AboveIsFinite, FS_Subset
    <3>4. Cardinality(W \ {m}) = Cardinality(W) - 1
      BY <1>1, FS_RemoveElement
    <3>5. Cardinality(Above(S, born[m])) < n
      BY DEF Newest, Above
    <3>6. QED BY <1>1, <3>3, <3>4, <3>5, AboveIsFinite
  <2>3. QED BY <2>1, <2>2
<1>3. ASSUME NEW r \in S \ W PROVE Cardinality(W) >= n
  <2>1. Cardinality(Above(S, born[r])) >= n
    BY AboveIsFinite DEF Newest, Above
  <2>2. Cardinality(Above(W, born[r])) >= n
    BY <2>1, NewestAbove
  <2>3. Cardinality(Above(W, born[r])) <= Cardinality(W)
    BY <1>1, FS_Subset DEF Above
  <2>4. QED BY <1>1, <2>2, <2>3, AboveIsFinite
<1>4. QED BY <1>1, <1>2, <1>3

-----------------------------------------------------------------------------
(* The inductive invariant.                                                *)

Unlaunched == {"idle", "registered", "rejected"}
Launched == {"running", "settled", "filed"}

\* A request that runs is at one of its runs.
AtRuns ==
  \A q \in Requests : /\ pc[q] = "registered" => q \in Grouped
                      /\ pc[q] \in Launched => cur[q] \in DOMAIN Batch[q]

InHistory(r) == r \in Filed \/ Len(history) = MaxStoredRuns

\* Where the i-th run of a request is: nowhere, active, or in the history.
RunAt(q, i) ==
  LET r == Batch[q][i] IN
  /\ pc[q] \in Unlaunched =>
       status[r] = "none" /\ born[r] = 0 /\ persist[r] = "none" /\ r \notin active
  /\ pc[q] \in Launched /\ (i > cur[q] \/ (i = cur[q] /\ pc[q] # "filed")) => r \in active
  /\ pc[q] \in Launched /\ (i < cur[q] \/ (i = cur[q] /\ pc[q] = "filed")) =>
       r \notin active /\ InHistory(r)
  /\ pc[q] \in Launched /\ (i < cur[q] \/ (i = cur[q] /\ pc[q] # "running")) =>
       status[r] \in Finals
  /\ pc[q] = "done" =>
       r \notin active /\ (InHistory(r) \/ (status[r] = "none" /\ restarts > 0))

RunsAt == \A q \in Requests : \A i \in DOMAIN Batch[q] : RunAt(q, i)

\* A run goes from active to the history and to its file, never back.
RunsMoveOn ==
  \A r \in Runs :
    /\ r \in active => persist[r] = "none"
    /\ persist[r] \in {"queued", "writing"} => status[r] \in Finals
    /\ persist[r] = "none" => r \notin Filed /\ files[r] = "none"

HistoryIsProper ==
  /\ Len(history) <= MaxStoredRuns
  /\ \A i \in DOMAIN history : status[history[i]] \in Finals
  /\ \A i, j \in DOMAIN history : history[i] = history[j] => i = j

\* No two runs started at the same time.
Ranks ==
  \A r \in Runs :
    /\ r \in active \/ persist[r] # "none" \/ files[r] # "none" => born[r] > 0
    /\ born[r] <= Cardinality(Created)
    /\ \A s \in Runs : born[r] = born[s] /\ born[r] > 0 => r = s

Places == AtRuns /\ RunsAt /\ RunsMoveOn /\ HistoryIsProper /\ Ranks
IInv == TypeOK /\ Places

\* A run is in one request, once.
LEMMA Disjoint ==
  ASSUME NEW p \in Requests, NEW q \in Requests,
         NEW i \in DOMAIN Batch[p], NEW j \in DOMAIN Batch[q], Batch[p][i] = Batch[q][j]
  PROVE  p = q /\ i = j
  BY RunAssumption

LEMMA BatchType ==
  ASSUME NEW q \in Requests
  PROVE  /\ Batch[q] \in Seq(Runs) /\ Len(Batch[q]) \in Nat \ {0}
         /\ DOMAIN Batch[q] = 1..Len(Batch[q])
         /\ \A i \in DOMAIN Batch[q] : Batch[q][i] \in Runs
<1>1. Batch[q] \in Seq(Runs) /\ Batch[q] # <<>>
  BY RunAssumption
<1>2. QED BY <1>1, LenProperties, EmptySeq, ElementOfSeq

LEMMA FiniteSets ==
  ASSUME NEW S \in SUBSET Runs
  PROVE  IsFiniteSet(S) /\ Cardinality(S) \in Nat
  BY RunAssumption, FS_Subset, FS_CardinalityType

LEMMA FiledType == TypeOK => Filed \subseteq Runs /\ Len(history) \in Nat /\ DOMAIN history = 1..Len(history)
  BY ElementOfSeq, LenProperties DEF TypeOK, Filed

-----------------------------------------------------------------------------
(* Types.                                                                  *)

LEMMA InitType == Init => TypeOK
  BY RunAssumption, EmptySeq DEF Init, TypeOK, RequestStates, PersistStates, Finals

LEMMA RegisterType ==
  ASSUME TypeOK, NEW q \in Requests, Register(q)
  PROVE  TypeOK'
  BY BatchType
  DEF TypeOK, Register, runVars, diskVars, RequestStates

LEMMA RejectType ==
  ASSUME TypeOK, NEW q \in Requests, Reject(q)
  PROVE  TypeOK'
  BY DEF TypeOK, Reject, runVars, diskVars, RequestStates

LEMMA LaunchType ==
  ASSUME TypeOK, NEW q \in Requests, Launch(q)
  PROVE  TypeOK'
<1>1. Cardinality(Created) \in Nat
  BY FiniteSets DEF Created
<1>2. ASSUME NEW r \in RunsOf(q)
      PROVE  (CHOOSE i \in DOMAIN Batch[q] : Batch[q][i] = r) \in Nat
  BY BatchType DEF RunsOf
<1>3. born' \in [Runs -> Nat]
  <2> DEFINE rank(r) == CHOOSE i \in DOMAIN Batch[q] : Batch[q][i] = r
  <2>1. \A r \in RunsOf(q) : rank(r) \in Nat
    BY <1>2
  <2>2. born' = [r \in Runs |-> IF r \in RunsOf(q) THEN Cardinality(Created) + rank(r)
                                ELSE born[r]]
    BY DEF Launch
  <2> HIDE DEF rank
  <2>3. \A r \in Runs : (IF r \in RunsOf(q) THEN Cardinality(Created) + rank(r)
                         ELSE born[r]) \in Nat
    BY <1>1, <2>1 DEF TypeOK
  <2>4. QED BY <2>2, <2>3
<1>4. RunsOf(q) \subseteq Runs
  BY BatchType DEF RunsOf
<1>5. pc' \in [Requests -> RequestStates] /\ cur' \in [Requests -> Nat]
  BY DEF TypeOK, Launch, RequestStates
<1>6. status' \in [Runs -> Finals \cup {"none", "RUNNING"}] /\ active' \subseteq Runs
  BY <1>4 DEF TypeOK, Launch
<1>7. QED
  BY <1>3, <1>5, <1>6 DEF TypeOK, Launch, trackerVars, diskVars

LEMMA SettleType ==
  ASSUME TypeOK, NEW q \in Requests, Settle(q)
  PROVE  TypeOK'
<1>1. pc' \in [Requests -> RequestStates]
  BY DEF TypeOK, Settle, RequestStates
<1>2. status' \in [Runs -> Finals \cup {"none", "RUNNING"}]
  BY DEF TypeOK, Settle
<1>3. QED
  BY <1>1, <1>2 DEF TypeOK, Settle, trackerVars, diskVars

\* What filing makes of the history.
LEMMA CapKeeps ==
  ASSUME TypeOK, NEW r \in Runs
  PROVE  LET h == Cap(<<r>> \o history)
         IN  /\ h \in Seq(Runs)
             /\ Len(h) = IF Len(history) + 1 > MaxStoredRuns THEN MaxStoredRuns ELSE Len(history) + 1
             /\ \A i \in 1..Len(h) : h[i] = IF i = 1 THEN r ELSE history[i - 1]
<1> DEFINE l == <<r>> \o history
           n == IF Len(l) > MaxStoredRuns THEN MaxStoredRuns ELSE Len(l)
<1>1. /\ <<r>> \in Seq(Runs) /\ Len(<<r>>) = 1 /\ <<r>>[1] = r
      /\ history \in Seq(Runs) /\ Len(history) \in Nat
  BY LenProperties DEF TypeOK
<1>2. /\ l \in Seq(Runs) /\ Len(l) = 1 + Len(history)
      /\ \A i \in 1..(1 + Len(history)) : l[i] = IF i <= 1 THEN <<r>>[i] ELSE history[i - 1]
  BY <1>1, ConcatProperties
<1>3. n \in Nat /\ n <= Len(l) /\ n >= 1
  BY <1>1, <1>2, RunAssumption
<1>4. \A i \in 1..n : l[i] \in Runs
  BY <1>2, <1>3, ElementOfSeq
<1> HIDE DEF l
<1>5. /\ SubSeq(l, 1, n) \in Seq(Runs) /\ Len(SubSeq(l, 1, n)) = n
      /\ \A i \in 1..n : SubSeq(l, 1, n)[i] = l[i]
  <2> HIDE DEF n
  <2>1. /\ SubSeq(l, 1, n) \in Seq(Runs)
        /\ Len(SubSeq(l, 1, n)) = IF 1 <= n THEN n - 1 + 1 ELSE 0
        /\ \A i \in 1..(n - 1 + 1) : SubSeq(l, 1, n)[i] = l[1 + i - 1]
    BY <1>3, <1>4, SubSeqProperties
  <2>2. QED BY <1>3, <2>1
<1>6. Cap(<<r>> \o history) = SubSeq(l, 1, n)
  BY DEF Cap, l
<1>7. n = IF Len(history) + 1 > MaxStoredRuns THEN MaxStoredRuns ELSE Len(history) + 1
  BY <1>1, <1>2, RunAssumption
<1>8. \A i \in 1..n : l[i] = IF i = 1 THEN r ELSE history[i - 1]
  <2> HIDE DEF n
  <2>1. SUFFICES ASSUME NEW i \in 1..n PROVE l[i] = IF i = 1 THEN r ELSE history[i - 1]
    OBVIOUS
  <2>2. i \in 1..(1 + Len(history)) BY <1>1, <1>2, <1>3
  <2>3. l[i] = IF i <= 1 THEN <<r>>[i] ELSE history[i - 1] BY <1>2, <2>2
  <2>4. QED BY <1>1, <1>3, <2>2, <2>3
<1> HIDE DEF n
<1>9. QED
  BY <1>5, <1>6, <1>7, <1>8

LEMMA FileType ==
  ASSUME IInv, NEW q \in Requests, File(q)
  PROVE  TypeOK'
<1>1. Current(q) \in Runs
  BY BatchType DEF IInv, Places, AtRuns, Launched, File, Current
<1>2. history' \in Seq(Runs)
  BY <1>1, CapKeeps DEF IInv, File
<1>3. QED
  BY <1>1, <1>2 DEF IInv, TypeOK, File, trackerVars, RequestStates, PersistStates

\* A run that is filed has an outcome.
LEMMA SnapshotType ==
  ASSUME IInv, NEW q \in Requests, pc[q] = "filed"
  PROVE  Snapshot(q) \in Runs \X Finals
  BY BatchType DEF IInv, Places, AtRuns, RunsAt, RunAt, Launched, Snapshot, Current

LEMMA ReportType ==
  ASSUME IInv, NEW q \in Requests, Report(q)
  PROVE  TypeOK'
<1>1. Snapshot(q) \in Runs \X Finals
  BY SnapshotType DEF Report
<1>2. Append(snaps[q], Snapshot(q)) \in Seq(Runs \X Finals)
  BY <1>1 DEF IInv, TypeOK
<1>3. /\ pending' \in [Requests -> Nat]
      /\ snaps' \in [Requests -> Seq(Runs \X Finals)]
      /\ digests' \in [Requests -> Seq(Seq(Runs \X Finals))]
  <2>1. CASE AlertAlone(q)
    BY <2>1 DEF IInv, TypeOK, AlertAlone
  <2>2. CASE FinishInGroup(q)
    <3>1. pending[q] \in Nat /\ pending[q] > 0 /\ pending' = [pending EXCEPT ![q] = pending[q] - 1]
      BY <2>2 DEF FinishInGroup, IInv, TypeOK
    <3>2. pending' \in [Requests -> Nat]
      BY <3>1 DEF IInv, TypeOK
    <3>3. CASE /\ snaps' = [snaps EXCEPT ![q] = Append(snaps[q], Snapshot(q))]
               /\ UNCHANGED digests
      BY <1>2, <3>2, <3>3 DEF IInv, TypeOK
    <3>4. CASE /\ digests' = [digests EXCEPT ![q] = Append(digests[q], Append(snaps[q], Snapshot(q)))]
               /\ snaps' = [snaps EXCEPT ![q] = <<>>]
      <4>1. Append(digests[q], Append(snaps[q], Snapshot(q))) \in Seq(Seq(Runs \X Finals))
        BY <1>2 DEF IInv, TypeOK
      <4>2. <<>> \in Seq(Runs \X Finals) OBVIOUS
      <4>3. QED BY <3>2, <3>4, <4>1, <4>2 DEF IInv, TypeOK
    <3>5. QED BY <2>2, <3>3, <3>4 DEF FinishInGroup
  <2>3. QED BY <2>1, <2>2 DEF Report
<1>6. Current(q) \in Runs
  BY BatchType DEF IInv, Places, AtRuns, Launched, Report, Current
<1>7. alerts' \subseteq Runs
  BY <1>6 DEF IInv, TypeOK, Report, FinishInGroup, AlertAlone
<1>8. pc' \in [Requests -> RequestStates] /\ cur' \in [Requests -> Nat]
  BY DEF IInv, TypeOK, Report, Advance, RequestStates
<1>9. QED
  BY <1>3, <1>7, <1>8 DEF IInv, TypeOK, Report, runVars, diskVars

LEMMA PersistType ==
  ASSUME IInv, NEW r \in Runs, PersistStep(r) \/ SaveFails(r)
  PROVE  TypeOK'
<1> USE DEF IInv, TypeOK, PersistStates, runVars, trackerVars
<1>1. CASE WriteTmp(r) BY <1>1 DEF WriteTmp
<1>2. CASE Rename(r)
  <2>1. status[r] \in Finals
    BY <1>2 DEF Rename, Places, RunsMoveOn
  <2>2. QED BY <1>2, <2>1 DEF Rename
<1>3. CASE Prune(r)
  <2>1. files' \in [Runs -> Finals \cup {"none"}] /\ tmps' \subseteq Runs /\ unpruned' \subseteq Runs
    BY <1>3 DEF Prune, PruneFiles
  <2>2. QED BY <1>3, <2>1 DEF Prune
<1>4. CASE SaveFails(r) BY <1>4 DEF SaveFails
<1>5. QED BY <1>1, <1>2, <1>3, <1>4 DEF PersistStep

\* What a restart loads is a sequence of the newest runs among those it can read,
\* and memory knows the outcomes of these.
LEMMA LoadedType ==
  ASSUME IInv, Restart
  PROVE  \E readable \in SUBSET Stored :
           LET loaded == Newest(readable, MaxStoredRuns) IN
           /\ status' = [r \in Runs |-> IF r \in loaded THEN files[r] ELSE "none"]
           /\ loaded \subseteq Runs /\ Cardinality(loaded) \in Nat
           /\ history' \in Seq(Runs) /\ Len(history') = Cardinality(loaded)
           /\ history' \in [1..Len(history') -> loaded]
           /\ \A i, j \in DOMAIN history' : i < j => born[history'[i]] > born[history'[j]]
<1>1. PICK readable \in SUBSET Stored :
         LET loaded == Newest(readable, MaxStoredRuns) IN
         /\ status' = [r \in Runs |-> IF r \in loaded THEN files[r] ELSE "none"]
         /\ \E h \in [1..Cardinality(loaded) -> loaded] :
              /\ \A i, j \in DOMAIN h : i < j => born[h[i]] > born[h[j]]
              /\ history' = h
  BY DEF Restart
<1> DEFINE loaded == Newest(readable, MaxStoredRuns)
           n == Cardinality(loaded)
<1>2. PICK h \in [1..n -> loaded] :
         /\ \A i, j \in DOMAIN h : i < j => born[h[i]] > born[h[j]]
         /\ history' = h
  BY <1>1
<1>3. loaded \subseteq Runs /\ n \in Nat
  BY FiniteSets DEF Newest, Stored
<1>4. status' = [r \in Runs |-> IF r \in loaded THEN files[r] ELSE "none"]
  BY <1>1
<1> SUFFICES /\ status' = [r \in Runs |-> IF r \in loaded THEN files[r] ELSE "none"]
             /\ loaded \subseteq Runs /\ n \in Nat
             /\ history' \in Seq(Runs) /\ Len(history') = n
             /\ history' \in [1..Len(history') -> loaded]
             /\ \A i, j \in DOMAIN history' : i < j => born[history'[i]] > born[history'[j]]
  OBVIOUS
<1> HIDE DEF n, loaded
<1>5. history' \in [1..n -> Runs] /\ history' \in Seq(Runs) /\ Len(history') = n
  <2>1. history' \in [1..n -> Runs] BY <1>2, <1>3
  <2>2. history' \in Seq(Runs) BY <1>3, <2>1
  <2>3. QED BY <1>3, <2>1, <2>2, LenProperties
<1>6. QED BY <1>2, <1>3, <1>4, <1>5

LEMMA RestartType ==
  ASSUME IInv, Restart
  PROVE  TypeOK'
<1>1. history' \in Seq(Runs)
  BY LoadedType
<1>2. pc' \in [Requests -> RequestStates] /\ persist' \in [Runs -> PersistStates]
  BY DEF IInv, TypeOK, Restart, RequestStates, PersistStates
<1>3. status' \in [Runs -> Finals \cup {"none", "RUNNING"}] /\ active' \subseteq Runs
  <2>1. \E W : status' = [r \in Runs |-> IF r \in W THEN files[r] ELSE "none"]
    BY LoadedType
  <2>2. QED BY <2>1 DEF IInv, TypeOK, Restart
<1>4. pending' \in [Requests -> Nat] /\ snaps' \in [Requests -> Seq(Runs \X Finals)]
  BY DEF Restart
<1>5. restarts' \in 0..MaxRestarts
  BY RunAssumption DEF IInv, TypeOK, Restart
<1>6. QED
  BY <1>1, <1>2, <1>3, <1>4, <1>5 DEF IInv, TypeOK, Restart

-----------------------------------------------------------------------------
(* Where runs are.                                                         *)

LEMMA InitPlaces == Init => Places
<1> SUFFICES ASSUME Init PROVE Places
  OBVIOUS
<1>1. history = <<>> /\ Len(history) = 0 /\ Filed = {} /\ DOMAIN history = {}
  BY DEF Init, Filed
<1>2. AtRuns /\ RunsAt
  BY BatchType DEF Init, AtRuns, RunsAt, RunAt, Launched, Unlaunched
<1>3. RunsMoveOn /\ HistoryIsProper
  BY <1>1, RunAssumption DEF Init, RunsMoveOn, HistoryIsProper
<1>4. Ranks
  BY FiniteSets DEF Init, Ranks, Created
<1>5. QED BY <1>2, <1>3, <1>4 DEF Places

\* Before the launch: no run is touched.
LEMMA BeforePlaces ==
  ASSUME IInv, NEW q \in Requests, Register(q) \/ Reject(q)
  PROVE  Places'
<1> USE DEF IInv, Places
<1>1. UNCHANGED <<cur, status, born, active, history, persist, files, restarts>>
  BY DEF Register, Reject, runVars, diskVars
<1>2. /\ pc[q] \in Unlaunched /\ pc'[q] \in Unlaunched
      /\ pc'[q] = "registered" => q \in Grouped
      /\ \A p \in Requests : p # q => pc'[p] = pc[p]
  BY DEF Register, Reject, ReadyToLaunch, TypeOK, Unlaunched
<1>3. AtRuns'
  BY <1>1, <1>2 DEF AtRuns, Unlaunched, Launched
<1>4. ASSUME NEW p \in Requests, NEW i \in DOMAIN Batch[p] PROVE RunAt(p, i)'
  <2>1. CASE p = q
    BY <1>1, <1>2, <2>1 DEF RunsAt, RunAt, Unlaunched, Launched
  <2>2. CASE p # q
    BY <1>1, <1>2, <2>2 DEF RunsAt, RunAt, InHistory, Filed
  <2>3. QED BY <2>1, <2>2
<1>5. RunsMoveOn' /\ HistoryIsProper' /\ Ranks'
  BY SMTT(30), <1>1 DEF RunsMoveOn, HistoryIsProper, Ranks, Filed, Created
<1>6. QED BY <1>3, <1>4, <1>5 DEF RunsAt

\* A request makes as many runs as it has keys.
LEMMA RunsOfSize ==
  ASSUME NEW q \in Requests
  PROVE  IsFiniteSet(RunsOf(q)) /\ Cardinality(RunsOf(q)) = Len(Batch[q])
<1>1. Batch[q] \in Bijection(1..Len(Batch[q]), RunsOf(q))
  <2>1. Batch[q] \in [1..Len(Batch[q]) -> RunsOf(q)]
    BY BatchType, LenProperties DEF RunsOf
  <2>2. \A i, j \in 1..Len(Batch[q]) : Batch[q][i] = Batch[q][j] => i = j
    BY BatchType, Disjoint
  <2>3. \A r \in RunsOf(q) : \E i \in 1..Len(Batch[q]) : Batch[q][i] = r
    BY BatchType DEF RunsOf
  <2>4. QED BY <2>1, <2>2, <2>3 DEF Bijection, Injection, Surjection, IsInjective
<1>2. IsFiniteSet(1..Len(Batch[q])) /\ Cardinality(1..Len(Batch[q])) = Len(Batch[q])
  BY BatchType, FS_Interval
<1>3. QED BY <1>1, <1>2, FS_Bijection DEF ExistsBijection

LEMMA LaunchRanks ==
  ASSUME IInv, NEW q \in Requests, Launch(q)
  PROVE  Ranks'
<1> USE DEF IInv, Places
<1> DEFINE n == Cardinality(Created)
           rank(r) == CHOOSE i \in DOMAIN Batch[q] : Batch[q][i] = r
<1>1. \A r \in RunsOf(q) : r \in Runs /\ born[r] = 0 /\ persist[r] = "none" /\ files[r] = "none"
  BY BatchType DEF Launch, ReadyToLaunch, RunsAt, RunAt, Unlaunched, RunsOf, RunsMoveOn
<1>2. n \in Nat /\ IsFiniteSet(Created)
  BY FiniteSets DEF Created
<1>3. ASSUME NEW r \in RunsOf(q) PROVE rank(r) \in 1..Len(Batch[q]) /\ Batch[q][rank(r)] = r
  BY BatchType DEF RunsOf
<1>4. \A r \in Runs : born'[r] = IF r \in RunsOf(q) THEN n + rank(r) ELSE born[r]
  BY DEF Launch
<1> HIDE DEF n, rank
<1>5. Cardinality(Created') = n + Len(Batch[q])
  <2>1. Created' = Created \cup RunsOf(q)
    <3>1. \A r \in RunsOf(q) : born'[r] > 0
      BY <1>1, <1>2, <1>3, <1>4
    <3>2. QED BY <1>1, <1>4, <3>1 DEF Created
  <2>2. Created \cap RunsOf(q) = {}
    BY <1>1 DEF Created
  <2>3. Cardinality(Created \cap RunsOf(q)) = 0
    BY <2>2, FS_EmptySet
  <2>4. IsFiniteSet(RunsOf(q)) /\ Cardinality(RunsOf(q)) = Len(Batch[q])
    BY RunsOfSize
  <2>5. Cardinality(Created \cup RunsOf(q)) =
          Cardinality(Created) + Cardinality(RunsOf(q)) - Cardinality(Created \cap RunsOf(q))
    BY <1>2, <2>4, FS_Union
  <2>6. Cardinality(Created \cup RunsOf(q)) = n + Len(Batch[q])
    BY <1>2, <2>3, <2>4, <2>5, BatchType DEF n
  <2>7. QED BY <2>1, <2>6
<1>6. ASSUME NEW r \in Runs PROVE born'[r] <= n + Len(Batch[q])
  <2>1. CASE r \in RunsOf(q) BY <1>2, <1>3, <1>4, <2>1, BatchType
  <2>2. CASE r \notin RunsOf(q)
    <3>1. born[r] <= n /\ born[r] \in Nat BY DEF Ranks, TypeOK, n
    <3>2. QED BY <1>2, <1>4, <2>2, <3>1, BatchType
  <2>3. QED BY <2>1, <2>2
<1>7. ASSUME NEW r \in Runs, r \in active' \/ persist'[r] # "none" \/ files'[r] # "none"
      PROVE  born'[r] > 0
  <2>1. CASE r \in RunsOf(q) BY <1>2, <1>3, <1>4, <2>1
  <2>2. CASE r \notin RunsOf(q)
    BY <1>4, <1>7, <2>2 DEF Launch, diskVars, Ranks
  <2>3. QED BY <2>1, <2>2
<1>8. ASSUME NEW r \in Runs, NEW s \in Runs, born'[r] = born'[s], born'[r] > 0
      PROVE  r = s
  <2> USE <1>2, <1>4, <1>8
  <2>1. CASE r \in RunsOf(q) /\ s \in RunsOf(q)
    <3>1. rank(r) = rank(s) BY <1>3, <2>1
    <3>2. QED BY <1>3, <2>1, <3>1
  <2>2. CASE r \notin RunsOf(q) /\ s \notin RunsOf(q)
    BY <2>2 DEF Ranks
  <2>3. CASE r \in RunsOf(q) /\ s \notin RunsOf(q)
    BY <1>3, <2>3 DEF Ranks, n, TypeOK
  <2>4. CASE r \notin RunsOf(q) /\ s \in RunsOf(q)
    BY <1>3, <2>4 DEF Ranks, n, TypeOK
  <2>5. QED BY <2>1, <2>2, <2>3, <2>4
<1>9. QED BY <1>5, <1>6, <1>7, <1>8 DEF Ranks

LEMMA LaunchPlaces ==
  ASSUME IInv, NEW q \in Requests, Launch(q)
  PROVE  Places'
<1> USE DEF IInv, Places
<1>1. \A r \in RunsOf(q) : r \in Runs /\ born[r] = 0 /\ persist[r] = "none" /\ files[r] = "none"
  BY BatchType DEF Launch, ReadyToLaunch, RunsAt, RunAt, Unlaunched, RunsOf, RunsMoveOn
<1>2. /\ pc'[q] = "running" /\ cur'[q] = 1
      /\ \A p \in Requests : p # q => pc'[p] = pc[p] /\ cur'[p] = cur[p]
      /\ active' = active \cup RunsOf(q)
      /\ \A r \in Runs : r \notin RunsOf(q) => status'[r] = status[r] /\ born'[r] = born[r]
      /\ UNCHANGED <<history, persist, files, restarts>>
  BY DEF Launch, TypeOK, diskVars
<1>3. AtRuns'
  BY <1>2, BatchType DEF AtRuns, Launched
<1>4. ASSUME NEW p \in Requests, NEW i \in DOMAIN Batch[p] PROVE RunAt(p, i)'
  <2>1. CASE p = q
    <3>1. Batch[q][i] \in RunsOf(q) BY <2>1 DEF RunsOf
    <3>2. i \in Nat /\ i >= 1 BY BatchType
    <3>3. QED BY <1>2, <2>1, <3>1, <3>2 DEF RunAt, Unlaunched, Launched
  <2>2. CASE p # q
    <3>1. Batch[p][i] \in Runs /\ Batch[p][i] \notin RunsOf(q)
      BY <2>2, Disjoint, BatchType DEF RunsOf
    <3>2. RunAt(p, i) BY DEF RunsAt
    <3>3. QED BY <1>2, <2>2, <3>1, <3>2 DEF RunAt, InHistory, Filed
  <2>3. QED BY <2>1, <2>2
<1>5. RunsMoveOn'
  BY <1>1, <1>2 DEF RunsMoveOn, Filed
<1>6. HistoryIsProper'
  <2>1. ASSUME NEW i \in DOMAIN history
        PROVE  history[i] \in Runs /\ history[i] \notin RunsOf(q)
    BY <1>1, FiledType DEF Filed, RunsMoveOn
  <2>2. QED BY <1>2, <2>1 DEF HistoryIsProper
<1>7. QED BY <1>3, <1>4, <1>5, <1>6, LaunchRanks DEF RunsAt

LEMMA SettlePlaces ==
  ASSUME IInv, NEW q \in Requests, Settle(q)
  PROVE  Places'
<1> USE DEF IInv, Places
<1>1. /\ pc[q] = "running" /\ pc'[q] = "settled"
      /\ \A p \in Requests : p # q => pc'[p] = pc[p]
      /\ cur[q] \in DOMAIN Batch[q] /\ Current(q) \in Runs
      /\ status'[Current(q)] \in Finals
      /\ \A r \in Runs : r # Current(q) => status'[r] = status[r]
      /\ UNCHANGED <<cur, born, active, history, persist, files, restarts>>
  BY BatchType DEF Settle, TypeOK, AtRuns, Launched, Current, diskVars
<1>2. Current(q) \in active
  BY <1>1 DEF RunsAt, RunAt, Launched, Current
<1>3. AtRuns'
  BY <1>1 DEF AtRuns, Launched
<1>4. ASSUME NEW p \in Requests, NEW i \in DOMAIN Batch[p] PROVE RunAt(p, i)'
  <2>0. RunAt(p, i) /\ Batch[p][i] \in Runs /\ cur[p] \in Nat /\ i \in Nat
    BY SMTT(30), BatchType DEF RunsAt, TypeOK
  <2>1. CASE p = q
    BY <1>1, <2>0, <2>1 DEF RunAt, Unlaunched, Launched, InHistory, Filed, Current
  <2>2. CASE p # q
    <3>1. Batch[p][i] # Current(q) BY <1>1, <2>2, Disjoint DEF Current
    <3>2. QED BY <1>1, <2>0, <2>2, <3>1 DEF RunAt, InHistory, Filed
  <2>3. QED BY <2>1, <2>2
<1>5. RunsMoveOn'
  BY <1>1, <1>2 DEF RunsMoveOn, Filed
<1>6. HistoryIsProper'
  <2>1. \A i \in DOMAIN history : history[i] \in Runs /\ history[i] # Current(q)
    BY <1>1, <1>2, FiledType DEF Filed, RunsMoveOn
  <2>2. QED BY <1>1, <2>1 DEF HistoryIsProper
<1>7. Ranks'
  BY <1>1 DEF Ranks, Created
<1>8. QED BY <1>3, <1>4, <1>5, <1>6, <1>7 DEF RunsAt

LEMMA FilePlaces ==
  ASSUME IInv, NEW q \in Requests, File(q)
  PROVE  Places'
<1> USE DEF IInv, Places
<1> DEFINE c == Current(q)
<1>1. /\ pc[q] = "settled" /\ pc'[q] = "filed"
      /\ \A p \in Requests : p # q => pc'[p] = pc[p]
      /\ cur[q] \in DOMAIN Batch[q] /\ c \in Runs
      /\ active' = active \ {c}
      /\ persist'[c] = "queued" /\ \A r \in Runs : r # c => persist'[r] = persist[r]
      /\ UNCHANGED <<cur, status, born, files, restarts>>
  BY BatchType DEF File, TypeOK, AtRuns, Launched, Current
<1>2. c \in active /\ status[c] \in Finals /\ c \notin Filed
  BY <1>1 DEF RunsAt, RunAt, Launched, Current, RunsMoveOn
<1>3. /\ history' \in Seq(Runs)
      /\ Len(history') = IF Len(history) + 1 > MaxStoredRuns THEN MaxStoredRuns ELSE Len(history) + 1
      /\ \A i \in 1..Len(history') : history'[i] = IF i = 1 THEN c ELSE history[i - 1]
  BY <1>1, CapKeeps DEF File
<1>4. /\ Len(history) \in Nat /\ DOMAIN history = 1..Len(history)
      /\ Len(history') \in Nat /\ DOMAIN history' = 1..Len(history')
      /\ MaxStoredRuns \in Nat \ {0} /\ Len(history) <= MaxStoredRuns
  BY <1>3, FiledType, LenProperties, RunAssumption DEF HistoryIsProper
<1> HIDE DEF c
<1>5. Filed' \subseteq Filed \cup {c} /\ c \in Filed'
  <2>1. ASSUME NEW i \in DOMAIN history' PROVE history'[i] \in Filed \cup {c}
    <3>1. CASE i = 1 BY <1>3, <1>4, <3>1
    <3>2. CASE i # 1
      <4>1. i - 1 \in DOMAIN history BY <1>3, <1>4, <3>2
      <4>2. QED BY <1>3, <1>4, <3>2, <4>1 DEF Filed
    <3>3. QED BY <3>1, <3>2
  <2>2. 1 \in DOMAIN history' /\ history'[1] = c
    BY <1>3, <1>4
  <2>3. QED BY <2>1, <2>2 DEF Filed
<1>6. ASSUME NEW r \in Runs, InHistory(r) PROVE InHistory(r)'
  <2>1. CASE Len(history) = MaxStoredRuns
    BY <1>3, <1>4, <2>1 DEF InHistory
  <2>2. CASE Len(history) # MaxStoredRuns
    <3>1. PICK i \in DOMAIN history : history[i] = r
      BY <1>6, <2>2 DEF InHistory, Filed
    <3>2. Len(history') = Len(history) + 1
      <4>1. Len(history) \in Nat /\ MaxStoredRuns \in Nat /\ Len(history) <= MaxStoredRuns
        BY <1>4
      <4>2. ~(Len(history) + 1 > MaxStoredRuns)
        BY ONLY <2>2, <4>1
      <4>3. QED BY <1>3, <4>2
    <3>3. i \in 1..Len(history) /\ i + 1 \in 1..Len(history') /\ i + 1 # 1 /\ (i + 1) - 1 = i
      BY <1>4, <3>1, <3>2
    <3>4. i + 1 \in DOMAIN history' /\ history'[i + 1] = r
      BY <1>3, <1>4, <3>1, <3>3
    <3>5. QED BY <3>4 DEF InHistory, Filed
  <2>3. QED BY <2>1, <2>2
<1>7. AtRuns'
  BY <1>1 DEF AtRuns, Launched
<1>8. ASSUME NEW p \in Requests, NEW i \in DOMAIN Batch[p] PROVE RunAt(p, i)'
  <2>0. RunAt(p, i) /\ Batch[p][i] \in Runs /\ cur[p] \in Nat /\ i \in Nat
    BY SMTT(30), BatchType DEF RunsAt, TypeOK
  <2>1. CASE p = q
    <3>1. CASE i = cur[p]
      <4>1. Batch[p][i] = c BY <2>1, <3>1 DEF c, Current
      <4>2. Batch[p][i] \in Filed' BY <1>5, <4>1
      <4>3. QED BY <1>1, <1>2, <2>0, <2>1, <3>1, <4>1, <4>2
                DEF RunAt, Unlaunched, Launched, InHistory
    <3>2. CASE i # cur[p]
      <4>1. Batch[p][i] # c BY <1>1, <2>1, <3>2, Disjoint DEF c, Current
      <4>2. QED BY <1>1, <1>6, <2>0, <2>1, <3>2, <4>1 DEF RunAt, Unlaunched, Launched
    <3>3. QED BY <3>1, <3>2
  <2>2. CASE p # q
    <3>1. Batch[p][i] # c BY <1>1, <2>2, Disjoint DEF c, Current
    <3>2. QED BY <1>1, <1>6, <2>0, <2>2, <3>1 DEF RunAt
  <2>3. QED BY <2>1, <2>2
<1>9. RunsMoveOn'
  BY <1>1, <1>2, <1>5 DEF RunsMoveOn
<1>10. HistoryIsProper'
  <2>1. Len(history') <= MaxStoredRuns
    BY <1>3, <1>4
  <2>2. ASSUME NEW i \in DOMAIN history'
        PROVE  \/ i = 1 /\ history'[i] = c
               \/ i > 1 /\ i - 1 \in DOMAIN history /\ history'[i] = history[i - 1]
                    /\ history'[i] # c
    <3>1. CASE i = 1 BY <1>3, <1>4, <3>1
    <3>2. CASE i # 1
      <4>1. i > 1 /\ i - 1 \in DOMAIN history /\ history'[i] = history[i - 1]
        BY <1>3, <1>4, <3>2
      <4>2. QED BY <1>2, <4>1 DEF Filed
    <3>3. QED BY <3>1, <3>2
  <2>3. \A i \in DOMAIN history' : status'[history'[i]] \in Finals
    BY <1>1, <1>2, <2>2 DEF HistoryIsProper
  <2>4. ASSUME NEW i \in DOMAIN history', NEW j \in DOMAIN history', history'[i] = history'[j]
        PROVE  i = j
    <3>1. CASE i = 1 BY <2>2, <2>4, <3>1
    <3>2. CASE i # 1
      <4>1. i - 1 = j - 1 BY <2>2, <2>4, <3>2 DEF HistoryIsProper
      <4>2. QED BY <1>4, <4>1
    <3>3. QED BY <3>1, <3>2
  <2>5. QED BY <2>1, <2>3, <2>4 DEF HistoryIsProper
<1>11. Ranks'
  BY <1>1, <1>2 DEF Ranks, Created
<1>12. QED BY <1>7, <1>8, <1>9, <1>10, <1>11 DEF RunsAt

LEMMA ReportPlaces ==
  ASSUME IInv, NEW q \in Requests, Report(q)
  PROVE  Places'
<1> USE DEF IInv, Places
<1>1. /\ pc[q] = "filed" /\ cur[q] \in DOMAIN Batch[q]
      /\ pc'[q] = IF cur[q] < Len(Batch[q]) THEN "running" ELSE "done"
      /\ cur'[q] = cur[q] + 1
      /\ \A p \in Requests : p # q => pc'[p] = pc[p] /\ cur'[p] = cur[p]
      /\ UNCHANGED <<status, born, active, history, persist, files, restarts>>
  BY DEF Report, Advance, TypeOK, AtRuns, Launched, runVars, diskVars
<1>2. AtRuns'
  BY <1>1, BatchType DEF AtRuns, Launched
<1>3. ASSUME NEW p \in Requests, NEW i \in DOMAIN Batch[p] PROVE RunAt(p, i)'
  <2>0. RunAt(p, i) /\ cur[p] \in Nat /\ i \in 1..Len(Batch[p]) /\ Len(Batch[p]) \in Nat
    BY BatchType DEF RunsAt, TypeOK
  <2>1. CASE p = q
    BY SMTT(30), <1>1, <2>0, <2>1 DEF RunAt, Unlaunched, Launched, InHistory, Filed
  <2>2. CASE p # q
    BY <1>1, <2>0, <2>2 DEF RunAt, InHistory, Filed
  <2>3. QED BY <2>1, <2>2
<1>4. RunsMoveOn' BY <1>1 DEF RunsMoveOn, Filed
<1>5. HistoryIsProper' BY <1>1 DEF HistoryIsProper
<1>6. Ranks' BY <1>1 DEF Ranks, Created
<1>7. QED BY <1>2, <1>3, <1>4, <1>5, <1>6 DEF RunsAt

\* What a persist goroutine does to its run and to the files.
LEMMA PersistEffect ==
  ASSUME IInv, NEW r \in Runs, PersistStep(r) \/ SaveFails(r)
  PROVE  /\ UNCHANGED <<pc, cur, runVars, trackerVars, restarts>>
         /\ persist[r] \in {"queued", "writing", "saved"}
         /\ persist'[r] \in {"writing", "saved", "failed", "done"}
         /\ persist'[r] = "writing" => persist[r] = "queued"
         /\ \A s \in Runs : s # r => persist'[s] = persist[s]
         /\ \A s \in Runs : files'[s] # files[s] => files'[s] = "none" \/ s = r
<1> USE DEF IInv, TypeOK
<1>1. CASE WriteTmp(r) BY <1>1 DEF WriteTmp
<1>2. CASE Rename(r) BY <1>2 DEF Rename
<1>3. CASE Prune(r) BY <1>3 DEF Prune, PruneFiles
<1>4. CASE SaveFails(r) BY <1>4 DEF SaveFails
<1>5. QED BY <1>1, <1>2, <1>3, <1>4 DEF PersistStep

LEMMA PersistPlaces ==
  ASSUME IInv, NEW r \in Runs, PersistStep(r) \/ SaveFails(r)
  PROVE  Places'
<1> USE PersistEffect DEF IInv, Places, runVars
<1>1. AtRuns' BY DEF AtRuns
<1>2. ASSUME NEW p \in Requests, NEW i \in DOMAIN Batch[p] PROVE RunAt(p, i)'
  <2>1. RunAt(p, i) /\ Batch[p][i] \in Runs
    BY BatchType DEF RunsAt
  <2>2. QED BY <2>1 DEF RunAt, InHistory, Filed
<1>3. RunsMoveOn'
  BY DEF RunsMoveOn, Filed
<1>4. HistoryIsProper'
  BY DEF HistoryIsProper
<1>5. Ranks'
  <2>1. UNCHANGED <<born, active>> /\ Created' = Created
    BY DEF Created
  <2>2. \A s \in Runs : files'[s] # "none" => files[s] # "none" \/ s = r
    OBVIOUS
  <2>3. \A s \in Runs : persist'[s] # "none" => persist[s] # "none"
    OBVIOUS
  <2>4. persist[r] # "none"
    OBVIOUS
  <2>5. QED BY ONLY <2>1, <2>2, <2>3, <2>4, Ranks DEF Ranks
<1>6. QED BY <1>1, <1>2, <1>3, <1>4, <1>5 DEF RunsAt

\* A restart knows the outcome of the runs it loads, of no others, and loads none twice.
LEMMA RestartLoads ==
  ASSUME IInv, Restart
  PROVE  /\ Filed' \subseteq Stored
         /\ Len(history') \in 0..MaxStoredRuns
         /\ status' = [r \in Runs |-> IF r \in Filed' THEN files[r] ELSE "none"]
         /\ \A i, j \in DOMAIN history' : history'[i] = history'[j] => i = j
<1>1. PICK readable \in SUBSET Stored :
         LET loaded == Newest(readable, MaxStoredRuns) IN
         /\ status' = [r \in Runs |-> IF r \in loaded THEN files[r] ELSE "none"]
         /\ Len(history') = Cardinality(loaded)
         /\ history' \in [1..Len(history') -> loaded]
         /\ \A i, j \in DOMAIN history' : i < j => born[history'[i]] > born[history'[j]]
  BY LoadedType
<1> DEFINE W == Newest(readable, MaxStoredRuns)
<1>2. readable \in SUBSET Runs /\ IsFiniteSet(readable) /\ born \in [Runs -> Nat]
      /\ MaxStoredRuns \in Nat
  BY FiniteSets, RunAssumption DEF Stored, IInv, TypeOK
<1>3. \A r, s \in readable : born[r] = born[s] => r = s
  BY DEF IInv, Places, Ranks, Stored
<1>4. W \subseteq readable /\ IsFiniteSet(W) /\ Cardinality(W) \in 0..MaxStoredRuns
  BY <1>2, <1>3, NewestSize
<1>5. /\ Len(history') = Cardinality(W)
      /\ history' \in [1..Len(history') -> W]
      /\ \A i, j \in DOMAIN history' : i < j => born[history'[i]] > born[history'[j]]
      /\ status' = [r \in Runs |-> IF r \in W THEN files[r] ELSE "none"]
  BY <1>1
<1> HIDE DEF W
<1>6. DOMAIN history' = 1..Len(history') /\ Len(history') \in Nat
  BY <1>4, <1>5
<1>7. \A i, j \in DOMAIN history' : history'[i] = history'[j] => i = j
  <2> SUFFICES ASSUME NEW i \in DOMAIN history', NEW j \in DOMAIN history',
                      history'[i] = history'[j], i # j
               PROVE  FALSE
    OBVIOUS
  <2>1. i \in Int /\ j \in Int BY <1>6
  <2>2. history'[i] \in Runs BY <1>2, <1>4, <1>5, <1>6
  <2>3. born[history'[i]] \in Nat BY <1>2, <2>2
  <2>4. i < j \/ j < i BY <2>1
  <2>5. QED BY <1>5, <2>3, <2>4
<1>8. Filed' = W
  <2>1. history' \in Injection(1..Len(history'), W)
    BY <1>5, <1>6, <1>7 DEF Injection, IsInjective
  <2>2. Cardinality(1..Len(history')) = Cardinality(W)
    BY <1>4, <1>5, <1>6, FS_Interval
  <2>3. history' \in Surjection(1..Len(history'), W)
    BY <1>4, <2>1, <2>2, FS_Injection
  <2>4. QED BY <1>5, <1>6, <2>3 DEF Surjection, Filed
<1>9. QED
  BY <1>1, <1>4, <1>5, <1>7, <1>8

LEMMA RestartPlaces ==
  ASSUME IInv, Restart
  PROVE  Places'
<1> USE DEF IInv, Places
<1>1. /\ \A q \in Requests : pc'[q] \in Unlaunched \cup {"done"} => pc'[q] = pc[q]
      /\ \A q \in Requests : pc'[q] \notin Launched /\ pc'[q] # "registered"
      /\ active' = {} /\ restarts' > 0
      /\ \A r \in Runs : persist[r] = "none" <=> persist'[r] = "none"
      /\ \A r \in Runs : persist'[r] \notin {"queued", "writing"}
      /\ UNCHANGED <<born, files>>
  BY DEF Restart, TypeOK, RequestStates, Underway, Unlaunched, Launched
<1>2. /\ Filed' \subseteq Stored /\ Stored \subseteq Runs
      /\ \A r \in Runs : status'[r] = IF r \in Filed' THEN files[r] ELSE "none"
  BY RestartLoads DEF Stored
<1>3. AtRuns'
  BY <1>1 DEF AtRuns
<1>4. ASSUME NEW q \in Requests, NEW i \in DOMAIN Batch[q] PROVE RunAt(q, i)'
  <2>1. RunAt(q, i) /\ Batch[q][i] \in Runs
    BY BatchType DEF RunsAt
  <2>2. CASE pc'[q] \in Unlaunched
    <3>1. status'[Batch[q][i]] = "none"
      BY <1>1, <1>2, <2>1, <2>2 DEF RunAt, RunsMoveOn, Unlaunched
    <3>2. QED BY <1>1, <2>1, <2>2, <3>1 DEF RunAt, RunsMoveOn, Unlaunched, Launched
  <2>3. CASE pc'[q] = "done"
    BY <1>1, <1>2, <2>1, <2>3 DEF RunAt, InHistory, Unlaunched, Launched
  <2>4. CASE pc'[q] \notin Unlaunched \cup {"done"}
    BY <1>1, <2>4 DEF RunAt
  <2>5. QED BY <2>2, <2>3, <2>4
<1>5. RunsMoveOn'
  BY <1>1, <1>2 DEF RunsMoveOn, Stored
<1>6. HistoryIsProper'
  <2>1. \A i \in DOMAIN history' : history'[i] \in Filed' /\ history'[i] \in Stored
    BY <1>2 DEF Filed
  <2>2. \A i \in DOMAIN history' : status'[history'[i]] \in Finals
    BY <1>2, <2>1 DEF Stored, TypeOK
  <2>3. QED BY <2>2, RestartLoads, RunAssumption DEF HistoryIsProper
<1>7. Ranks'
  BY <1>1 DEF Ranks, Created
<1>8. QED BY <1>3, <1>4, <1>5, <1>6, <1>7 DEF RunsAt

LEMMA SameVars ==
  ASSUME IInv, UNCHANGED vars
  PROVE  IInv'
<1> USE DEF vars, runVars, trackerVars, diskVars
<1>1. TypeOK' BY DEF IInv, TypeOK
<1>2. AtRuns' /\ RunsAt'
  BY DEF IInv, Places, AtRuns, RunsAt, RunAt, InHistory, Filed
<1>3. RunsMoveOn' BY DEF IInv, Places, RunsMoveOn, Filed
<1>4. HistoryIsProper' BY DEF IInv, Places, HistoryIsProper
<1>5. Ranks' BY DEF IInv, Places, Ranks, Created
<1>6. QED BY <1>1, <1>2, <1>3, <1>4, <1>5 DEF IInv, Places

LEMMA NextInv == IInv /\ [Next]_vars => IInv'
<1> SUFFICES ASSUME IInv, [Next]_vars PROVE IInv'
  OBVIOUS
<1> USE DEF IInv
<1>1. ASSUME NEW q \in Requests, Register(q) PROVE IInv'
  BY <1>1, RegisterType, BeforePlaces
<1>2. ASSUME NEW q \in Requests, Reject(q) PROVE IInv'
  BY <1>2, RejectType, BeforePlaces
<1>3. ASSUME NEW q \in Requests, Launch(q) PROVE IInv'
  BY <1>3, LaunchType, LaunchPlaces
<1>4. ASSUME NEW q \in Requests, Settle(q) PROVE IInv'
  BY <1>4, SettleType, SettlePlaces
<1>5. ASSUME NEW q \in Requests, File(q) PROVE IInv'
  BY <1>5, FileType, FilePlaces
<1>6. ASSUME NEW q \in Requests, Report(q) PROVE IInv'
  BY <1>6, ReportType, ReportPlaces
<1>7. ASSUME NEW r \in Runs, PersistStep(r) \/ SaveFails(r) PROVE IInv'
  BY <1>7, PersistType, PersistPlaces
<1>8. CASE Restart
  BY <1>8, RestartType, RestartPlaces
<1>9. CASE UNCHANGED vars
  BY <1>9, SameVars
<1>10. QED
  BY <1>1, <1>2, <1>3, <1>4, <1>5, <1>6, <1>7, <1>8, <1>9 DEF Next, RequestStep

LEMMA Always == Spec => []IInv
<1>1. Init => IInv
  BY InitType, InitPlaces DEF IInv
<1>2. QED BY <1>1, NextInv, PTL DEF Spec

\* The model is type correct for any number of requests, runs and restarts.
THEOREM TypeCorrect == Spec => []TypeOK
<1>1. IInv => TypeOK BY DEF IInv
<1>2. QED BY <1>1, Always, PTL

\* GetRun and GetHistory never miss a run, whatever the size of the history.
THEOREM RunsAreAlwaysFound == Spec => []NoRunInBetween
<1>1. IInv => NoRunInBetween
  <2> SUFFICES ASSUME IInv PROVE NoRunInBetween
    OBVIOUS
  <2> USE DEF IInv, Places
  <2>1. ASSUME NEW q \in Requests, pc[q] \in {"running", "settled", "filed", "done"},
               NEW i \in DOMAIN Batch[q]
        PROVE  LET r == Batch[q][i] IN
               \/ status[r] = "none" /\ restarts > 0
               \/ r \in active /\ r \notin Filed
               \/ r \notin active /\ (r \in Filed \/ Len(history) = MaxStoredRuns)
    <3>1. RunAt(q, i) /\ Batch[q][i] \in Runs /\ i \in Nat /\ cur[q] \in Nat
      BY BatchType DEF RunsAt, TypeOK
    <3>2. Batch[q][i] \in active => Batch[q][i] \notin Filed
      BY <3>1 DEF RunsMoveOn
    <3>3. QED BY <2>1, <3>1, <3>2 DEF RunAt, Launched, InHistory
  <2>2. QED BY <2>1 DEF NoRunInBetween, HistoryIsProper
<1>2. QED BY <1>1, Always, PTL

-----------------------------------------------------------------------------
(* The group tracker and its reports.                                      *)

Expected(p) ==
  pending[p] = IF p \notin Grouped \/ pc[p] \notin Underway THEN 0
               ELSE IF pc[p] = "registered" THEN Len(Batch[p])
               ELSE Len(Batch[p]) + 1 - cur[p]

LEMMA TrackerFollows == IInv /\ TrackerFollowsBatch /\ [Next]_vars => TrackerFollowsBatch'
<1> SUFFICES ASSUME IInv, TrackerFollowsBatch, [Next]_vars, NEW p \in Requests
             PROVE  Expected(p)'
  BY DEF TrackerFollowsBatch, Expected
<1>0. /\ Expected(p)
      /\ Len(Batch[p]) \in Nat /\ TypeOK /\ AtRuns
  BY BatchType DEF TrackerFollowsBatch, Expected, IInv, Places
<1> USE <1>0 DEF Expected, TypeOK, Underway, runVars, trackerVars
<1>1. ASSUME NEW q \in Requests, Register(q) \/ Reject(q) PROVE  Expected(p)'
  BY <1>1 DEF Register, Reject
<1>2. ASSUME NEW q \in Requests, Launch(q) PROVE  Expected(p)'
  BY <1>2 DEF Launch, ReadyToLaunch
<1>3. ASSUME NEW q \in Requests, Settle(q) \/ File(q) PROVE  Expected(p)'
  BY <1>3 DEF Settle, File
<1>4. ASSUME NEW q \in Requests, Report(q) PROVE  Expected(p)'
  <2>1. CASE p # q
    BY <1>4, <2>1 DEF Report, Advance, FinishInGroup, AlertAlone
  <2>2. CASE p = q
    <3>1. cur[p] \in 1..Len(Batch[p]) /\ pc[p] = "filed"
      BY <1>4, <2>2, BatchType DEF Report, AtRuns, Launched
    <3>2. CASE p \in Grouped
      <4>1. pending'[p] = Len(Batch[p]) + 1 - cur[p] - 1
        BY SMTT(30), <1>4, <2>2, <3>1, <3>2 DEF Report, FinishInGroup, AlertAlone
      <4>2. pc'[p] = (IF cur[p] < Len(Batch[p]) THEN "running" ELSE "done") /\ cur'[p] = cur[p] + 1
        BY <1>4, <2>2 DEF Report, Advance
      <4>3. QED BY SMTT(30), <3>1, <3>2, <4>1, <4>2
    <3>3. CASE p \notin Grouped
      BY <1>4, <2>2, <3>3 DEF Report, FinishInGroup, AlertAlone
    <3>4. QED BY <3>2, <3>3
  <2>3. QED BY <2>1, <2>2
<1>5. ASSUME NEW r \in Runs, PersistStep(r) \/ SaveFails(r)
      PROVE  UNCHANGED <<pending, pc, cur>>
  BY <1>5, PersistEffect
<1>6. CASE Restart
  BY <1>6 DEF Restart
<1>7. CASE UNCHANGED vars
  BY <1>7 DEF vars
<1>8. QED
  BY <1>1, <1>2, <1>3, <1>4, <1>5, <1>6, <1>7 DEF Next, RequestStep

\* However large a batch is, the tracker expects exactly the runs still to come.
THEOREM TrackerIsExact == Spec => []TrackerFollowsBatch
<1>1. Init => TrackerFollowsBatch
  BY DEF Init, TrackerFollowsBatch, Underway
<1>2. QED BY <1>1, Always, TrackerFollows, PTL DEF Spec

-----------------------------------------------------------------------------
(* The files.                                                              *)

OneWriter == \A r, s \in Runs : persist[r] = "writing" /\ persist[s] = "writing" => r = s
Writing == OneWriter /\ WriterKeepsItsTmp

LEMMA WritingKept == IInv /\ Writing /\ [Next]_vars => Writing'
<1> SUFFICES ASSUME IInv, Writing, [Next]_vars PROVE Writing'
  OBVIOUS
<1> USE DEF IInv, TypeOK, Writing, OneWriter, WriterKeepsItsTmp, diskVars
<1>1. ASSUME NEW q \in Requests, Register(q) \/ Reject(q) \/ Launch(q) \/ Settle(q) \/ Report(q)
      PROVE  Writing'
  BY <1>1 DEF Register, Reject, Launch, Settle, Report
<1>2. ASSUME NEW q \in Requests, File(q) PROVE Writing'
  BY <1>2 DEF File
<1>3. ASSUME NEW r \in Runs, WriteTmp(r) PROVE Writing'
  BY <1>3 DEF WriteTmp, NobodyWrites
<1>4. ASSUME NEW r \in Runs, Rename(r) PROVE Writing'
  BY <1>4 DEF Rename
<1>5. ASSUME NEW r \in Runs, Prune(r) PROVE Writing'
  BY <1>5 DEF Prune, NobodyWrites
<1>6. ASSUME NEW r \in Runs, SaveFails(r) PROVE Writing'
  BY <1>6 DEF SaveFails, NobodyWrites
<1>7. CASE Restart
  BY <1>7 DEF Restart
<1>8. CASE UNCHANGED vars
  BY <1>8 DEF vars
<1>9. QED
  BY <1>1, <1>2, <1>3, <1>4, <1>5, <1>6, <1>7, <1>8 DEF Next, RequestStep, PersistStep

\* "Save itself cannot run concurrently" with a Prune, for any number of goroutines.
THEOREM TmpIsKept == Spec => []WriterKeepsItsTmp
<1>1. Init => Writing
  BY DEF Init, Writing, OneWriter, WriterKeepsItsTmp
<1>2. Writing => WriterKeepsItsTmp
  BY DEF Writing
<1>3. QED BY <1>1, <1>2, Always, WritingKept, PTL DEF Spec

LEMMA StoredFinite ==
  ASSUME NEW v
  PROVE  /\ Stored \in SUBSET Runs /\ IsFiniteSet(Stored) /\ Cardinality(Stored) \in Nat
         /\ IsFiniteSet(Above(Stored, v)) /\ Cardinality(Above(Stored, v)) \in Nat
  BY FiniteSets, AboveIsFinite DEF Stored

Endured(s) == Cardinality({t \in Stored : born[t] > born[s]}) >= MaxStoredRuns

\* Adding to the stored runs takes nothing away above a number.
LEMMA MoreAbove ==
  ASSUME NEW S \in SUBSET Runs, NEW T \in SUBSET S, NEW v
  PROVE  Cardinality(Above(T, v)) <= Cardinality(Above(S, v))
  BY FiniteSets, FS_Subset DEF Above

\* A prune takes files away, none of which is among the newest it could read; one that
\* met no error leaves no more than the cap.
LEMMA PruneEffect ==
  ASSUME IInv, NEW r \in Runs, Prune(r)
  PROVE  \E readable \in SUBSET Stored :
           \E gone \in SUBSET (readable \ Newest(readable, MaxStoredRuns)) :
             /\ Stored' = Stored \ gone
             /\ unpruned' = unpruned \/ (unpruned' = {} /\ Stored' = Newest(Stored, MaxStoredRuns))
<1>1. PICK readable \in SUBSET Stored :
         PruneFiles(readable, readable \ Newest(readable, MaxStoredRuns))
  BY DEF Prune
<1>2. PICK gone \in SUBSET (readable \ Newest(readable, MaxStoredRuns)) :
         /\ files' = [s \in Runs |-> IF s \in gone THEN "none" ELSE files[s]]
         /\ unpruned' = IF readable = Stored /\ gone = readable \ Newest(readable, MaxStoredRuns)
                        THEN {} ELSE unpruned
  BY <1>1 DEF PruneFiles
<1>3. Stored' = Stored \ gone
  BY <1>2 DEF IInv, TypeOK, Stored
<1>4. unpruned' = unpruned \/ (unpruned' = {} /\ Stored' = Newest(Stored, MaxStoredRuns))
  BY <1>2, <1>3 DEF Newest
<1>5. QED BY <1>2, <1>3, <1>4

LEMMA EnduresKept == IInv /\ SavedRunsEndure /\ [Next]_vars => SavedRunsEndure'
<1> SUFFICES ASSUME IInv, SavedRunsEndure, [Next]_vars, NEW s \in Runs,
                    persist'[s] \in {"saved", "done"}, s \notin Stored'
             PROVE  Endured(s)'
  BY DEF SavedRunsEndure, Endured
<1> USE DEF Endured
<1>0. /\ TypeOK /\ Places /\ MaxStoredRuns \in Nat /\ born[s] \in Nat /\ born \in [Runs -> Nat]
      /\ \A v : Stored \in SUBSET Runs /\ IsFiniteSet(Stored)
                /\ Cardinality(Above(Stored, v)) \in Nat
  BY StoredFinite, RunAssumption DEF IInv, TypeOK
<1>1. ASSUME UNCHANGED files, persist'[s] = persist[s], UNCHANGED born
      PROVE  Endured(s)'
  BY <1>1 DEF SavedRunsEndure, Stored
<1>2. ASSUME NEW q \in Requests, Register(q) \/ Reject(q) \/ Settle(q) \/ Report(q)
      PROVE  Endured(s)'
  BY <1>1, <1>2 DEF Register, Reject, Settle, Report, runVars, diskVars
<1>3. ASSUME NEW q \in Requests, Launch(q)
      PROVE  Endured(s)'
  <2>1. \A r \in RunsOf(q) : r \in Runs /\ persist[r] = "none" /\ files[r] = "none"
    BY <1>0, <1>3, BatchType
    DEF Places, Launch, ReadyToLaunch, RunsAt, RunAt, Unlaunched, RunsOf, RunsMoveOn
  <2>2. UNCHANGED <<persist, files>>
    BY <1>3 DEF Launch, diskVars
  <2>3. \A r \in Runs : persist[r] # "none" \/ files[r] # "none" => born'[r] = born[r]
    BY <1>3, <2>1 DEF Launch
  <2>4. Stored' = Stored BY <2>2 DEF Stored
  <2>5. born'[s] = born[s] /\ \A t \in Stored : born'[t] = born[t]
    BY <2>2, <2>3 DEF Stored
  <2>6. {t \in Stored' : born'[t] > born'[s]} = {t \in Stored : born[t] > born[s]}
    BY <2>4, <2>5
  <2>7. QED BY <2>2, <2>4, <2>6 DEF SavedRunsEndure
<1>4. ASSUME NEW q \in Requests, File(q)
      PROVE  Endured(s)'
  <2>1. persist'[s] = persist[s] /\ UNCHANGED <<files, born>>
    BY <1>0, <1>4 DEF File, TypeOK
  <2>2. QED BY <1>1, <2>1
<1>5. ASSUME NEW r \in Runs, WriteTmp(r) \/ SaveFails(r)
      PROVE  Endured(s)'
  <2>1. persist'[s] = persist[s] /\ UNCHANGED <<files, born>>
    BY <1>0, <1>5 DEF WriteTmp, SaveFails, TypeOK, runVars
  <2>2. QED BY <1>1, <2>1
<1>6. ASSUME NEW r \in Runs, Rename(r)
      PROVE  Endured(s)'
  <2>1. status[r] \in Finals
    BY <1>0, <1>6 DEF Rename, Places, RunsMoveOn
  <2>2. Stored' = Stored \cup {r} /\ UNCHANGED born
    BY <1>0, <1>6, <2>1 DEF Rename, Stored, TypeOK, Finals, runVars
  <2>3. s # r /\ persist[s] \in {"saved", "done"} /\ s \notin Stored
    BY <1>0, <1>6, <2>2 DEF Rename, TypeOK
  <2>4. Cardinality(Above(Stored, born[s])) >= MaxStoredRuns
    BY <2>3 DEF SavedRunsEndure, Above
  <2>5. Stored' \in SUBSET Runs /\ Stored \in SUBSET Stored'
    BY <1>0, <2>2
  <2>6. Cardinality(Above(Stored, born[s])) <= Cardinality(Above(Stored', born[s]))
    BY <2>5, MoreAbove
  <2>7. Cardinality(Above(Stored', born[s])) \in Nat
    BY <2>5, FiniteSets DEF Above
  <2>8. {t \in Stored' : born'[t] > born'[s]} = Above(Stored', born[s])
    BY <2>2 DEF Above
  <2>9. QED BY <1>0, <2>4, <2>6, <2>7, <2>8
<1>7. ASSUME NEW r \in Runs, Prune(r)
      PROVE  Endured(s)'
  <2>1. PICK readable \in SUBSET Stored :
           \E gone \in SUBSET (readable \ Newest(readable, MaxStoredRuns)) : Stored' = Stored \ gone
    BY <1>0, <1>7, PruneEffect DEF IInv
  <2>2. PICK gone \in SUBSET (readable \ Newest(readable, MaxStoredRuns)) : Stored' = Stored \ gone
    BY <2>1
  <2>3. persist[s] \in {"saved", "done"} /\ UNCHANGED born /\ Stored' \in SUBSET Runs
    BY <1>0, <1>7, <2>2 DEF Prune, TypeOK, runVars
  <2>4. /\ readable \in SUBSET Runs /\ IsFiniteSet(readable)
        /\ \A v : Cardinality(Above(readable, v)) \in Nat /\ Cardinality(Above(Stored', v)) \in Nat
    BY <1>0, <2>3, FiniteSets, FS_Subset, AboveIsFinite
  <2>5. Newest(readable, MaxStoredRuns) \in SUBSET Stored'
    BY <2>2 DEF Newest
  <2>6. ASSUME NEW g \in gone, born[g] >= born[s]
        PROVE  Cardinality(Above(Stored', born[s])) >= MaxStoredRuns
    <3>1. ~(Cardinality(Above(readable, born[g])) < MaxStoredRuns) /\ g \in readable
      BY <2>2 DEF Newest, Above
    <3>2. born[g] \in Nat BY <1>0, <2>4, <3>1
    <3>3. Above(readable, born[g]) \subseteq Above(readable, born[s])
      BY <1>0, <2>4, <2>6, <3>2 DEF Above
    <3>4. Cardinality(Above(readable, born[g])) <= Cardinality(Above(readable, born[s]))
      BY <2>4, <3>3, FS_Subset, AboveIsFinite
    <3>5. Cardinality(Above(readable, born[s])) >= MaxStoredRuns
      BY <1>0, <2>4, <3>1, <3>4
    <3>6. Cardinality(Above(Newest(readable, MaxStoredRuns), born[s])) >= MaxStoredRuns
      BY <1>0, <2>4, <3>5, NewestAbove
    <3>7. Cardinality(Above(Newest(readable, MaxStoredRuns), born[s]))
            <= Cardinality(Above(Stored', born[s]))
      BY <2>3, <2>5, MoreAbove
    <3>8. Cardinality(Above(Newest(readable, MaxStoredRuns), born[s])) \in Nat
      BY <2>3, <2>5, FiniteSets, FS_Subset, AboveIsFinite
    <3>9. QED BY <1>0, <2>4, <3>6, <3>7, <3>8
  <2>7. ASSUME \A g \in gone : ~(born[g] >= born[s])
        PROVE  Cardinality(Above(Stored', born[s])) >= MaxStoredRuns
    <3>1. s \notin Stored
      BY <1>0, <2>2, <2>7
    <3>2. Cardinality(Above(Stored, born[s])) >= MaxStoredRuns
      BY <2>3, <3>1 DEF SavedRunsEndure, Above
    <3>3. Above(Stored', born[s]) = Above(Stored, born[s])
      BY <1>0, <2>2, <2>4, <2>7 DEF Above
    <3>4. QED BY <3>2, <3>3
  <2>8. {t \in Stored' : born'[t] > born'[s]} = Above(Stored', born[s])
    BY <2>3 DEF Above
  <2>9. QED BY <2>6, <2>7, <2>8
<1>8. CASE Restart
  <2>1. persist[s] = persist'[s] /\ UNCHANGED <<files, born>>
    BY <1>0, <1>8 DEF Restart, TypeOK
  <2>2. QED BY <1>1, <2>1
<1>9. CASE UNCHANGED vars
  BY <1>1, <1>9 DEF vars, runVars, diskVars
<1>10. QED
  BY <1>2, <1>3, <1>4, <1>5, <1>6, <1>7, <1>8, <1>9 DEF Next, RequestStep, PersistStep

\* For every size of the store and any number of goroutines and restarts a saved run
\* gives way to later ones only.
THEOREM SavedRunsStay == Spec => []SavedRunsEndure
<1>1. Init => SavedRunsEndure
  BY DEF Init, SavedRunsEndure
<1>2. QED BY <1>1, Always, EnduresKept, PTL DEF Spec

\* The cap holds, and a run that has yet to be saved makes room for itself.
Capped ==
  /\ DiskStaysCapped
  /\ \A r \in unpruned : persist[r] \in {"saved", "done", "killed"}

LEMMA CappedKept == IInv /\ Capped /\ [Next]_vars => Capped'
<1> SUFFICES ASSUME IInv, Capped, [Next]_vars
             PROVE  Capped'
  OBVIOUS
<1>0. /\ TypeOK /\ Places /\ MaxStoredRuns \in Nat
      /\ Stored \in SUBSET Runs /\ IsFiniteSet(Stored) /\ Cardinality(Stored) \in Nat
      /\ IsFiniteSet(unpruned) /\ Cardinality(unpruned) \in Nat
  BY FiniteSets, RunAssumption DEF IInv, Stored, TypeOK
<1>1. ASSUME UNCHANGED <<files, unpruned>>,
             \A r \in unpruned : persist'[r] \in {"saved", "done", "killed"}
      PROVE  Capped'
  BY <1>1 DEF DiskStaysCapped, Capped, Stored
<1>2. ASSUME NEW q \in Requests,
             Register(q) \/ Reject(q) \/ Launch(q) \/ Settle(q) \/ Report(q)
      PROVE  Capped'
  BY <1>1, <1>2 DEF Capped, Register, Reject, Launch, Settle, Report, diskVars
<1>3. ASSUME NEW q \in Requests, File(q) PROVE Capped'
  <2>1. Current(q) \in active
    BY <1>0, <1>3, BatchType DEF File, Places, AtRuns, RunsAt, RunAt, Launched, Current
  <2>2. persist[Current(q)] = "none"
    BY <1>0, <2>1 DEF Places, RunsMoveOn, TypeOK
  <2>3. Current(q) \notin unpruned
    BY <2>2 DEF Capped
  <2>4. \A r \in unpruned : persist'[r] = persist[r]
    BY <1>0, <1>3, <2>3 DEF File, TypeOK
  <2>5. UNCHANGED <<files, unpruned>> BY <1>3 DEF File
  <2>6. QED BY <1>1, <2>4, <2>5 DEF Capped
<1>4. ASSUME NEW r \in Runs, WriteTmp(r) \/ SaveFails(r) PROVE Capped'
  <2>1. persist[r] \in {"queued", "writing"} /\ UNCHANGED <<files, unpruned>>
    BY <1>4 DEF WriteTmp, SaveFails
  <2>2. r \notin unpruned BY <2>1 DEF Capped
  <2>3. \A s \in unpruned : persist'[s] = persist[s]
    BY <1>0, <1>4, <2>2 DEF WriteTmp, SaveFails, TypeOK
  <2>4. QED BY <1>1, <2>1, <2>3 DEF Capped
<1>5. ASSUME NEW r \in Runs, Rename(r) PROVE Capped'
  <2>1. unpruned' = unpruned \cup {r} /\ persist[r] = "writing" /\ r \notin unpruned
    BY <1>5 DEF Rename, Capped
  <2>2. Stored' \in SUBSET (Stored \cup {r})
    BY <1>0, <1>5 DEF Rename, Stored, TypeOK
  <2>3. Cardinality(unpruned') = Cardinality(unpruned) + 1
    BY <1>0, <2>1, FS_AddElement
  <2>4. /\ IsFiniteSet(Stored \cup {r})
        /\ Cardinality(Stored \cup {r}) \in Nat
        /\ Cardinality(Stored \cup {r}) <= Cardinality(Stored) + 1
    <3>1. /\ IsFiniteSet(Stored \cup {r})
          /\ Cardinality(Stored \cup {r}) =
               IF r \in Stored THEN Cardinality(Stored) ELSE Cardinality(Stored) + 1
      BY <1>0, FS_AddElement
    <3>2. QED BY <1>0, <3>1
  <2>5. Cardinality(Stored') <= Cardinality(Stored \cup {r}) /\ Cardinality(Stored') \in Nat
    BY <2>2, <2>4, FS_Subset, FS_CardinalityType
  <2>6. DiskStaysCapped'
    BY <1>0, <2>3, <2>4, <2>5 DEF Capped, DiskStaysCapped
  <2>7. \A s \in unpruned' : persist'[s] \in {"saved", "done", "killed"}
    BY <1>0, <1>5, <2>1 DEF Rename, Capped, TypeOK
  <2>8. QED BY <2>6, <2>7 DEF Capped
<1>6. ASSUME NEW r \in Runs, Prune(r) PROVE Capped'
  <2>1. PICK gone \in SUBSET Stored :
           /\ Stored' = Stored \ gone
           /\ unpruned' = unpruned \/ (unpruned' = {} /\ Stored' = Newest(Stored, MaxStoredRuns))
    BY <1>6, PruneEffect
  <2>2. \A s \in unpruned : persist'[s] \in {"saved", "done", "killed"}
    BY <1>0, <1>6 DEF Prune, Capped, TypeOK
  <2>3. CASE unpruned' = unpruned
    <3>1. Cardinality(Stored') <= Cardinality(Stored) /\ Cardinality(Stored') \in Nat
      BY <1>0, <2>1, FS_Subset, FS_CardinalityType
    <3>2. QED BY <1>0, <2>2, <2>3, <3>1 DEF Capped, DiskStaysCapped
  <2>4. CASE unpruned' = {} /\ Stored' = Newest(Stored, MaxStoredRuns)
    <3>1. /\ born \in [Runs -> Nat]
          /\ \A s, t \in Stored : born[s] = born[t] => s = t
      BY <1>0 DEF Places, Ranks, Stored, TypeOK
    <3>2. Cardinality(Newest(Stored, MaxStoredRuns)) \in 0..MaxStoredRuns
      BY <1>0, <3>1, NewestSize
    <3>3. Cardinality(unpruned') = 0 BY <2>4, FS_EmptySet
    <3>4. QED BY <1>0, <2>4, <3>2, <3>3 DEF Capped, DiskStaysCapped
  <2>5. QED BY <2>1, <2>3, <2>4
<1>7. CASE Restart
  <2>1. \A r \in unpruned : persist'[r] \in {"saved", "done", "killed"}
    BY <1>0, <1>7 DEF Restart, Capped, TypeOK
  <2>2. QED BY <1>1, <1>7, <2>1 DEF Restart
<1>8. CASE UNCHANGED vars
  BY <1>1, <1>8 DEF vars, diskVars, Capped
<1>9. QED
  BY <1>2, <1>3, <1>4, <1>5, <1>6, <1>7, <1>8 DEF Next, RequestStep, PersistStep

\* For any number of goroutines and restarts the directory exceeds the cap by what no
\* faultless prune has seen.
THEOREM DiskIsCapped == Spec => []DiskStaysCapped
<1>1. Init => Capped
  <2> SUFFICES ASSUME Init PROVE Capped
    OBVIOUS
  <2>1. Stored = {} /\ unpruned = {} BY DEF Init, Stored
  <2>2. Cardinality(Stored) = 0 /\ Cardinality(unpruned) = 0
    BY <2>1, FS_EmptySet
  <2>3. MaxStoredRuns \in Nat BY RunAssumption
  <2>4. QED BY <2>1, <2>2, <2>3 DEF DiskStaysCapped, Capped
<1>2. Capped => DiskStaysCapped
  BY DEF Capped
<1>3. QED BY <1>1, <1>2, Always, CappedKept, PTL DEF Spec

-----------------------------------------------------------------------------
(* Digests and alerts.                                                     *)

\* The tracker has the runs that are over, with their outcomes, until the last yields
\* the digest.
GroupReport(q) ==
  /\ pc[q] # "done" => digests[q] = <<>>
  /\ pc[q] \in {"idle", "registered"} => snaps[q] = <<>>
  /\ pc[q] \in Launched =>
       /\ Len(snaps[q]) = cur[q] - 1
       /\ \A j \in 1..(cur[q] - 1) : snaps[q][j] = <<Batch[q][j], status[Batch[q][j]]>>
  /\ pc[q] = "done" =>
       /\ Len(digests[q]) = 1 /\ Len(digests[q][1]) = Len(Batch[q])
       /\ \A j \in DOMAIN Batch[q] :
            /\ digests[q][1][j][1] = Batch[q][j]
            /\ digests[q][1][j][2] = status[Batch[q][j]] \/ restarts > 0
  /\ \A j \in DOMAIN Batch[q] : Batch[q][j] \notin alerts

\* A manual request has alerted of the runs that failed so far.
SingleReport(q) ==
  /\ pc[q] \in Launched =>
       \A j \in 1..(cur[q] - 1) : status[Batch[q][j]] = "FAILED" => Batch[q][j] \in alerts
  /\ pc[q] = "done" /\ restarts = 0 =>
       \A j \in DOMAIN Batch[q] : status[Batch[q][j]] = "FAILED" => Batch[q][j] \in alerts

Reported == \A q \in Requests : IF q \in Grouped THEN GroupReport(q) ELSE SingleReport(q)

LEMMA InitReported == Init => Reported
  BY DEF Init, Reported, GroupReport, SingleReport, Launched

ReportOf(q) == IF q \in Grouped THEN GroupReport(q) ELSE SingleReport(q)

\* A step that leaves a request, its runs and their alerts alone.
LEMMA QuietReported ==
  ASSUME IInv, Reported, NEW p \in Requests,
         pc'[p] = pc[p], cur'[p] = cur[p], snaps'[p] = snaps[p], digests'[p] = digests[p],
         restarts' = restarts,
         \A j \in DOMAIN Batch[p] :
            /\ status'[Batch[p][j]] = status[Batch[p][j]]
            /\ Batch[p][j] \in alerts' <=> Batch[p][j] \in alerts
  PROVE  ReportOf(p)'
<1>1. \A j \in 1..(cur[p] - 1) : pc[p] \in Launched => j \in DOMAIN Batch[p]
  BY BatchType DEF IInv, Places, AtRuns, TypeOK
<1>2. CASE p \in Grouped
  BY <1>1, <1>2 DEF Reported, ReportOf, GroupReport
<1>3. CASE p \notin Grouped
  BY <1>1, <1>3 DEF Reported, ReportOf, SingleReport
<1>4. QED BY <1>2, <1>3

LEMMA StepsReported ==
  ASSUME IInv, Reported, NEW q \in Requests,
         Register(q) \/ Reject(q) \/ Launch(q) \/ Settle(q) \/ File(q), NEW p \in Requests
  PROVE  ReportOf(p)'
<1> USE DEF IInv
<1>1. UNCHANGED <<snaps, digests, alerts, restarts>>
  BY DEF Register, Reject, Launch, Settle, File, trackerVars
<1>2. \A j \in DOMAIN Batch[p] : Batch[p][j] \in Runs
  BY BatchType
<1>3. CASE p # q
  <2>1. pc'[p] = pc[p] /\ cur'[p] = cur[p]
    BY <1>3 DEF Register, Reject, Launch, Settle, File, TypeOK
  <2>2. ASSUME NEW j \in DOMAIN Batch[p]
        PROVE  status'[Batch[p][j]] = status[Batch[p][j]]
    <3>1. CASE Launch(q)
      <4>1. Batch[p][j] \notin RunsOf(q) BY <1>3, Disjoint DEF RunsOf
      <4>2. QED BY <1>2, <3>1, <4>1 DEF Launch
    <3>2. CASE Settle(q)
      <4>1. Batch[p][j] # Current(q)
        BY <1>3, <3>2, Disjoint DEF Settle, Current, Places, AtRuns, Launched
      <4>2. QED BY <1>2, <3>2, <4>1 DEF Settle, TypeOK
    <3>3. CASE Register(q) \/ Reject(q) \/ File(q)
      BY <3>3 DEF Register, Reject, File, runVars
    <3>4. QED BY <3>1, <3>2, <3>3
  <2>3. QED BY <1>1, <2>1, <2>2, QuietReported
<1>4. CASE p = q
  <2>0. IF p \in Grouped THEN GroupReport(p) ELSE SingleReport(p)
    BY DEF Reported
  <2>1. CASE Register(q) \/ Reject(q)
    <3>1. /\ pc[p] \in Unlaunched /\ pc'[p] \in {"registered", "rejected"}
          /\ pc'[p] = "registered" => pc[p] = "idle"
      BY <1>4, <2>1 DEF Register, Reject, ReadyToLaunch, Unlaunched, TypeOK
    <3>2. CASE p \in Grouped
      BY <1>1, <2>0, <3>1, <3>2 DEF ReportOf, GroupReport, Unlaunched, Launched
    <3>3. CASE p \notin Grouped
      BY <3>1, <3>3 DEF ReportOf, SingleReport, Launched
    <3>4. QED BY <3>2, <3>3
  <2>2. CASE Launch(q)
    <3>1. pc[p] \in {"idle", "registered"} /\ pc'[p] = "running" /\ cur'[p] = 1
      BY <1>4, <2>2 DEF Launch, ReadyToLaunch, TypeOK
    <3>2. CASE p \in Grouped
      BY <1>1, <2>0, <3>1, <3>2, EmptySeq DEF ReportOf, GroupReport, Launched
    <3>3. CASE p \notin Grouped
      BY <3>1, <3>3 DEF ReportOf, SingleReport, Launched
    <3>4. QED BY <3>2, <3>3
  <2>3. CASE Settle(q) \/ File(q)
    <3>1. /\ pc[p] \in Launched /\ pc'[p] \in Launched /\ cur'[p] = cur[p]
          /\ cur[p] \in 1..Len(Batch[p])
      BY <1>4, <2>3, BatchType DEF Settle, File, Launched, TypeOK, Places, AtRuns
    <3>2. ASSUME NEW j \in 1..(cur[p] - 1)
          PROVE  status'[Batch[p][j]] = status[Batch[p][j]]
      <4>1. j \in DOMAIN Batch[p] /\ j # cur[p] BY <3>1, BatchType
      <4>2. Batch[p][j] # Current(p)
        BY <3>1, <4>1, BatchType, Disjoint DEF Current
      <4>3. QED BY <1>2, <1>4, <2>3, <4>1, <4>2 DEF Settle, File, TypeOK
    <3>3. CASE p \in Grouped
      BY <1>1, <2>0, <3>1, <3>2, <3>3 DEF ReportOf, GroupReport, Launched
    <3>4. CASE p \notin Grouped
      BY <1>1, <2>0, <3>1, <3>2, <3>4 DEF ReportOf, SingleReport, Launched
    <3>5. QED BY <3>3, <3>4
  <2>4. QED BY <2>1, <2>2, <2>3
<1>5. QED BY <1>3, <1>4

LEMMA ReportReported ==
  ASSUME IInv, TrackerFollowsBatch, Reported, NEW q \in Requests, Report(q), NEW p \in Requests
  PROVE  ReportOf(p)'
<1> USE DEF IInv
<1>1. UNCHANGED <<status, restarts>>
  BY DEF Report, runVars
<1>2. pc[q] = "filed" /\ cur[q] \in DOMAIN Batch[q] /\ cur[q] \in 1..Len(Batch[q])
      /\ Len(Batch[q]) \in Nat
  BY BatchType DEF Report, Places, AtRuns, Launched
<1>3. CASE p # q
  <2>1. /\ pc'[p] = pc[p] /\ cur'[p] = cur[p]
        /\ snaps'[p] = snaps[p] /\ digests'[p] = digests[p]
    BY <1>3 DEF Report, Advance, FinishInGroup, AlertAlone, TypeOK
  <2>2. ASSUME NEW j \in DOMAIN Batch[p] PROVE Batch[p][j] \in alerts' <=> Batch[p][j] \in alerts
    <3>1. Batch[p][j] # Current(q) BY <1>2, <1>3, Disjoint DEF Current
    <3>2. QED BY <3>1 DEF Report, FinishInGroup, AlertAlone
  <2>3. QED BY <1>1, <2>1, <2>2, QuietReported
<1>4. CASE p = q
  <2>0. IF q \in Grouped THEN GroupReport(q) ELSE SingleReport(q)
    BY DEF Reported
  <2>1. /\ pc'[q] = IF cur[q] < Len(Batch[q]) THEN "running" ELSE "done"
        /\ cur'[q] = cur[q] + 1
    BY DEF Report, Advance, TypeOK
  <2>2. CASE q \notin Grouped
    <3>1. alerts' = alerts \cup {r \in {Current(q)} : status[r] = "FAILED"}
      BY <2>2 DEF Report, FinishInGroup, AlertAlone
    <3>2. ASSUME NEW j \in 1..cur[q], status[Batch[q][j]] = "FAILED"
          PROVE  Batch[q][j] \in alerts'
      <4>1. CASE j = cur[q] BY <3>1, <3>2, <4>1 DEF Current
      <4>2. CASE j # cur[q]
        <5>1. j \in 1..(cur[q] - 1) BY <1>2, <4>2
        <5>2. QED BY <1>2, <2>0, <2>2, <3>1, <3>2, <5>1 DEF SingleReport, Launched
      <4>3. QED BY <4>1, <4>2
    <3>3. (cur[q] + 1) - 1 = cur[q] BY <1>2
    <3>4. pc'[q] = "done" => DOMAIN Batch[q] = 1..cur[q]
      BY <1>2, <2>1, BatchType
    <3>5. QED BY <1>1, <1>4, <2>1, <2>2, <3>2, <3>3, <3>4 DEF ReportOf, SingleReport
  <2>3. CASE q \in Grouped
    <3> DEFINE s == Append(snaps[q], Snapshot(q))
    <3>1. pending[q] = Len(Batch[q]) + 1 - cur[q] /\ alerts' = alerts
      BY <1>2, <2>3 DEF TrackerFollowsBatch, Underway, Report, FinishInGroup, AlertAlone
    <3>2. GroupReport(q) /\ digests[q] = <<>> /\ Len(snaps[q]) = cur[q] - 1
      BY <1>2, <2>0, <2>3 DEF GroupReport, Launched
    <3>3. /\ snaps[q] \in Seq(Runs \X Finals) /\ Snapshot(q) \in Runs \X Finals
          /\ Snapshot(q) = <<Batch[q][cur[q]], status[Batch[q][cur[q]]]>>
      BY <1>2, SnapshotType DEF TypeOK, Snapshot, Current
    <3>4. /\ Len(s) = cur[q] /\ s \in Seq(Runs \X Finals)
          /\ \A j \in 1..(cur[q] - 1) : s[j] = snaps[q][j]
          /\ s[cur[q]] = Snapshot(q)
      BY <1>2, <3>2, <3>3
    <3>5. \A j \in 1..cur[q] : s[j] = <<Batch[q][j], status[Batch[q][j]]>>
      <4> SUFFICES ASSUME NEW j \in 1..cur[q]
                   PROVE  s[j] = <<Batch[q][j], status[Batch[q][j]]>>
        OBVIOUS
      <4>1. CASE j = cur[q] BY <3>3, <3>4, <4>1
      <4>2. CASE j # cur[q]
        <5>1. j \in 1..(cur[q] - 1) BY <1>2, <4>2
        <5>2. snaps[q][j] = <<Batch[q][j], status[Batch[q][j]]>>
          BY <1>2, <3>2, <5>1 DEF GroupReport, Launched
        <5>3. QED BY <3>4, <5>1, <5>2
      <4>3. QED BY <4>1, <4>2
    <3>6. \A j \in DOMAIN Batch[q] : Batch[q][j] \notin alerts'
      BY <3>1, <3>2 DEF GroupReport
    <3>7. CASE cur[q] < Len(Batch[q])
      <4>1. snaps'[q] = s /\ digests'[q] = digests[q]
        BY SMTT(30), <1>2, <2>3, <3>1, <3>7 DEF Report, FinishInGroup, AlertAlone, TypeOK
      <4>2. pc'[q] = "running" /\ (cur[q] + 1) - 1 = cur[q]
        BY <1>2, <2>1, <3>7
      <4> HIDE DEF s
      <4>3. QED BY <1>1, <1>4, <2>1, <2>3, <3>2, <3>4, <3>5, <3>6, <4>1, <4>2
                DEF ReportOf, GroupReport
    <3>8. CASE ~(cur[q] < Len(Batch[q]))
      <4>1. cur[q] = Len(Batch[q]) /\ pending[q] = 1 /\ pc'[q] = "done"
        BY <1>2, <2>1, <3>1, <3>8
      <4>2. digests' = [digests EXCEPT ![q] = Append(@, s)]
        BY <2>3, <4>1 DEF Report, FinishInGroup, AlertAlone
      <4>3. Len(digests'[q]) = 1 /\ digests'[q][1] = s
        <5>1. digests'[q] = Append(digests[q], s)
          BY <4>2 DEF TypeOK
        <5>2. QED BY <3>2, <3>4, <5>1
      <4> HIDE DEF s
      <4>4. \A j \in DOMAIN Batch[q] :
              digests'[q][1][j][1] = Batch[q][j] /\ digests'[q][1][j][2] = status'[Batch[q][j]]
        BY <1>1, <3>5, <4>1, <4>3, BatchType
      <4>5. QED BY <1>1, <1>4, <2>3, <3>4, <3>6, <4>1, <4>3, <4>4
                DEF ReportOf, GroupReport, Launched
    <3>9. QED BY <3>7, <3>8
  <2>4. QED BY <2>2, <2>3
<1>5. QED BY <1>3, <1>4

LEMMA RestartReported ==
  ASSUME IInv, Reported, Restart, NEW p \in Requests
  PROVE  ReportOf(p)'
<1>1. /\ pc'[p] = "done" <=> pc[p] = "done"
      /\ pc'[p] \notin Launched \cup {"registered"}
      /\ snaps'[p] = <<>> /\ restarts' > 0 /\ UNCHANGED <<digests, alerts>>
  BY DEF IInv, TypeOK, Restart, Underway, Launched, RequestStates
<1>2. CASE p \in Grouped
  BY <1>1, <1>2 DEF Reported, ReportOf, GroupReport
<1>3. CASE p \notin Grouped
  BY <1>1, <1>3 DEF ReportOf, SingleReport
<1>4. QED BY <1>2, <1>3

LEMMA ReportedKept == IInv /\ TrackerFollowsBatch /\ Reported /\ [Next]_vars => Reported'
<1> SUFFICES ASSUME IInv, TrackerFollowsBatch, Reported, [Next]_vars, NEW p \in Requests
             PROVE  ReportOf(p)'
  BY DEF Reported, ReportOf
<1>1. ASSUME NEW r \in Runs, PersistStep(r) \/ SaveFails(r) PROVE ReportOf(p)'
  BY <1>1, PersistEffect, QuietReported DEF runVars, trackerVars
<1>2. CASE UNCHANGED vars
  BY <1>2, QuietReported DEF vars, runVars, trackerVars
<1>3. QED
  BY <1>1, <1>2, StepsReported, ReportReported, RestartReported DEF Next, RequestStep

\* A batch of any size is reported by one digest and no alert, a manual run that fails
\* by its alert, however requests overlap.
THEOREM RunsAreReportedOnce == Spec => []ReportedOnce
<1>1. IInv /\ Reported => ReportedOnce
  <2> SUFFICES ASSUME IInv, Reported, NEW q \in Requests
               PROVE  /\ q \in Grouped =>
                           /\ digests[q] # <<>> <=> pc[q] = "done"
                           /\ \A i \in DOMAIN digests[q] :
                                /\ i = 1
                                /\ Len(digests[q][i]) = Len(Batch[q])
                                /\ \A j \in DOMAIN Batch[q] :
                                     /\ digests[q][i][j][1] = Batch[q][j]
                                     /\ digests[q][i][j][2] = status[Batch[q][j]] \/ restarts > 0
                           /\ RunsOf(q) \cap alerts = {}
                      /\ q \notin Grouped /\ pc[q] = "done" /\ restarts = 0 =>
                           {r \in RunsOf(q) : status[r] = "FAILED"} \subseteq alerts
    BY DEF ReportedOnce
  <2>1. CASE q \in Grouped
    <3>1. GroupReport(q) BY <2>1 DEF Reported
    <3>2. RunsOf(q) \cap alerts = {} BY <3>1 DEF GroupReport, RunsOf
    <3>3. CASE pc[q] # "done"
      <4>1. digests[q] = <<>> /\ DOMAIN digests[q] = {} BY <3>1, <3>3 DEF GroupReport
      <4>2. QED BY <2>1, <3>2, <3>3, <4>1
    <3>4. CASE pc[q] = "done"
      <4>1. digests[q] \in Seq(Seq(Runs \X Finals)) BY DEF IInv, TypeOK
      <4>2. Len(digests[q]) = 1 BY <3>1, <3>4 DEF GroupReport
      <4>3. digests[q] # <<>> /\ DOMAIN digests[q] = 1..1
        BY <4>1, <4>2, LenProperties, EmptySeq
      <4>4. \A i \in DOMAIN digests[q] : i = 1 BY <4>3
      <4>5. QED BY <2>1, <3>1, <3>2, <3>4, <4>3, <4>4 DEF GroupReport
    <3>5. QED BY <3>3, <3>4
  <2>2. CASE q \notin Grouped
    BY <2>2 DEF Reported, SingleReport, RunsOf
  <2>3. QED BY <2>1, <2>2
<1>2. Init => TrackerFollowsBatch
  BY DEF Init, TrackerFollowsBatch, Underway
<1>3. QED
  BY <1>1, <1>2, InitReported, Always, TrackerFollows, ReportedKept, PTL DEF Spec

=============================================================================
