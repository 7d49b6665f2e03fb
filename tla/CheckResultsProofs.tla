-------------------------- MODULE CheckResultsProofs --------------------------
(***************************************************************************)
(* Safety of check results for every catalogue of suites, every set of     *)
(* custom scenarios and any number of runs.                                *)
(***************************************************************************)
EXTENDS CheckResults, FiniteSetTheorems, SequenceTheorems, TLAPS

\* A run of k in phase p that has begun the checks rn, the first of version s,
\* has left the others of s to go.
Follows(p, k, rn, rest, s) ==
  LET done == IF p = "checking" THEN Len(rn) - 1 ELSE Len(rn)
  IN /\ done + Len(rest) = Len(s)
     /\ \A i \in 1..Len(rn) : rn[i] = <<k, s[i]>>
     /\ \A j \in 1..Len(rest) : rest[j] = s[done + j]

\* Before it executes a run has begun nothing, and a custom run under way
\* follows some version of its scenario.
KeepsItsVersion ==
  \A r \in Runs :
    /\ phase[r] \in {"none", "accepted", "queued"} => ran[r] = <<>>
    /\ key[r] \in Customs /\ phase[r] \in {"between", "checking"} =>
         /\ suite[r] = key[r] /\ later[r] = <<>>
         /\ \E s \in StepLists : Follows(phase[r], key[r], ran[r], left[r], s)

IInv == TypeOK /\ ScenariosAreStored /\ KeepsItsVersion /\ RunsOneVersion

-----------------------------------------------------------------------------

LEMMA TailShifts ==
  ASSUME NEW S, NEW s \in Seq(S), s # <<>>
  PROVE  /\ Tail(s) \in Seq(S) /\ Head(s) \in S /\ Head(s) = s[1]
         /\ Len(s) \in Nat /\ Len(s) >= 1 /\ Len(Tail(s)) = Len(s) - 1
         /\ \A i \in 1..(Len(s) - 1) : Tail(s)[i] = s[i + 1]
<1>1. /\ Head(s) \in S /\ Tail(s) \in Seq(S) /\ Len(Tail(s)) = Len(s) - 1
      /\ \A i \in 1..Len(Tail(s)) : Tail(s)[i] = s[i + 1]
  BY HeadTailProperties
<1>2. Len(s) \in Nat /\ Len(s) >= 1 /\ Head(s) = s[1]
  BY LenProperties, EmptySeq
<1>3. QED
  BY <1>1, <1>2

\* The checks of all suites, as pairs of suite and position.
AllPairs == UNION {{s} \X DOMAIN ChecksOf[s] : s \in Suites}

LEMMA AllPairsFinite == IsFiniteSet(AllPairs)
<1> DEFINE Blocks == {{s} \X DOMAIN ChecksOf[s] : s \in Suites}
           Indexed == [s \in Suites |-> {s} \X DOMAIN ChecksOf[s]]
<1>1. \A T \in Blocks : IsFiniteSet(T)
  <2> SUFFICES ASSUME NEW s \in Suites PROVE IsFiniteSet({s} \X DOMAIN ChecksOf[s])
    OBVIOUS
  <2>1. DOMAIN ChecksOf[s] = 1..Len(ChecksOf[s]) /\ Len(ChecksOf[s]) \in Nat
    BY ResultsAssumption, LenProperties
  <2>2. IsFiniteSet(1..Len(ChecksOf[s]))
    BY <2>1, FS_Interval
  <2>3. IsFiniteSet({s})
    BY FS_Singleton
  <2>4. QED
    BY <2>1, <2>2, <2>3, FS_Product
<1>2. IsFiniteSet(Blocks)
  <2>1. Indexed \in Surjection(Suites, Blocks)
    BY DEF Surjection
  <2>2. IsFiniteSet(Suites)
    BY ResultsAssumption
  <2> HIDE DEF Indexed, Blocks
  <2>3. QED
    BY <2>1, <2>2, FS_Surjection
<1>3. QED
  BY <1>1, <1>2, FS_UNION DEF AllPairs

\* The number of checks of "all", a suite or a scenario is a number.
LEMMA TotalIsNat ==
  ASSUME TypeOK, NEW k \in Keys
  PROVE  TotalChecks(k) \in Nat
<1>1. CASE k = All
  <2>1. k \notin Suites /\ k \notin Customs
    BY <1>1, ResultsAssumption
  <2>2. TotalChecks(k) = Cardinality(AllPairs)
    BY <1>1, <2>1 DEF TotalChecks, AllPairs
  <2>3. QED
    BY <2>2, AllPairsFinite, FS_CardinalityType
<1>2. CASE k \in Suites
  <2>1. ChecksOf[k] \in Seq(CheckIds) /\ k # All
    BY <1>2, ResultsAssumption
  <2> QED
    BY <1>2, <2>1, LenProperties DEF TotalChecks
<1>3. CASE k \in Customs
  <2>1. k # All /\ k \notin Suites
    BY <1>3, ResultsAssumption
  <2>2. items[k] = None \/ items[k] \in Seq(CheckIds)
    BY <1>3, ResultsAssumption DEF TypeOK, StoreTypeOK
  <2>3. items[k] # None => Len(items[k]) \in Nat
    BY <2>2, LenProperties
  <2> QED
    BY <2>1, <2>3 DEF TotalChecks
<1>4. QED
  BY <1>1, <1>2, <1>3 DEF Keys

-----------------------------------------------------------------------------
(* The store.                                                              *)

LEMMA StoreInitial == StoreInit => StoreTypeOK /\ ScenariosAreStored
BY DEF StoreInit, StoreTypeOK, ScenariosAreStored

\* Every operation of the store changes the file before or with the memory.
LEMMA StoreKeeps ==
  ASSUME StoreTypeOK, ScenariosAreStored, StoreStep
  PROVE  StoreTypeOK' /\ ScenariosAreStored'
<1>1. ASSUME NEW k \in Customs, Delete(k)
      PROVE  StoreTypeOK' /\ ScenariosAreStored'
  BY <1>1, StoreAssumption DEF Delete, StoreTypeOK, ScenariosAreStored
<1>2. ASSUME NEW k \in Customs, NEW s \in StepLists, CreateCheck(k, s)
      PROVE  StoreTypeOK' /\ ScenariosAreStored'
  BY <1>2 DEF CreateCheck, StoreTypeOK, ScenariosAreStored
<1>3. ASSUME NEW k \in Customs, NEW s \in StepLists, CreateSave(k, s)
      PROVE  StoreTypeOK' /\ ScenariosAreStored'
  BY <1>3, StoreAssumption DEF CreateSave, Save, StoreTypeOK, ScenariosAreStored
<1>4. ASSUME NEW k \in Customs, NEW s \in StepLists, Put(k, s)
      PROVE  StoreTypeOK' /\ ScenariosAreStored'
  BY <1>4, StoreAssumption DEF Put, Save, StoreTypeOK, ScenariosAreStored
<1>5. QED
  BY <1>1, <1>2, <1>3, <1>4 DEF StoreStep

-----------------------------------------------------------------------------
(* Types.                                                                  *)

LEMMA TypeInit == Init => TypeOK
<1> SUFFICES ASSUME Init PROVE TypeOK
  OBVIOUS
<1>1. StoreTypeOK
  BY StoreInitial DEF Init
<1>2. <<>> \in Seq(CheckIds) /\ <<>> \in Seq(Suites) /\ <<>> \in Seq(Keys \X CheckIds)
  BY EmptySeq
<1>3. restarts \in 0..MaxRestarts
  BY ResultsAssumption DEF Init
<1> QED
  BY <1>1, <1>2, <1>3 DEF Init, TypeOK

\* What Execute is given is typed.
LEMMA ExecuteTyped ==
  ASSUME TypeOK, NEW r \in Runs, NEW s \in Keys, NEW checks \in Seq(CheckIds), checks # <<>>,
         NEW suites \in Seq(Suites), Execute(r, s, checks, suites)
  PROVE  /\ phase' \in [Runs -> {"none", "accepted", "queued", "between", "checking",
                                 "ending", "finished", "dead"}]
         /\ suite' \in [Runs -> Keys \cup {None}]
         /\ left' \in [Runs -> Seq(CheckIds)] /\ later' \in [Runs -> Seq(Suites)]
         /\ \A q \in Runs : phase'[q] \in {"between", "checking"} =>
              suite'[q] \in Keys /\ left'[q] # <<>>
         /\ \A q \in Runs : phase'[q] # "none" => phase[q] # "none" \/ q = r
         /\ err' \in [Runs -> BOOLEAN]
BY DEF TypeOK, Execute

LEMMA TypeStep ==
  ASSUME TypeOK, ScenariosAreStored, [Next]_vars
  PROVE  TypeOK'
<1>1. ASSUME NEW r \in Runs, NEW k \in Keys, Accept(r, k)
      PROVE  TypeOK'
  BY <1>1 DEF Accept, TypeOK, StoreTypeOK, storeVars, recordVars, bodyVars
<1>2. ASSUME NEW r \in Runs, Create(r)
      PROVE  TypeOK'
  <2>1. key[r] \in Keys
    BY <1>2 DEF Create, TypeOK
  <2>2. TotalChecks(key[r]) \in Nat
    BY <2>1, TotalIsNat
  <2> QED
    BY <1>2, <2>2 DEF Create, TypeOK, StoreTypeOK, storeVars, bodyVars
<1>3. ASSUME NEW r \in Runs, Start(r)
      PROVE  TypeOK'
  <2> USE DEF storeVars, recordVars
  <2>1. CASE key[r] \in Suites /\ Execute(r, key[r], ChecksOf[key[r]], <<>>)
    <3>1. key[r] \in Keys /\ ChecksOf[key[r]] \in Seq(CheckIds) \ {<<>>} /\ <<>> \in Seq(Suites)
      BY <2>1, ResultsAssumption, EmptySeq DEF Keys
    <3> QED
      BY <1>3, <2>1, <3>1, ExecuteTyped DEF Start, TypeOK, StoreTypeOK
  <2>2. CASE key[r] = All /\ Execute(r, Head(Order), ChecksOf[Head(Order)], Tail(Order))
    <3>1. Head(Order) \in Suites /\ Tail(Order) \in Seq(Suites)
      BY ResultsAssumption, TailShifts
    <3>2. Head(Order) \in Keys /\ ChecksOf[Head(Order)] \in Seq(CheckIds) \ {<<>>}
      BY <3>1, ResultsAssumption DEF Keys
    <3> QED
      BY <1>3, <2>2, <3>1, <3>2, ExecuteTyped DEF Start, TypeOK, StoreTypeOK
  <2>3. CASE key[r] \in Customs /\ items[key[r]] # None /\ Execute(r, key[r], items[key[r]], <<>>)
    <3>1. /\ key[r] \in Keys /\ items[key[r]] \in Seq(CheckIds) /\ items[key[r]] # <<>>
          /\ <<>> \in Seq(Suites)
      BY <2>3, ResultsAssumption, StoreAssumption, EmptySeq DEF Keys, TypeOK, StoreTypeOK
    <3> QED
      BY <1>3, <2>3, <3>1, ExecuteTyped DEF Start, TypeOK, StoreTypeOK
  <2>4. CASE /\ phase' = [phase EXCEPT ![r] = "ending"]
             /\ err' = [err EXCEPT ![r] = TRUE]
             /\ UNCHANGED <<suite, left, later>>
    BY <1>3, <2>4 DEF Start, TypeOK, StoreTypeOK
  <2> QED
    BY <1>3, <2>1, <2>2, <2>3, <2>4 DEF Start
<1>4. ASSUME NEW r \in Runs, CheckStart(r)
      PROVE  TypeOK'
  <2>1. /\ left[r] \in Seq(CheckIds) /\ left[r] # <<>> /\ suite[r] \in Keys
        /\ ran[r] \in Seq(Keys \X CheckIds) /\ key[r] \in Keys
    BY <1>4 DEF CheckStart, TypeOK
  <2>2. Head(left[r]) \in CheckIds
    BY <2>1, TailShifts
  <2>3. Append(ran[r], <<suite[r], Head(left[r])>>) \in Seq(Keys \X CheckIds)
    BY <2>1, <2>2, AppendProperties
  <2>4. results' \in [Runs -> [CheckIds -> {None, "RUNNING", "PASSED", "FAILED", "SKIPPED"}]]
    BY <1>4, <2>2 DEF CheckStart, Record, TypeOK
  <2>5. ran' \in [Runs -> Seq(Keys \X CheckIds)]
    BY <1>4, <2>3 DEF CheckStart, TypeOK
  <2> QED
    BY <1>4, <2>1, <2>4, <2>5 DEF CheckStart, TypeOK, StoreTypeOK, storeVars, bodyVars
<1>5. ASSUME NEW r \in Runs, CheckPassed(r)
      PROVE  TypeOK'
  <2>1. /\ left[r] \in Seq(CheckIds) /\ left[r] # <<>> /\ suite[r] \in Keys
        /\ later[r] \in Seq(Suites) /\ passed[r] \in Nat /\ key[r] \in Keys
    BY <1>5 DEF CheckPassed, TypeOK
  <2>2. Head(left[r]) \in CheckIds /\ Tail(left[r]) \in Seq(CheckIds)
    BY <2>1, TailShifts
  <2>3. /\ results' \in [Runs -> [CheckIds -> {None, "RUNNING", "PASSED", "FAILED", "SKIPPED"}]]
        /\ passed' \in [Runs -> Nat]
    BY <1>5, <2>1, <2>2 DEF CheckPassed, Record, TypeOK
  <2>4. UNCHANGED <<storeVars, key, total, failed, status, ran, edited, restarts>> /\ Proceed(r)
    BY <1>5 DEF CheckPassed
  <2>5. CASE Tail(left[r]) # <<>> /\ Execute(r, suite[r], Tail(left[r]), later[r])
    BY <2>1, <2>2, <2>3, <2>4, <2>5, ExecuteTyped DEF TypeOK, StoreTypeOK, storeVars
  <2>6. CASE /\ later[r] # <<>>
             /\ Execute(r, Head(later[r]), ChecksOf[Head(later[r])], Tail(later[r]))
    <3>1. Head(later[r]) \in Suites /\ Tail(later[r]) \in Seq(Suites)
      BY <2>1, <2>6, TailShifts
    <3>2. Head(later[r]) \in Keys /\ ChecksOf[Head(later[r])] \in Seq(CheckIds) \ {<<>>}
      BY <3>1, ResultsAssumption DEF Keys
    <3> QED
      BY <2>1, <2>3, <2>4, <2>6, <3>1, <3>2, ExecuteTyped DEF TypeOK, StoreTypeOK, storeVars
  <2>7. CASE phase' = [phase EXCEPT ![r] = "ending"] /\ UNCHANGED bodyVars
    BY <2>1, <2>3, <2>4, <2>7 DEF TypeOK, StoreTypeOK, storeVars, bodyVars
  <2> QED
    BY <2>4, <2>5, <2>6, <2>7 DEF Proceed
<1>6. ASSUME NEW r \in Runs, CheckFailed(r)
      PROVE  TypeOK'
  <2>1. left[r] \in Seq(CheckIds) /\ left[r] # <<>> /\ failed[r] \in Nat
    BY <1>6 DEF CheckFailed, TypeOK
  <2>2. Head(left[r]) \in CheckIds
    BY <2>1, TailShifts
  <2>3. /\ results' \in [Runs -> [CheckIds -> {None, "RUNNING", "PASSED", "FAILED", "SKIPPED"}]]
        /\ failed' \in [Runs -> Nat]
    BY <1>6, <2>1, <2>2 DEF CheckFailed, Record, TypeOK
  <2> QED
    BY <1>6, <2>3 DEF CheckFailed, TypeOK, StoreTypeOK, storeVars
<1>7. ASSUME NEW r \in Runs, Finish(r)
      PROVE  TypeOK'
  <2>1. Finalized(r) \in [CheckIds -> {None, "RUNNING", "PASSED", "FAILED", "SKIPPED"}]
    BY DEF Finalized, TypeOK
  <2> QED
    BY <1>7, <2>1 DEF Finish, TypeOK, StoreTypeOK, storeVars, bodyVars
<1>8. CASE Edit
  BY <1>8, StoreKeeps DEF Edit, TypeOK, recordVars, bodyVars
<1>9. CASE Restart
  BY <1>9, ResultsAssumption DEF Restart, Reload, TypeOK, StoreTypeOK, recordVars, bodyVars
<1>10. CASE UNCHANGED vars
  BY <1>10 DEF vars, storeVars, runVars, recordVars, bodyVars, TypeOK, StoreTypeOK
<1>11. QED
  BY <1>1, <1>2, <1>3, <1>4, <1>5, <1>6, <1>7, <1>8, <1>9, <1>10 DEF Next, RunStep

-----------------------------------------------------------------------------
(* Versions.                                                               *)

LEMMA FollowsAtStart ==
  ASSUME NEW k, NEW s \in Seq(CheckIds)
  PROVE  Follows("between", k, <<>>, s, s)
<1>1. Len(s) \in Nat /\ Len(<<>>) = 0
  BY LenProperties, EmptySeq
<1> QED
  BY <1>1 DEF Follows

\* Beginning the check at hand.
LEMMA FollowsBegun ==
  ASSUME NEW k \in Keys, NEW rn \in Seq(Keys \X CheckIds), NEW rest \in Seq(CheckIds), rest # <<>>,
         NEW s, Follows("between", k, rn, rest, s)
  PROVE  LET begun == Append(rn, <<k, Head(rest)>>)
         IN /\ Follows("checking", k, begun, rest, s)
            /\ Len(begun) <= Len(s) /\ \A i \in DOMAIN begun : begun[i] = <<k, s[i]>>
<1> DEFINE n == Len(rn)
           m == Len(rest)
           begun == Append(rn, <<k, Head(rest)>>)
<1>1. n \in Nat /\ m \in Nat /\ m >= 1 /\ Head(rest) = rest[1] /\ Head(rest) \in CheckIds
  BY TailShifts, LenProperties
<1>2. n + m = Len(s) /\ \A i \in 1..n : rn[i] = <<k, s[i]>>
  BY DEF Follows
<1>3. \A j \in 1..m : rest[j] = s[n + j]
  BY DEF Follows
<1>4. rest[1] = s[n + 1]
  BY <1>1, <1>3
<1>5. begun \in Seq(Keys \X CheckIds) /\ Len(begun) = n + 1
      /\ (\A i \in 1..n : begun[i] = rn[i]) /\ begun[n + 1] = <<k, Head(rest)>>
  BY <1>1, AppendProperties
<1>6. DOMAIN begun = 1..(n + 1)
  BY <1>5, LenProperties
<1>7. ASSUME NEW i \in 1..(n + 1)
      PROVE  begun[i] = <<k, s[i]>>
  <2>1. CASE i \in 1..n
    BY <1>2, <1>5, <2>1
  <2>2. CASE i = n + 1
    BY <1>1, <1>4, <1>5, <2>2
  <2> QED
    BY <1>1, <2>1, <2>2
<1>8. Len(begun) - 1 = n /\ Len(begun) <= Len(s)
  BY <1>1, <1>2, <1>5
<1> HIDE DEF n, m, begun
<1>9. Follows("checking", k, begun, rest, s)
  BY <1>2, <1>3, <1>5, <1>7, <1>8 DEF Follows, m
<1> QED
  BY <1>6, <1>7, <1>8, <1>9 DEF begun

\* Ending it.
LEMMA FollowsEnded ==
  ASSUME NEW k, NEW rn \in Seq(Keys \X CheckIds), NEW rest \in Seq(CheckIds), rest # <<>>,
         NEW s, Follows("checking", k, rn, rest, s)
  PROVE  Follows("between", k, rn, Tail(rest), s)
<1> DEFINE n == Len(rn)
           m == Len(rest)
           t == Tail(rest)
<1>1. n \in Nat /\ m \in Nat /\ m >= 1 /\ Len(t) = m - 1
      /\ \A i \in 1..(m - 1) : t[i] = rest[i + 1]
  BY TailShifts, LenProperties
<1>2. n - 1 + m = Len(s) /\ \A i \in 1..n : rn[i] = <<k, s[i]>>
  BY DEF Follows
<1>3. \A j \in 1..m : rest[j] = s[n - 1 + j]
  BY DEF Follows
<1>4. ASSUME NEW j \in 1..(m - 1)
      PROVE  t[j] = s[n + j]
  <2>1. j + 1 \in 1..m /\ n - 1 + (j + 1) = n + j
    BY <1>1
  <2>2. rest[j + 1] = s[n - 1 + (j + 1)]
    BY <1>3, <2>1
  <2> QED
    BY <1>1, <2>1, <2>2
<1>5. n + Len(t) = Len(s)
  BY <1>1, <1>2
<1> HIDE DEF m, t
<1> QED
  BY <1>1, <1>2, <1>4, <1>5 DEF Follows, t

\* A step that moves only r keeps the versions of the other runs, and that of r
\* if it is not under way afterwards or follows one.
LEMMA OthersKeep ==
  ASSUME KeepsItsVersion, NEW r \in Runs,
         \A q \in Runs \ {r} : /\ phase'[q] = phase[q] /\ suite'[q] = suite[q] /\ key'[q] = key[q]
                              /\ left'[q] = left[q] /\ later'[q] = later[q] /\ ran'[q] = ran[q],
         phase'[r] \in {"none", "accepted", "queued"} => ran'[r] = <<>>,
         key'[r] \in Customs /\ phase'[r] \in {"between", "checking"} =>
           /\ suite'[r] = key'[r] /\ later'[r] = <<>>
           /\ \E s \in StepLists : Follows(phase'[r], key'[r], ran'[r], left'[r], s)
  PROVE  KeepsItsVersion'
BY DEF KeepsItsVersion

LEMMA VersionStep ==
  ASSUME TypeOK, KeepsItsVersion, RunsOneVersion, [Next]_vars
  PROVE  KeepsItsVersion' /\ RunsOneVersion'
<1> DEFINE Goal == KeepsItsVersion' /\ RunsOneVersion'
<1>1. ASSUME NEW r \in Runs, NEW k \in Keys, Accept(r, k)
      PROVE  Goal
  <2>1. phase[r] = "none" /\ ran[r] = <<>>
    BY <1>1 DEF Accept, KeepsItsVersion
  <2>2. KeepsItsVersion'
    BY <1>1, <2>1, OthersKeep DEF Accept, TypeOK, bodyVars
  <2> QED
    BY <1>1, <2>1, <2>2 DEF Accept, TypeOK, RunsOneVersion
<1>2. ASSUME NEW r \in Runs, Create(r)
      PROVE  Goal
  <2>1. KeepsItsVersion'
    BY <1>2, OthersKeep DEF Create, TypeOK, bodyVars, KeepsItsVersion
  <2> QED
    BY <1>2, <2>1 DEF Create, RunsOneVersion
<1>3. ASSUME NEW r \in Runs, Start(r)
      PROVE  Goal
  <2>1. ran[r] = <<>> /\ Len(ran[r]) = 0 /\ ran' = ran /\ key' = key
    BY <1>3, EmptySeq DEF Start, KeepsItsVersion
  <2>2. CASE key[r] \in Customs /\ items[key[r]] # None /\ Execute(r, key[r], items[key[r]], <<>>)
    <3>1. items[key[r]] \in StepLists /\ items[key[r]] \in Seq(CheckIds)
      BY <2>2, ResultsAssumption DEF TypeOK, StoreTypeOK
    <3>2. /\ phase'[r] = "between" /\ suite'[r] = key[r] /\ later'[r] = <<>>
          /\ left'[r] = items[key[r]]
      BY <2>2 DEF Execute, TypeOK
    <3>3. Follows(phase'[r], key'[r], ran'[r], left'[r], items[key[r]])
      BY <2>1, <3>1, <3>2, FollowsAtStart
    <3>7. KeepsItsVersion'
      BY <2>1, <2>2, <3>1, <3>2, <3>3, OthersKeep DEF Execute, TypeOK
    <3> QED
      BY <2>1, <3>7 DEF RunsOneVersion
  <2>3. CASE key[r] \in Suites \cup {All}
    <3>1. key[r] \notin Customs
      BY <2>3, ResultsAssumption
    <3>2. \A q \in Runs \ {r} : /\ phase'[q] = phase[q] /\ suite'[q] = suite[q]
                               /\ left'[q] = left[q] /\ later'[q] = later[q]
      BY <1>3 DEF Start, Execute, TypeOK
    <3>3. KeepsItsVersion'
      BY <2>1, <3>1, <3>2, OthersKeep
    <3> QED
      BY <2>1, <3>3 DEF RunsOneVersion
  <2>4. CASE /\ phase' = [phase EXCEPT ![r] = "ending"]
             /\ UNCHANGED <<suite, left, later>>
    <3>1. KeepsItsVersion'
      BY <2>1, <2>4, OthersKeep DEF TypeOK
    <3> QED
      BY <2>1, <3>1 DEF RunsOneVersion
  <2> QED
    BY <1>3, <2>2, <2>3, <2>4 DEF Start
<1>4. ASSUME NEW r \in Runs, CheckStart(r)
      PROVE  Goal
  <2> DEFINE begun == Append(ran[r], <<suite[r], Head(left[r])>>)
  <2>1. /\ phase[r] = "between" /\ phase' = [phase EXCEPT ![r] = "checking"]
        /\ ran' = [ran EXCEPT ![r] = begun] /\ UNCHANGED <<key, bodyVars>>
    BY <1>4 DEF CheckStart
  <2>2. /\ left[r] \in Seq(CheckIds) /\ left[r] # <<>> /\ ran[r] \in Seq(Keys \X CheckIds)
        /\ key[r] \in Keys
    BY <2>1 DEF TypeOK
  <2>3. phase'[r] = "checking" /\ ran'[r] = begun
    BY <2>1 DEF TypeOK
  <2> HIDE DEF begun
  <2>4. ASSUME key[r] \in Customs
        PROVE  \E s \in StepLists :
                 /\ Follows("checking", key[r], begun, left[r], s)
                 /\ Len(begun) <= Len(s) /\ \A i \in DOMAIN begun : begun[i] = <<key[r], s[i]>>
    <3>1. PICK s \in StepLists :
            suite[r] = key[r] /\ Follows("between", key[r], ran[r], left[r], s)
      BY <2>1, <2>4 DEF KeepsItsVersion
    <3>2. begun = Append(ran[r], <<key[r], Head(left[r])>>)
      BY <3>1 DEF begun
    <3>3. /\ Follows("checking", key[r], begun, left[r], s)
          /\ Len(begun) <= Len(s) /\ \A i \in DOMAIN begun : begun[i] = <<key[r], s[i]>>
      BY ZenonT(30), <2>2, <3>1, <3>2, FollowsBegun
    <3> QED
      BY <3>3
  <2>5. KeepsItsVersion'
    <3>1. key[r] \in Customs => suite[r] = key[r] /\ later[r] = <<>>
      BY <2>1 DEF KeepsItsVersion
    <3> QED
      BY <2>1, <2>3, <2>4, <3>1, OthersKeep DEF bodyVars, TypeOK
  <2>6. RunsOneVersion'
    <3>1. \A q \in Runs \ {r} : ran'[q] = ran[q] /\ key'[q] = key[q]
      BY <2>1 DEF TypeOK
    <3>2. key'[r] = key[r]
      BY <2>1
    <3> QED
      BY <2>3, <2>4, <3>1, <3>2 DEF RunsOneVersion
  <2> QED
    BY <2>5, <2>6
<1>5. ASSUME NEW r \in Runs, CheckPassed(r)
      PROVE  Goal
  <2>1. /\ phase[r] = "checking" /\ Proceed(r) /\ key' = key /\ ran' = ran
    BY <1>5 DEF CheckPassed
  <2>2. left[r] \in Seq(CheckIds) /\ left[r] # <<>> /\ ran[r] \in Seq(Keys \X CheckIds)
    BY <2>1 DEF TypeOK
  <2>4. \A q \in Runs \ {r} : /\ phase'[q] = phase[q] /\ suite'[q] = suite[q]
                             /\ left'[q] = left[q] /\ later'[q] = later[q]
    BY SMTT(30), <2>1 DEF Proceed, Execute, bodyVars, TypeOK
  <2>5. phase'[r] \in {"between", "ending"}
    BY <2>1 DEF Proceed, Execute, TypeOK
  <2>6. ASSUME key[r] \in Customs, phase'[r] = "between"
        PROVE  /\ suite'[r] = key[r] /\ later'[r] = <<>>
               /\ \E s \in StepLists : Follows("between", key[r], ran[r], left'[r], s)
    <3>1. PICK s \in StepLists : /\ suite[r] = key[r] /\ later[r] = <<>>
                                 /\ Follows("checking", key[r], ran[r], left[r], s)
      BY <2>1, <2>6 DEF KeepsItsVersion
    <3>2. suite'[r] = key[r] /\ later'[r] = <<>> /\ left'[r] = Tail(left[r])
      BY <2>1, <2>6, <3>1 DEF Proceed, Execute, TypeOK
    <3> QED
      BY <2>2, <3>1, <3>2, FollowsEnded
  <2>7. KeepsItsVersion'
    BY <2>1, <2>4, <2>5, <2>6, OthersKeep
  <2> QED
    BY <2>1, <2>7 DEF RunsOneVersion
<1>6. ASSUME NEW r \in Runs, CheckFailed(r)
      PROVE  Goal
  <2>1. KeepsItsVersion'
    BY <1>6, OthersKeep DEF CheckFailed, TypeOK
  <2> QED
    BY <1>6, <2>1 DEF CheckFailed, RunsOneVersion
<1>7. ASSUME NEW r \in Runs, Finish(r)
      PROVE  Goal
  <2>1. KeepsItsVersion'
    BY <1>7, OthersKeep DEF Finish, TypeOK, bodyVars
  <2> QED
    BY <1>7, <2>1 DEF Finish, RunsOneVersion
<1>8. CASE Edit
  BY <1>8 DEF Edit, bodyVars, KeepsItsVersion, RunsOneVersion
<1>9. CASE Restart
  BY <1>9 DEF Restart, bodyVars, KeepsItsVersion, RunsOneVersion
<1>10. CASE UNCHANGED vars
  BY <1>10 DEF vars, runVars, bodyVars, KeepsItsVersion, RunsOneVersion
<1>11. QED
  BY <1>1, <1>2, <1>3, <1>4, <1>5, <1>6, <1>7, <1>8, <1>9, <1>10 DEF Next, RunStep

-----------------------------------------------------------------------------

LEMMA Inductive == Spec => []IInv
<1>1. Init => IInv
  <2> SUFFICES ASSUME Init PROVE IInv
    OBVIOUS
  <2>1. TypeOK /\ ScenariosAreStored
    BY TypeInit, StoreInitial DEF Init
  <2>2. KeepsItsVersion /\ RunsOneVersion
    BY DEF Init, KeepsItsVersion, RunsOneVersion
  <2> QED
    BY <2>1, <2>2 DEF IInv
<1>2. IInv /\ [Next]_vars => IInv'
  <2> SUFFICES ASSUME IInv, [Next]_vars PROVE IInv'
    OBVIOUS
  <2> USE DEF IInv
  <2>1. TypeOK'
    BY TypeStep
  <2>2. KeepsItsVersion' /\ RunsOneVersion'
    BY VersionStep
  <2>3. ScenariosAreStored'
    <3>1. CASE Edit
      BY <3>1, StoreKeeps DEF Edit, TypeOK
    <3>2. CASE Restart
      BY <3>2 DEF Restart, Reload, ScenariosAreStored
    <3>3. CASE UNCHANGED storeVars
      BY <3>3 DEF storeVars, ScenariosAreStored
    <3> QED
      BY <3>1, <3>2, <3>3 DEF Next, RunStep, Accept, Create, Start, CheckStart, CheckPassed,
                              CheckFailed, Finish, vars
  <2> QED
    BY <2>1, <2>2, <2>3
<1> QED
  BY <1>1, <1>2, PTL DEF Spec

\* In every reachable state each variable has its type; in particular a run
\* under way has a suite of the catalogue and a check to go (executeSuite).
THEOREM TypeCorrect == Spec => []TypeOK
<1>1. IInv => TypeOK
  BY DEF IInv
<1> QED
  BY <1>1, Inductive, PTL

\* Whatever fails and whenever the process dies, every scenario users see is
\* the one a restart reads back (Store.Save and Store.Delete).
THEOREM ScenariosStayStored == Spec => []ScenariosAreStored
<1>1. IInv => ScenariosAreStored
  BY DEF IInv
<1> QED
  BY <1>1, Inductive, PTL

\* However users edit and delete scenarios, a custom run executes the steps of
\* one saved version, from the first and in order (runUserScenario).
THEOREM RunsKeepTheirVersion == Spec => []RunsOneVersion
<1>1. IInv => RunsOneVersion
  BY DEF IInv
<1> QED
  BY <1>1, Inductive, PTL

-----------------------------------------------------------------------------
(* The verdict.                                                            *)

\* All that was begun has passed, all but the check at hand, or one check has failed.
AllPassed(r) ==
  /\ failed[r] = 0
  /\ \A i \in DOMAIN ran[r] : results[r][ran[r][i][2]] = "PASSED"
  /\ \A c \in CheckIds : results[r][c] # "FAILED"

AllButOnePassed(r) ==
  /\ failed[r] = 0
  /\ \A i \in DOMAIN ran[r] :
       ran[r][i][2] = Head(left[r]) \/ results[r][ran[r][i][2]] = "PASSED"
  /\ \A c \in CheckIds : results[r][c] # "FAILED"

OneFailed(r) ==
  failed[r] = 1 /\ \E c \in CheckIds : \A d \in CheckIds : results[r][d] = "FAILED" <=> d = c

ScenarioWasGone(r) == key[r] \in Customs /\ ran[r] = <<>> /\ edited[r] = TRUE

Verdict(r) ==
  /\ phase[r] \in {"none", "accepted", "queued"} => ran[r] = <<>>
  /\ phase[r] \in {"none", "accepted", "queued", "between"} =>
       err[r] = FALSE /\ AllPassed(r)
  /\ phase[r] = "checking" => err[r] = FALSE /\ AllButOnePassed(r)
  /\ phase[r] = "ending" =>
       IF err[r] = TRUE THEN OneFailed(r) \/ ScenarioWasGone(r) ELSE AllPassed(r)
  /\ phase[r] = "finished" =>
       /\ status[r] = "PASSED" => AllPassed(r)
       /\ status[r] = "FAILED" => OneFailed(r) \/ ScenarioWasGone(r)
  /\ phase[r] \in {"accepted", "queued"} /\ key[r] \in Customs /\ edited[r] = FALSE =>
       items[key[r]] # None

Verdicts == \A r \in Runs : Verdict(r)

\* A run that a step leaves alone keeps its verdict, also if a scenario changes that
\* is not its own or if its own is marked.
LEMMA VerdictKeeps ==
  ASSUME NEW r \in Runs, Verdict(r), edited[r] \in BOOLEAN, edited'[r] \in BOOLEAN,
         phase'[r] = phase[r] \/ phase'[r] = "dead",
         key'[r] = key[r], failed'[r] = failed[r],
         results'[r] = results[r], status'[r] = status[r], left'[r] = left[r],
         err'[r] = err[r], ran'[r] = ran[r],
         edited[r] = TRUE => edited'[r] = TRUE,
         \/ phase'[r] = "dead" \/ edited'[r] = TRUE
         \/ key[r] \in Customs => items'[key[r]] = items[key[r]] \/ phase[r] = "finished"
         \/ phase[r] \notin {"accepted", "queued"}
  PROVE  Verdict(r)'
BY DEF Verdict, AllPassed, AllButOnePassed, OneFailed, ScenarioWasGone

LEMMA ChecksTyped ==
  ASSUME TypeOK, NEW r \in Runs
  PROVE  /\ \A i \in DOMAIN ran[r] : ran[r][i][2] \in CheckIds
         /\ ran[r] \in Seq(Keys \X CheckIds)
         /\ DOMAIN ran[r] = 1..Len(ran[r]) /\ Len(ran[r]) \in Nat
         /\ left[r] # <<>> => Head(left[r]) \in CheckIds
<1>1. ran[r] \in Seq(Keys \X CheckIds) /\ left[r] \in Seq(CheckIds)
  BY DEF TypeOK
<1>2. DOMAIN ran[r] = 1..Len(ran[r]) /\ Len(ran[r]) \in Nat
  BY <1>1, LenProperties
<1>3. \A i \in DOMAIN ran[r] : ran[r][i] \in Keys \X CheckIds
  BY <1>1, <1>2, ElementOfSeq
<1>4. QED
  BY <1>1, <1>2, <1>3, HeadTailProperties

LEMMA VerdictsStep ==
  ASSUME TypeOK, Verdicts, [Next]_vars
  PROVE  Verdicts'
<1> SUFFICES ASSUME NEW q \in Runs PROVE Verdict(q)'
  BY DEF Verdicts
<1>0. /\ Verdict(q) /\ edited[q] \in BOOLEAN /\ err[q] \in BOOLEAN
      /\ results \in [Runs -> [CheckIds -> {None, "RUNNING", "PASSED", "FAILED", "SKIPPED"}]]
  BY DEF Verdicts, TypeOK
<1>1. ASSUME NEW r \in Runs, NEW k \in Keys, Accept(r, k) PROVE Verdict(q)'
  <2>1. CASE q = r
    BY <1>0, <1>1, <2>1
    DEF Accept, TypeOK, Verdict, AllPassed, recordVars, bodyVars, storeVars
  <2>2. CASE q # r
    BY <1>0, <1>1, <2>2, VerdictKeeps DEF Accept, TypeOK, recordVars, bodyVars, storeVars
  <2>3. QED BY <2>1, <2>2
<1>2. ASSUME NEW r \in Runs, Create(r) PROVE Verdict(q)'
  <2>1. CASE q = r
    BY <1>0, <1>2, <2>1
    DEF Create, TypeOK, Verdict, AllPassed, bodyVars, storeVars
  <2>2. CASE q # r
    BY <1>0, <1>2, <2>2, VerdictKeeps DEF Create, TypeOK, bodyVars, storeVars
  <2>3. QED BY <2>1, <2>2
<1>3. ASSUME NEW r \in Runs, Start(r) PROVE Verdict(q)'
  <2>1. CASE q = r
    <3>1. phase[q] = "queued" /\ UNCHANGED <<key, recordVars, ran, edited>>
      BY <1>3, <2>1 DEF Start
    <3>2. err[q] = FALSE /\ AllPassed(q) /\ ran[q] = <<>>
      BY <1>0, <3>1 DEF Verdict
    <3>3. CASE phase'[q] = "between" /\ err'[q] = err[q]
      BY <3>1, <3>2, <3>3 DEF Verdict, AllPassed, recordVars
    <3>4. CASE /\ phase'[q] = "ending" /\ err'[q] = TRUE
               /\ key[q] \in Customs /\ items[key[q]] = None
      <4>1. edited[q] = TRUE BY <1>0, <3>1, <3>4 DEF Verdict
      <4>2. QED BY <3>1, <3>2, <3>4, <4>1 DEF Verdict, ScenarioWasGone, recordVars
    <3>5. QED BY <1>3, <2>1, <3>3, <3>4 DEF Start, Execute, TypeOK
  <2>2. CASE q # r
    BY <1>0, <1>3, <2>2, VerdictKeeps DEF Start, Execute, TypeOK, recordVars, storeVars
  <2>3. QED BY <2>1, <2>2
<1>4. ASSUME NEW r \in Runs, CheckStart(r) PROVE Verdict(q)'
  <2>1. CASE q = r
    <3>1. /\ phase[q] = "between" /\ phase'[q] = "checking" /\ left[q] # <<>> /\ suite[q] \in Keys
          /\ results'[q] = [results[q] EXCEPT ![Head(left[q])] = "RUNNING"]
          /\ ran'[q] = Append(ran[q], <<suite[q], Head(left[q])>>)
          /\ UNCHANGED <<key, failed, status, left, err, edited>>
      BY <1>4, <2>1 DEF CheckStart, Record, TypeOK, bodyVars
    <3>2. err[q] = FALSE /\ AllPassed(q)
      BY <1>0, <3>1 DEF Verdict
    <3>3. ASSUME NEW i \in DOMAIN ran'[q]
          PROVE  ran'[q][i][2] = Head(left[q]) \/ results'[q][ran'[q][i][2]] = "PASSED"
      <4>1. /\ i \in 1..(Len(ran[q]) + 1) /\ Len(ran[q]) \in Nat
            /\ ran'[q][i] = IF i <= Len(ran[q]) THEN ran[q][i] ELSE <<suite[q], Head(left[q])>>
        BY <3>1, <3>3, ChecksTyped
      <4>2. CASE i <= Len(ran[q])
        BY <1>0, <3>1, <3>2, <4>1, <4>2, ChecksTyped DEF AllPassed
      <4>3. CASE ~(i <= Len(ran[q]))
        BY <4>1, <4>3
      <4>4. QED BY <4>2, <4>3
    <3>4. \A c \in CheckIds : results'[q][c] # "FAILED"
      BY <1>0, <3>1, <3>2 DEF AllPassed
    <3>5. QED BY <3>1, <3>2, <3>3, <3>4 DEF Verdict, AllPassed, AllButOnePassed
  <2>2. CASE q # r
    BY <1>0, <1>4, <2>2, VerdictKeeps DEF CheckStart, Record, TypeOK, bodyVars, storeVars
  <2>3. QED BY <2>1, <2>2
<1>5. ASSUME NEW r \in Runs, CheckPassed(r) PROVE Verdict(q)'
  <2>1. CASE q = r
    <3>1. /\ phase[q] = "checking" /\ phase'[q] \in {"between", "ending"} /\ err'[q] = err[q]
          /\ left[q] # <<>>
          /\ results'[q] = [results[q] EXCEPT ![Head(left[q])] = "PASSED"]
          /\ UNCHANGED <<key, failed, status, ran, edited>>
      BY <1>5, <2>1 DEF CheckPassed, Record, Proceed, Execute, TypeOK, bodyVars
    <3>2. err[q] = FALSE /\ AllButOnePassed(q)
      BY <1>0, <3>1 DEF Verdict
    <3>3. AllPassed(q)'
      BY <1>0, <3>1, <3>2, ChecksTyped DEF AllPassed, AllButOnePassed
    <3>4. QED BY <3>1, <3>2, <3>3 DEF Verdict
  <2>2. CASE q # r
    <3>1. Proceed(r) => phase'[q] = phase[q] /\ left'[q] = left[q] /\ err'[q] = err[q]
      <4>1. CASE Tail(left[r]) # <<>>
        BY <2>2, <4>1 DEF Proceed, Execute, TypeOK
      <4>2. CASE Tail(left[r]) = <<>> /\ later[r] # <<>>
        BY <2>2, <4>2 DEF Proceed, Execute, TypeOK
      <4>3. CASE Tail(left[r]) = <<>> /\ later[r] = <<>>
        BY <2>2, <4>3 DEF Proceed, TypeOK, bodyVars
      <4>4. QED BY <4>1, <4>2, <4>3
    <3>2. /\ results'[q] = results[q]
          /\ UNCHANGED <<items, key, failed, status, ran, edited>>
      BY <1>5, <2>2 DEF CheckPassed, Record, TypeOK, storeVars
    <3>3. phase'[q] = phase[q] /\ left'[q] = left[q] /\ err'[q] = err[q]
      BY <1>5, <3>1 DEF CheckPassed
    <3>4. QED BY <1>0, <3>2, <3>3, VerdictKeeps
  <2>3. QED BY <2>1, <2>2
<1>6. ASSUME NEW r \in Runs, CheckFailed(r) PROVE Verdict(q)'
  <2>1. CASE q = r
    <3>1. /\ phase[q] = "checking" /\ phase'[q] = "ending" /\ err'[q] = TRUE
          /\ left[q] # <<>> /\ failed'[q] = failed[q] + 1
          /\ results'[q] = [results[q] EXCEPT ![Head(left[q])] = "FAILED"]
      BY <1>6, <2>1 DEF CheckFailed, Record, TypeOK
    <3>2. AllButOnePassed(q)
      BY <1>0, <3>1 DEF Verdict
    <3>3. OneFailed(q)'
      BY <1>0, <3>1, <3>2, ChecksTyped DEF OneFailed, AllButOnePassed
    <3>4. QED BY <3>1, <3>3 DEF Verdict
  <2>2. CASE q # r
    BY <1>0, <1>6, <2>2, VerdictKeeps DEF CheckFailed, Record, TypeOK, storeVars
  <2>3. QED BY <2>1, <2>2
<1>7. ASSUME NEW r \in Runs, Finish(r) PROVE Verdict(q)'
  <2>1. CASE q = r
    <3>1. /\ phase[q] = "ending" /\ phase'[q] = "finished"
          /\ results'[q] = Finalized(q)
          /\ status'[q] = IF err[q] THEN "FAILED" ELSE "PASSED"
          /\ UNCHANGED <<key, failed, ran, edited>>
      BY <1>7, <2>1 DEF Finish, TypeOK
    <3>2. ASSUME NEW c \in CheckIds
          PROVE  /\ results'[q][c] = "FAILED" <=> results[q][c] = "FAILED"
                 /\ results[q][c] = "PASSED" => results'[q][c] = "PASSED"
      BY <3>1, ResultsAssumption DEF Finalized
    <3>3. CASE err[q] = TRUE
      <4>1. OneFailed(q) \/ ScenarioWasGone(q)
        BY <1>0, <3>1, <3>3 DEF Verdict
      <4>2. OneFailed(q) => OneFailed(q)'
        BY <3>1, <3>2 DEF OneFailed
      <4>3. ScenarioWasGone(q) => ScenarioWasGone(q)'
        BY <3>1 DEF ScenarioWasGone
      <4>4. status'[q] = "FAILED"
        BY <3>1, <3>3
      <4>5. QED BY <3>1, <4>1, <4>2, <4>3, <4>4 DEF Verdict
    <3>4. CASE err[q] = FALSE
      <4>1. AllPassed(q)
        BY <1>0, <3>1, <3>4 DEF Verdict
      <4>2. AllPassed(q)'
        BY <3>1, <3>2, <4>1, ChecksTyped DEF AllPassed
      <4>3. status'[q] = "PASSED"
        BY <3>1, <3>4
      <4>4. QED BY <3>1, <4>2, <4>3 DEF Verdict
    <3>5. QED BY <1>0, <3>3, <3>4
  <2>2. CASE q # r
    BY <1>0, <1>7, <2>2, VerdictKeeps DEF Finish, TypeOK, bodyVars, storeVars
  <2>3. QED BY <2>1, <2>2
<1>8. CASE Edit
  <2>1. /\ edited'[q] \in BOOLEAN
        /\ edited[q] = TRUE => edited'[q] = TRUE
        /\ UNCHANGED <<phase, key, recordVars, bodyVars, ran>>
    BY <1>0, <1>8 DEF Edit
  <2>2. phase[q] \in {"accepted", "queued"} /\ key[q] \in Customs /\ edited'[q] = FALSE =>
          items'[key[q]] = items[key[q]]
    BY <1>0, <1>8 DEF Edit
  <2>3. \/ edited'[q] = TRUE \/ phase[q] \notin {"accepted", "queued"}
        \/ key[q] \in Customs => items'[key[q]] = items[key[q]]
    BY <2>1, <2>2
  <2>4. /\ phase'[q] = phase[q] /\ key'[q] = key[q] /\ failed'[q] = failed[q]
        /\ results'[q] = results[q] /\ status'[q] = status[q] /\ left'[q] = left[q]
        /\ err'[q] = err[q] /\ ran'[q] = ran[q]
    BY <2>1 DEF recordVars, bodyVars
  <2>5. QED BY <1>0, <2>1, <2>3, <2>4, VerdictKeeps
<1>9. CASE Restart
  <2>1. /\ phase'[q] = "dead" \/ (phase'[q] = phase[q] /\ phase[q] \in {"none", "finished"})
        /\ UNCHANGED <<key, recordVars, bodyVars, ran, edited>>
    BY <1>9 DEF Restart, TypeOK
  <2>2. CASE phase'[q] = "dead"
    BY <2>2 DEF Verdict
  <2>3. CASE phase'[q] = phase[q] /\ phase[q] \in {"none", "finished"}
    <3>1. phase[q] \notin {"accepted", "queued"}
      BY <2>3
    <3>2. QED BY <1>0, <2>1, <2>3, <3>1, VerdictKeeps DEF recordVars, bodyVars
  <2>4. QED BY <2>1, <2>2, <2>3
<1>10. CASE UNCHANGED vars
  BY <1>0, <1>10, VerdictKeeps DEF vars, runVars, recordVars, bodyVars, storeVars
<1>11. QED
  BY <1>1, <1>2, <1>3, <1>4, <1>5, <1>6, <1>7, <1>8, <1>9, <1>10 DEF Next, RunStep

\* For every catalogue of suites, checks of one ID in several suites included, the
\* verdict of a finished run agrees with its checks (executeSuite, finalizeChecks).
THEOREM VerdictIsRight == Spec => []VerdictMatchesChecks
<1>1. Init => Verdicts
  <2> SUFFICES ASSUME Init, NEW r \in Runs PROVE Verdict(r)
    BY DEF Verdicts
  <2>1. phase[r] = "none" /\ ran[r] = <<>> /\ err[r] = FALSE /\ failed[r] = 0
    BY DEF Init
  <2>2. \A c \in CheckIds : results[r][c] # "FAILED"
    BY ResultsAssumption DEF Init
  <2>3. AllPassed(r)
    BY <2>1, <2>2 DEF AllPassed
  <2>4. QED BY <2>1, <2>3 DEF Verdict
<1>2. TypeOK /\ Verdicts => VerdictMatchesChecks
  <2> SUFFICES ASSUME TypeOK, Verdicts, NEW r \in Runs, phase[r] = "finished"
               PROVE  /\ status[r] = "PASSED" =>
                           failed[r] = 0 /\ \A i \in DOMAIN ran[r] :
                                              results[r][ran[r][i][2]] = "PASSED"
                      /\ status[r] = "FAILED" =>
                           \/ failed[r] = 1 /\ Count(r, "FAILED") = 1
                           \/ key[r] \in Customs /\ ran[r] = <<>> /\ edited[r]
    BY DEF VerdictMatchesChecks
  <2>1. /\ status[r] = "PASSED" => AllPassed(r)
        /\ status[r] = "FAILED" => OneFailed(r) \/ ScenarioWasGone(r)
    BY DEF Verdicts, Verdict
  <2>2. ASSUME OneFailed(r) PROVE failed[r] = 1 /\ Count(r, "FAILED") = 1
    <3>1. PICK c \in CheckIds : \A d \in CheckIds : results[r][d] = "FAILED" <=> d = c
      BY <2>2 DEF OneFailed
    <3>2. {d \in CheckIds : results[r][d] = "FAILED"} = {c}
      BY <3>1
    <3>3. QED BY <2>2, <3>2, FS_Singleton DEF Count, OneFailed
  <2>3. QED BY <2>1, <2>2 DEF AllPassed, ScenarioWasGone
<1>3. QED
  BY <1>1, <1>2, TypeCorrect, VerdictsStep, PTL DEF Spec

-----------------------------------------------------------------------------
(* The totals.                                                             *)

\* The checks a run of one suite or of an unedited scenario makes, in order.
Version(r) == IF key[r] \in Suites THEN ChecksOf[key[r]] ELSE items[key[r]]

\* Exactly the first n checks of v, and of them only, are recorded as passed.
PassedPrefix(r, v, n) ==
  \A c \in CheckIds : results[r][c] = "PASSED" <=> \E i \in 1..n : c = v[i]

NothingYet(r) ==
  passed[r] = 0 /\ failed[r] = 0 /\ \A c \in CheckIds : results[r][c] = None

\* Under way, the checks ended have passed and the others are to go.
Underway(r, v) ==
  /\ total[r] = Len(v) /\ later[r] = <<>> /\ failed[r] = 0
  /\ passed[r] + Len(left[r]) = Len(v)
  /\ \A j \in 1..Len(left[r]) : left[r][j] = v[passed[r] + j]
  /\ PassedPrefix(r, v, passed[r])
  /\ \A c \in CheckIds :
       \/ results[r][c] \in {None, "PASSED"}
       \/ phase[r] = "checking" /\ c = left[r][1] /\ results[r][c] = "RUNNING"

\* Before finalizeChecks, at most the check after the passed ones has failed.
AtEnd(r, v) ==
  /\ total[r] = Len(v) /\ failed[r] \in {0, 1} /\ passed[r] + failed[r] <= Len(v)
  /\ PassedPrefix(r, v, passed[r])
  /\ \A c \in CheckIds :
       /\ results[r][c] \in {None, "PASSED", "FAILED"}
       /\ results[r][c] = "FAILED" <=> failed[r] = 1 /\ c = v[passed[r] + 1]

SuiteCounted(r) ==
  /\ phase[r] = "none" => edited[r] = FALSE /\ NothingYet(r)
  /\ phase[r] # "none" /\ key[r] # All /\ edited[r] = FALSE =>
       /\ phase[r] \notin {"finished", "dead"} /\ key[r] \in Customs => items[key[r]] # None
       /\ phase[r] \in {"accepted", "queued"} => NothingYet(r)
       /\ phase[r] = "queued" => total[r] = Len(Version(r))
       /\ phase[r] \in {"between", "checking"} => Underway(r, Version(r))
       /\ phase[r] = "ending" => AtEnd(r, Version(r))
       /\ phase[r] = "finished" =>
            /\ Count(r, "PASSED") = passed[r] /\ Count(r, "FAILED") = failed[r]
            /\ passed[r] + failed[r] + Count(r, "SKIPPED") = total[r]

\* Where "all" is: the suite at hand is the one at this place of the order.
Place(r) == Len(Order) - Len(later[r])

\* The pairs of suite and position of the suites before place p, and the first
\* n of the one at p.
PairsBefore(p, n) ==
  (UNION {{Order[j]} \X DOMAIN ChecksOf[Order[j]] : j \in 1..(p - 1)}) \cup ({Order[p]} \X (1..n))

EndedHere(r) == Len(ChecksOf[Order[Place(r)]]) - Len(left[r])

AllCounted(r) ==
  key[r] = All =>
    /\ phase[r] \in {"accepted", "queued"} => passed[r] = 0
    /\ phase[r] \in {"queued", "between", "checking", "ending"} => total[r] = TotalChecks(All)
    /\ phase[r] \in {"between", "checking"} =>
         /\ Place(r) \in DOMAIN Order
         /\ \A j \in 1..Len(later[r]) : later[r][j] = Order[Place(r) + j]
         /\ Len(left[r]) <= Len(ChecksOf[Order[Place(r)]])
         /\ passed[r] = Cardinality(PairsBefore(Place(r), EndedHere(r)))
    /\ phase[r] = "ending" /\ err[r] = FALSE => passed[r] = total[r]
    /\ phase[r] = "finished" /\ status[r] = "PASSED" => passed[r] = total[r]

Counted == \A r \in Runs : SuiteCounted(r) /\ AllCounted(r)

LEMMA VersionTyped ==
  ASSUME TypeOK, NEW r \in Runs, key[r] \in Keys, key[r] # All,
         key[r] \in Customs => items[key[r]] # None
  PROVE  /\ Version(r) \in Seq(CheckIds) /\ Version(r) # <<>>
         /\ Len(Version(r)) \in Nat /\ DOMAIN Version(r) = 1..Len(Version(r))
         /\ \A i \in 1..Len(Version(r)) : Version(r)[i] \in CheckIds
         /\ \A i, j \in 1..Len(Version(r)) : Version(r)[i] = Version(r)[j] => i = j
         /\ TotalChecks(key[r]) = Len(Version(r))
         /\ ToFinalize(key[r]) = {Version(r)[i] : i \in 1..Len(Version(r))}
<1>1. CASE key[r] \in Suites
  <2>1. Version(r) = ChecksOf[key[r]] /\ Version(r) \in Seq(CheckIds) /\ Version(r) # <<>>
    BY <1>1, ResultsAssumption DEF Version
  <2>2. Len(Version(r)) \in Nat /\ DOMAIN Version(r) = 1..Len(Version(r))
    BY <2>1, LenProperties
  <2>3. \A i \in 1..Len(Version(r)) : Version(r)[i] \in CheckIds
    BY <2>1, ElementOfSeq
  <2>4. \A i, j \in 1..Len(Version(r)) : Version(r)[i] = Version(r)[j] => i = j
    BY <1>1, <2>1, <2>2, ResultsAssumption
  <2>5. TotalChecks(key[r]) = Len(Version(r)) /\ ToFinalize(key[r]) = Elements(Version(r))
    BY <1>1, <2>1 DEF TotalChecks, ToFinalize
  <2>6. QED
    BY <2>1, <2>2, <2>3, <2>4, <2>5 DEF Elements
<1>2. CASE key[r] \in Customs
  <2>1. key[r] \notin Suites
    BY <1>2, ResultsAssumption
  <2>2. Version(r) = items[key[r]] /\ Version(r) \in StepLists /\ Version(r) # None
    BY <1>2, <2>1 DEF Version, TypeOK, StoreTypeOK
  <2>3. Version(r) \in Seq(CheckIds) /\ Version(r) # <<>>
    BY <2>2, ResultsAssumption, StoreAssumption
  <2>4. Len(Version(r)) \in Nat /\ DOMAIN Version(r) = 1..Len(Version(r))
    BY <2>3, LenProperties
  <2>5. \A i \in 1..Len(Version(r)) : Version(r)[i] \in CheckIds
    BY <2>3, ElementOfSeq
  <2>6. \A i, j \in 1..Len(Version(r)) : Version(r)[i] = Version(r)[j] => i = j
    BY <2>2, <2>4, StoreAssumption
  <2>7. TotalChecks(key[r]) = Len(Version(r)) /\ ToFinalize(key[r]) = Elements(Version(r))
    BY <1>2, <2>1, <2>2 DEF TotalChecks, ToFinalize
  <2>8. QED
    BY <2>3, <2>4, <2>5, <2>6, <2>7 DEF Elements
<1>3. QED
  BY <1>1, <1>2 DEF Keys

Stretch(v, a, b) == {v[i] : i \in a..b}

\* A stretch of a list without repetition has as many elements as positions.
LEMMA StretchCount ==
  ASSUME NEW v, NEW a \in Nat, NEW b \in Nat, a <= b + 1,
         \A i, j \in a..b : v[i] = v[j] => i = j
  PROVE  Cardinality(Stretch(v, a, b)) = (b - a) + 1
<1> DEFINE I == a..b
           T == {v[i] : i \in I}
           f == [i \in I |-> v[i]]
<1>1. IsFiniteSet(I) /\ Cardinality(I) = (b - a) + 1
  <2>1. IsFiniteSet(I) /\ Cardinality(I) = IF a > b THEN 0 ELSE (b - a) + 1
    BY FS_Interval
  <2>2. a > b => (b - a) + 1 = 0
    OBVIOUS
  <2>3. QED
    BY <2>1, <2>2
<1>2. f \in [I -> T] /\ \A t \in T : \E i \in I : f[i] = t
  OBVIOUS
<1>3. \A i, j \in I : f[i] = f[j] => i = j
  OBVIOUS
<1> HIDE DEF I, T, f
<1>4. f \in Surjection(I, T)
  BY <1>2 DEF Surjection
<1>5. f \in Injection(I, T)
  BY <1>2, <1>3 DEF Injection, IsInjective
<1>6. f \in Bijection(I, T)
  BY <1>4, <1>5 DEF Bijection
<1>7. Cardinality(T) = Cardinality(I)
  BY <1>1, <1>6, FS_Bijection DEF ExistsBijection
<1>8. QED
  BY <1>1, <1>7 DEF I, T, Stretch

\* A run that a step leaves alone keeps its totals, unless its scenario changes,
\* which marks it.
LEMMA TotalsKeep ==
  ASSUME NEW r \in Runs, SuiteCounted(r), AllCounted(r),
         phase[r] # "none" => key[r] \in Keys,
         edited[r] \in BOOLEAN, edited'[r] \in BOOLEAN,
         phase'[r] = phase[r] \/ (phase'[r] = "dead" /\ phase[r] # "none"),
         key'[r] = key[r], total'[r] = total[r], passed'[r] = passed[r], failed'[r] = failed[r],
         results'[r] = results[r], status'[r] = status[r],
         left'[r] = left[r], later'[r] = later[r], err'[r] = err[r],
         edited[r] = TRUE => edited'[r] = TRUE,
         phase[r] = "none" => edited'[r] = edited[r],
         \/ edited'[r] = TRUE \/ phase'[r] \in {"none", "finished", "dead"}
         \/ key[r] \in Customs => items'[key[r]] = items[key[r]]
  PROVE  SuiteCounted(r)' /\ AllCounted(r)'
<1>1. AllCounted(r)'
  BY DEF AllCounted, Place, EndedHere, PairsBefore, TotalChecks
<1>2. SuiteCounted(r)'
  <2>1. /\ NothingYet(r)' <=> NothingYet(r)
        /\ \A x : Count(r, x)' = Count(r, x)
    BY DEF NothingYet, Count
  <2>2. CASE phase'[r] = "dead"
    BY <2>2 DEF SuiteCounted
  <2>3. CASE phase'[r] = phase[r] /\ edited'[r] = TRUE
    BY <2>3 DEF SuiteCounted
  <2>4. CASE phase'[r] = phase[r] /\ edited'[r] = FALSE
    <3>1. edited[r] = FALSE
      BY <2>4
    <3>2. CASE phase[r] \in {"none", "finished", "dead"} \/ key[r] = All
      BY <2>1, <2>4, <3>1, <3>2 DEF SuiteCounted
    <3>3. CASE phase[r] \notin {"none", "finished", "dead"} /\ key[r] # All
      <4>1. key[r] \in Customs => items'[key[r]] = items[key[r]]
        BY <2>4, <3>3
      <4>2. Version(r)' = Version(r)
        BY <3>3, <4>1 DEF Version, Keys
      <4>3. /\ Underway(r, Version(r)) => Underway(r, Version(r))'
            /\ AtEnd(r, Version(r)) => AtEnd(r, Version(r))'
        BY <2>4, <4>2 DEF Underway, AtEnd, PassedPrefix
      <4>4. QED
        BY <2>1, <2>4, <3>1, <3>3, <4>1, <4>2, <4>3 DEF SuiteCounted
    <3>4. QED
      BY <3>2, <3>3
  <2>5. QED
    BY <2>2, <2>3, <2>4
<1>3. QED
  BY <1>1, <1>2

LEMMA CountedInit == Init => Counted
<1> SUFFICES ASSUME Init, NEW r \in Runs PROVE SuiteCounted(r) /\ AllCounted(r)
  BY DEF Counted
<1>1. NothingYet(r)
  BY DEF Init, NothingYet
<1>2. /\ phase[r] = "none" /\ edited[r] = FALSE /\ key[r] = None
  BY DEF Init
<1>3. QED
  BY <1>1, <1>2 DEF SuiteCounted, AllCounted

\* Beginning: a run has counted nothing of the version it is about to follow.
LEMMA CountedAccept ==
  ASSUME TypeOK, NEW r \in Runs, NEW k \in Keys, Accept(r, k), SuiteCounted(r)
  PROVE  SuiteCounted(r)' /\ AllCounted(r)'
<1>1. /\ phase[r] = "none" /\ phase'[r] = "accepted" /\ key'[r] = k /\ edited'[r] = FALSE
      /\ k \in Customs => items[k] # None
      /\ items' = items /\ passed' = passed /\ failed' = failed /\ results' = results
      /\ NothingYet(r)
  BY DEF Accept, TypeOK, storeVars, recordVars, SuiteCounted
<1>2. NothingYet(r)' /\ passed'[r] = 0
  BY <1>1 DEF NothingYet
<1>3. QED
  BY <1>1, <1>2 DEF SuiteCounted, AllCounted

LEMMA CountedCreate ==
  ASSUME TypeOK, NEW r \in Runs, Create(r), SuiteCounted(r), AllCounted(r)
  PROVE  SuiteCounted(r)' /\ AllCounted(r)'
<1>1. /\ phase[r] = "accepted" /\ phase'[r] = "queued" /\ total'[r] = TotalChecks(key[r])
      /\ key[r] \in Keys
      /\ UNCHANGED <<items, key, passed, failed, results, edited>>
  BY DEF Create, TypeOK, storeVars
<1>2. AllCounted(r)'
  BY <1>1 DEF AllCounted, TotalChecks
<1>3. SuiteCounted(r)'
  <2>1. CASE key[r] = All \/ edited[r] # FALSE
    BY <1>1, <2>1 DEF SuiteCounted
  <2>2. CASE key[r] # All /\ edited[r] = FALSE
    <3>1. /\ key[r] \in Customs => items[key[r]] # None
          /\ NothingYet(r)
      BY <1>1, <2>2 DEF SuiteCounted
    <3>2. total'[r] = Len(Version(r)) /\ Version(r)' = Version(r) /\ NothingYet(r)'
      BY <1>1, <2>2, <3>1, VersionTyped DEF Version, NothingYet
    <3>3. QED
      BY <1>1, <2>2, <3>1, <3>2 DEF SuiteCounted
  <2>3. QED
    BY <2>1, <2>2
<1>4. QED
  BY <1>2, <1>3

LEMMA CountedStart ==
  ASSUME TypeOK, NEW r \in Runs, Start(r), SuiteCounted(r), AllCounted(r)
  PROVE  SuiteCounted(r)' /\ AllCounted(r)'
<1>1. /\ phase[r] = "queued" /\ phase'[r] \in {"between", "ending"} /\ key[r] \in Keys
      /\ UNCHANGED <<items, key, total, passed, failed, results, edited>>
  BY DEF Start, Execute, TypeOK, storeVars, recordVars
<1>2. CASE key[r] = All
  <2>1. key[r] \notin Suites /\ key[r] \notin Customs
    BY <1>2, ResultsAssumption
  <2>2. /\ phase'[r] = "between" /\ left'[r] = ChecksOf[Head(Order)] /\ later'[r] = Tail(Order)
    BY <1>2, <2>1 DEF Start, Execute, TypeOK
  <2>3. /\ Len(Order) \in Nat /\ Len(Order) >= 1 /\ Head(Order) = Order[1] /\ Order[1] \in Suites
        /\ Len(Tail(Order)) = Len(Order) - 1
        /\ \A i \in 1..(Len(Order) - 1) : Tail(Order)[i] = Order[i + 1]
        /\ DOMAIN Order = 1..Len(Order)
    BY ResultsAssumption, TailShifts, LenProperties
  <2>4. Place(r)' = 1 /\ 1 \in DOMAIN Order
    BY <2>2, <2>3 DEF Place
  <2>5. Len(ChecksOf[Order[1]]) \in Nat
    BY <2>3, ResultsAssumption, LenProperties
  <2>6. EndedHere(r)' = 0 /\ Len(left'[r]) <= Len(ChecksOf[Order[1]])
    BY <2>2, <2>3, <2>4, <2>5 DEF EndedHere
  <2>7. PairsBefore(1, 0) = {}
    BY DEF PairsBefore
  <2>8. passed'[r] = Cardinality(PairsBefore(1, 0))
    BY <1>1, <1>2, <2>7, FS_EmptySet DEF AllCounted
  <2>9. total'[r] = TotalChecks(All)'
    BY <1>1, <1>2 DEF AllCounted, TotalChecks
  <2>10. \A j \in 1..Len(later'[r]) : later'[r][j] = Order[1 + j]
    BY <2>2, <2>3
  <2>11. AllCounted(r)'
    BY <1>1, <1>2, <2>2, <2>4, <2>6, <2>8, <2>9, <2>10 DEF AllCounted
  <2>12. SuiteCounted(r)'
    BY <1>1, <1>2, <2>2 DEF SuiteCounted
  <2>13. QED
    BY <2>11, <2>12
<1>3. CASE key[r] # All
  <2>1. AllCounted(r)'
    BY <1>1, <1>3 DEF AllCounted
  <2>2. CASE edited[r] # FALSE
    BY <1>1, <2>1, <2>2 DEF SuiteCounted
  <2>3. CASE edited[r] = FALSE
    <3>0. PICK v : v = Version(r)
      OBVIOUS
    <3>1. /\ key[r] \in Customs => items[key[r]] # None
          /\ NothingYet(r) /\ total[r] = Len(v)
      BY <1>1, <1>3, <2>3, <3>0 DEF SuiteCounted
    <3>2. phase'[r] = "between" /\ left'[r] = v /\ later'[r] = <<>>
      BY SMTT(30), <1>1, <1>3, <3>0, <3>1, ResultsAssumption DEF Start, Execute, TypeOK, Version, Keys
    <3>3. Len(v) \in Nat
      BY <1>1, <1>3, <3>0, <3>1, VersionTyped
    <3>4. Version(r)' = v
      BY <1>1, <3>0 DEF Version
    <3>5. Underway(r, v)'
      BY <1>1, <3>1, <3>2, <3>3, ResultsAssumption DEF Underway, PassedPrefix, NothingYet
    <3>6. QED
      BY <1>1, <1>3, <2>1, <2>3, <3>1, <3>2, <3>4, <3>5 DEF SuiteCounted
  <2>4. QED
    BY <2>2, <2>3
<1>4. QED
  BY <1>2, <1>3

\* The checks of a run under way, and the place of the one at hand in its version.
LEMMA UnderwayTyped ==
  ASSUME TypeOK, NEW r \in Runs, phase[r] \in {"between", "checking"},
         NEW v \in Seq(CheckIds), Underway(r, v)
  PROVE  /\ left[r] \in Seq(CheckIds) /\ left[r] # <<>> /\ Head(left[r]) = left[r][1]
         /\ left[r][1] \in CheckIds /\ Len(left[r]) \in Nat /\ Len(left[r]) >= 1
         /\ Len(Tail(left[r])) = Len(left[r]) - 1
         /\ \A j \in 1..(Len(left[r]) - 1) : Tail(left[r])[j] = left[r][j + 1]
         /\ passed[r] \in Nat /\ passed[r] + 1 \in 1..Len(v)
         /\ left[r][1] = v[passed[r] + 1]
<1>1. left[r] \in Seq(CheckIds) /\ left[r] # <<>> /\ passed[r] \in Nat
  BY DEF TypeOK
<1>2. /\ Head(left[r]) = left[r][1] /\ left[r][1] \in CheckIds
      /\ Len(left[r]) \in Nat /\ Len(left[r]) >= 1 /\ Len(Tail(left[r])) = Len(left[r]) - 1
      /\ \A j \in 1..(Len(left[r]) - 1) : Tail(left[r])[j] = left[r][j + 1]
  BY <1>1, TailShifts
<1>3. Len(v) \in Nat
  BY LenProperties
<1>4. /\ passed[r] + Len(left[r]) = Len(v)
      /\ \A j \in 1..Len(left[r]) : left[r][j] = v[passed[r] + j]
  BY DEF Underway
<1>5. 1 \in 1..Len(left[r]) /\ passed[r] + 1 \in 1..Len(v)
  BY <1>1, <1>2, <1>3, <1>4
<1>6. QED
  BY <1>1, <1>2, <1>4, <1>5

LEMMA CountedCheckStart ==
  ASSUME TypeOK, NEW r \in Runs, CheckStart(r), SuiteCounted(r), AllCounted(r)
  PROVE  SuiteCounted(r)' /\ AllCounted(r)'
<1>1. /\ phase[r] = "between" /\ phase'[r] = "checking" /\ key[r] \in Keys
      /\ results'[r] = [results[r] EXCEPT ![Head(left[r])] = "RUNNING"]
      /\ UNCHANGED <<items, key, total, passed, failed, left, later, edited>>
  BY DEF CheckStart, Record, TypeOK, storeVars, bodyVars
<1>2. AllCounted(r)'
  BY <1>1 DEF AllCounted, Place, EndedHere, PairsBefore, TotalChecks
<1>3. CASE key[r] = All \/ edited[r] # FALSE
  BY <1>1, <1>2, <1>3 DEF SuiteCounted
<1>4. CASE key[r] # All /\ edited[r] = FALSE
  <2>1. PICK v : v = Version(r)
    OBVIOUS
  <2>2. (key[r] \in Customs => items[key[r]] # None) /\ Underway(r, v)
    BY <1>1, <1>4, <2>1 DEF SuiteCounted
  <2>3. /\ v \in Seq(CheckIds) /\ Len(v) \in Nat
        /\ \A i, j \in 1..Len(v) : v[i] = v[j] => i = j
    BY <1>1, <1>4, <2>1, <2>2, VersionTyped
  <2>4. /\ Head(left[r]) = left[r][1] /\ left[r][1] \in CheckIds
        /\ passed[r] \in Nat /\ passed[r] + 1 \in 1..Len(v)
        /\ left[r][1] = v[passed[r] + 1]
    BY <1>1, <2>2, <2>3, UnderwayTyped
  <2>5. \A i \in 1..passed[r] : left[r][1] # v[i]
    <3> SUFFICES ASSUME NEW i \in 1..passed[r], v[passed[r] + 1] = v[i] PROVE FALSE
      BY <2>4
    <3>1. i \in 1..Len(v) /\ i # passed[r] + 1
      BY <2>3, <2>4
    <3>2. QED
      BY <2>3, <2>4, <3>1
  <2>6. \A c \in CheckIds : results'[r][c] = IF c = left[r][1] THEN "RUNNING" ELSE results[r][c]
    BY <1>1, <2>4 DEF TypeOK
  <2>7. PassedPrefix(r, v, passed[r]) /\ \A c \in CheckIds : results[r][c] \in {None, "PASSED"}
    BY <1>1, <2>2 DEF Underway
  <2>8. PassedPrefix(r, v, passed[r])'
    BY <1>1, <2>5, <2>6, <2>7 DEF PassedPrefix
  <2>9. \A c \in CheckIds : \/ results'[r][c] \in {None, "PASSED"}
                            \/ c = left[r][1] /\ results'[r][c] = "RUNNING"
    BY <2>6, <2>7
  <2>10. Underway(r, v)'
    BY <1>1, <2>2, <2>8, <2>9 DEF Underway
  <2>11. Version(r)' = v
    BY <1>1, <2>1 DEF Version
  <2>12. QED
    BY <1>1, <1>2, <1>4, <2>2, <2>10, <2>11 DEF SuiteCounted
<1>5. QED
  BY <1>3, <1>4

LEMMA CountedCheckFailed ==
  ASSUME TypeOK, NEW r \in Runs, CheckFailed(r), SuiteCounted(r), AllCounted(r)
  PROVE  SuiteCounted(r)' /\ AllCounted(r)'
<1>1. /\ phase[r] = "checking" /\ phase'[r] = "ending" /\ key[r] \in Keys /\ err'[r] = TRUE
      /\ results'[r] = [results[r] EXCEPT ![Head(left[r])] = "FAILED"]
      /\ failed'[r] = failed[r] + 1
      /\ UNCHANGED <<items, key, total, passed, left, later, edited>>
  BY DEF CheckFailed, Record, TypeOK, storeVars
<1>2. AllCounted(r)'
  BY <1>1 DEF AllCounted, TotalChecks
<1>3. CASE key[r] = All \/ edited[r] # FALSE
  BY <1>1, <1>2, <1>3 DEF SuiteCounted
<1>4. CASE key[r] # All /\ edited[r] = FALSE
  <2>1. PICK v : v = Version(r)
    OBVIOUS
  <2>2. (key[r] \in Customs => items[key[r]] # None) /\ Underway(r, v)
    BY <1>1, <1>4, <2>1 DEF SuiteCounted
  <2>3. /\ v \in Seq(CheckIds) /\ Len(v) \in Nat
        /\ \A i, j \in 1..Len(v) : v[i] = v[j] => i = j
    BY <1>1, <1>4, <2>1, <2>2, VersionTyped
  <2>4. /\ Head(left[r]) = left[r][1] /\ left[r][1] \in CheckIds
        /\ passed[r] \in Nat /\ passed[r] + 1 \in 1..Len(v)
        /\ left[r][1] = v[passed[r] + 1]
    BY <1>1, <2>2, <2>3, UnderwayTyped
  <2>5. \A i \in 1..passed[r] : left[r][1] # v[i]
    <3> SUFFICES ASSUME NEW i \in 1..passed[r], v[passed[r] + 1] = v[i] PROVE FALSE
      BY <2>4
    <3>1. i \in 1..Len(v) /\ i # passed[r] + 1
      BY <2>3, <2>4
    <3>2. QED
      BY <2>3, <2>4, <3>1
  <2>6. \A c \in CheckIds : results'[r][c] = IF c = left[r][1] THEN "FAILED" ELSE results[r][c]
    BY <1>1, <2>4 DEF TypeOK
  <2>7. /\ PassedPrefix(r, v, passed[r]) /\ failed[r] = 0 /\ total[r] = Len(v)
        /\ \A c \in CheckIds : c = left[r][1] \/ results[r][c] \in {None, "PASSED"}
    BY <1>1, <2>2 DEF Underway
  <2>8. PassedPrefix(r, v, passed[r])'
    BY <1>1, <2>5, <2>6, <2>7 DEF PassedPrefix
  <2>9. /\ failed'[r] = 1 /\ passed[r] + failed'[r] <= Len(v)
    BY <1>1, <2>3, <2>4, <2>7
  <2>10. \A c \in CheckIds :
           /\ results'[r][c] \in {None, "PASSED", "FAILED"}
           /\ results'[r][c] = "FAILED" <=> c = v[passed[r] + 1]
    BY <2>4, <2>6, <2>7, ResultsAssumption
  <2>11. AtEnd(r, v)'
    BY <1>1, <2>7, <2>8, <2>9, <2>10 DEF AtEnd
  <2>12. Version(r)' = v
    BY <1>1, <2>1 DEF Version
  <2>13. QED
    BY <1>1, <1>2, <1>4, <2>2, <2>11, <2>12 DEF SuiteCounted
<1>5. QED
  BY <1>3, <1>4

\* What PairsBefore holds, and that it is finite.
LEMMA PairsHeld ==
  ASSUME NEW p \in DOMAIN Order, NEW n \in Nat, n <= Len(ChecksOf[Order[p]])
  PROVE  /\ p \in 1..Len(Order) /\ Len(Order) \in Nat /\ Order[p] \in Suites
         /\ Len(ChecksOf[Order[p]]) \in Nat /\ Len(ChecksOf[Order[p]]) >= 1
         /\ PairsBefore(p, n) \subseteq AllPairs /\ IsFiniteSet(PairsBefore(p, n))
         /\ \A s, i : <<s, i>> \in PairsBefore(p, n) <=>
              \/ \E j \in 1..(p - 1) : s = Order[j] /\ i \in 1..Len(ChecksOf[Order[j]])
              \/ s = Order[p] /\ i \in 1..n
<1>1. DOMAIN Order = 1..Len(Order) /\ Len(Order) \in Nat
  BY ResultsAssumption, LenProperties
<1>2. \A j \in 1..Len(Order) : Order[j] \in Suites
  BY ResultsAssumption, ElementOfSeq
<1>3. \A s \in Suites : /\ DOMAIN ChecksOf[s] = 1..Len(ChecksOf[s])
                        /\ Len(ChecksOf[s]) \in Nat /\ Len(ChecksOf[s]) >= 1
  BY ResultsAssumption, LenProperties, TailShifts
<1>4. p \in 1..Len(Order) /\ \A j \in 1..(p - 1) : j \in 1..Len(Order)
  BY <1>1
<1>5. ASSUME NEW s, NEW i
      PROVE  <<s, i>> \in PairsBefore(p, n) <=>
               \/ \E j \in 1..(p - 1) : s = Order[j] /\ i \in 1..Len(ChecksOf[Order[j]])
               \/ s = Order[p] /\ i \in 1..n
  BY <1>2, <1>3, <1>4 DEF PairsBefore
<1>6. {Order[p]} \X (1..n) \subseteq {Order[p]} \X DOMAIN ChecksOf[Order[p]]
  BY <1>2, <1>3, <1>4
<1>7. PairsBefore(p, n) \subseteq AllPairs
  BY <1>2, <1>4, <1>6 DEF PairsBefore, AllPairs
<1>8. IsFiniteSet(PairsBefore(p, n))
  BY <1>7, AllPairsFinite, FS_Subset
<1>9. QED
  BY <1>1, <1>2, <1>3, <1>4, <1>5, <1>7, <1>8

\* One more check: one more pair, as no suite comes twice in the order.
LEMMA PairsGrow ==
  ASSUME NEW p \in DOMAIN Order, NEW n \in Nat, n + 1 <= Len(ChecksOf[Order[p]])
  PROVE  /\ Cardinality(PairsBefore(p, n + 1)) = Cardinality(PairsBefore(p, n)) + 1
         /\ Cardinality(PairsBefore(p, n)) \in Nat
<1>1. n <= Len(ChecksOf[Order[p]]) /\ n + 1 \in Nat /\ Len(ChecksOf[Order[p]]) \in Nat
  <2>1. Len(ChecksOf[Order[p]]) \in Nat
    <3>1. Order[p] \in Suites
      BY ResultsAssumption, LenProperties, ElementOfSeq
    <3>2. QED
      BY <3>1, ResultsAssumption, LenProperties
  <2>2. QED
    BY <2>1
<1>2. PairsBefore(p, n + 1) = PairsBefore(p, n) \cup {<<Order[p], n + 1>>}
  <2>1. 1..(n + 1) = (1..n) \cup {n + 1}
    OBVIOUS
  <2>2. {Order[p]} \X (1..(n + 1)) = ({Order[p]} \X (1..n)) \cup {<<Order[p], n + 1>>}
    BY <2>1
  <2>3. QED
    BY <2>2 DEF PairsBefore
<1>3. <<Order[p], n + 1>> \notin PairsBefore(p, n)
  <2>1. \A j \in 1..(p - 1) : Order[j] # Order[p]
    <3>1. DOMAIN Order = 1..Len(Order) /\ Len(Order) \in Nat
      BY ResultsAssumption, LenProperties
    <3>2. \A j \in 1..(p - 1) : j \in DOMAIN Order /\ j # p
      BY <3>1
    <3>3. QED
      BY <3>2, OrderAssumption
  <2>2. n + 1 \notin 1..n
    OBVIOUS
  <2>3. QED
    BY <1>1, <2>1, <2>2, PairsHeld
<1>4. IsFiniteSet(PairsBefore(p, n))
  BY <1>1, PairsHeld
<1>5. QED
  BY <1>2, <1>3, <1>4, FS_AddElement, FS_CardinalityType

\* A suite whose checks have all ended stands before the next one.
LEMMA PairsTurn ==
  ASSUME NEW p \in DOMAIN Order, p + 1 \in DOMAIN Order
  PROVE  PairsBefore(p, Len(ChecksOf[Order[p]])) = PairsBefore(p + 1, 0)
<1>1. DOMAIN Order = 1..Len(Order) /\ Len(Order) \in Nat
  BY ResultsAssumption, LenProperties
<1>2. Order[p] \in Suites
  BY <1>1, ResultsAssumption, ElementOfSeq
<1>3. DOMAIN ChecksOf[Order[p]] = 1..Len(ChecksOf[Order[p]])
  BY <1>2, ResultsAssumption, LenProperties
<1>4. PICK q : q = p + 1
  OBVIOUS
<1>5. 1..(q - 1) = (1..(p - 1)) \cup {p}
  BY <1>1, <1>4
<1> DEFINE B(j) == {Order[j]} \X DOMAIN ChecksOf[Order[j]]
<1>6. (UNION {B(j) : j \in 1..(q - 1)}) = (UNION {B(j) : j \in 1..(p - 1)}) \cup B(p)
  BY <1>5
<1>7. PairsBefore(q, 0) = (UNION {B(j) : j \in 1..(q - 1)}) \cup ({Order[q]} \X (1..0))
  BY DEF PairsBefore
<1>8. {Order[q]} \X (1..0) = {}
  OBVIOUS
<1>9. {Order[p]} \X (1..Len(ChecksOf[Order[p]])) = B(p)
  BY <1>3
<1>10. PairsBefore(p, Len(ChecksOf[Order[p]])) = (UNION {B(j) : j \in 1..(p - 1)}) \cup B(p)
  BY <1>9 DEF PairsBefore
<1> HIDE DEF B
<1>11. PairsBefore(q, 0) = PairsBefore(p, Len(ChecksOf[Order[p]]))
  BY <1>6, <1>7, <1>8, <1>10
<1>12. QED
  BY <1>4, <1>11

\* The last check of the last suite is the last of all, as no suite is missing.
LEMMA PairsComplete ==
  ASSUME Len(Order) \in DOMAIN Order
  PROVE  PairsBefore(Len(Order), Len(ChecksOf[Order[Len(Order)]])) = AllPairs
<1> DEFINE p == Len(Order)
           n == Len(ChecksOf[Order[p]])
<1>1. DOMAIN Order = 1..p /\ p \in Nat
  BY ResultsAssumption, LenProperties
<1>2. Order[p] \in Suites
  BY <1>1, ResultsAssumption, ElementOfSeq
<1>3. n \in Nat /\ DOMAIN ChecksOf[Order[p]] = 1..n
  BY <1>2, ResultsAssumption, LenProperties
<1>4. PairsBefore(p, n) \subseteq AllPairs
  BY <1>3, PairsHeld
<1>5. ASSUME NEW s \in Suites
      PROVE  {s} \X DOMAIN ChecksOf[s] \subseteq PairsBefore(p, n)
  <2>1. PICK j \in 1..p : Order[j] = s
    BY <1>1, OrderAssumption
  <2>2. CASE j = p
    BY <1>3, <2>1, <2>2 DEF PairsBefore
  <2>3. CASE j # p
    <3>1. j \in 1..(p - 1)
      <4>1. ASSUME NEW q \in Nat, j \in 1..q, j # q PROVE j \in 1..(q - 1)
        BY <4>1
      <4>2. QED
        BY <1>1, <2>1, <2>3, <4>1
    <3>2. QED
      BY <2>1, <3>1 DEF PairsBefore
  <2>4. QED
    BY <2>2, <2>3
<1> HIDE DEF p, n
<1>6. AllPairs \subseteq PairsBefore(p, n)
  BY <1>5 DEF AllPairs
<1>7. PairsBefore(p, n) = AllPairs
  BY <1>4, <1>6
<1>8. QED
  BY <1>7 DEF p, n

\* A check that passes adds itself to the prefix, and the last one leads to the end.
LEMMA SuitePassed ==
  ASSUME TypeOK, NEW r \in Runs, CheckPassed(r), SuiteCounted(r), key[r] # All
  PROVE  SuiteCounted(r)'
<1>1. /\ phase[r] = "checking" /\ key[r] \in Keys /\ Proceed(r)
      /\ results'[r] = [results[r] EXCEPT ![Head(left[r])] = "PASSED"]
      /\ passed'[r] = passed[r] + 1
      /\ UNCHANGED <<items, key, total, failed, edited>>
  BY DEF CheckPassed, Record, TypeOK, storeVars
<1>2. phase'[r] \in {"between", "ending"}
  BY <1>1 DEF Proceed, Execute, TypeOK
<1>3. CASE edited[r] # FALSE
  BY <1>1, <1>2, <1>3 DEF SuiteCounted
<1>4. CASE edited[r] = FALSE
  <2>1. PICK v : v = Version(r)
    OBVIOUS
  <2>2. (key[r] \in Customs => items[key[r]] # None) /\ Underway(r, v)
    BY <1>1, <1>4, <2>1 DEF SuiteCounted
  <2>3. /\ v \in Seq(CheckIds) /\ Len(v) \in Nat
    BY <1>1, <2>1, <2>2, VersionTyped
  <2>4. /\ Head(left[r]) = left[r][1] /\ left[r][1] \in CheckIds
        /\ Len(left[r]) \in Nat /\ Len(left[r]) >= 1
        /\ Len(Tail(left[r])) = Len(left[r]) - 1
        /\ \A j \in 1..(Len(left[r]) - 1) : Tail(left[r])[j] = left[r][j + 1]
        /\ passed[r] \in Nat /\ passed[r] + 1 \in 1..Len(v)
        /\ left[r][1] = v[passed[r] + 1]
    BY <1>1, <2>2, <2>3, UnderwayTyped
  <2>5. \A c \in CheckIds : results'[r][c] = IF c = left[r][1] THEN "PASSED" ELSE results[r][c]
    BY <1>1, <2>4 DEF TypeOK
  <2>6. /\ PassedPrefix(r, v, passed[r]) /\ failed[r] = 0 /\ total[r] = Len(v) /\ later[r] = <<>>
        /\ passed[r] + Len(left[r]) = Len(v)
        /\ \A j \in 1..Len(left[r]) : left[r][j] = v[passed[r] + j]
        /\ \A c \in CheckIds : c = left[r][1] \/ results[r][c] \in {None, "PASSED"}
    BY <1>1, <2>2 DEF Underway
  <2>7. \A c \in CheckIds :
          results'[r][c] = "PASSED" <=> \E i \in 1..(passed[r] + 1) : c = v[i]
    <3>1. 1..(passed[r] + 1) = (1..passed[r]) \cup {passed[r] + 1}
      BY <2>4
    <3>2. QED
      BY <2>4, <2>5, <2>6, <3>1 DEF PassedPrefix
  <2>8. PassedPrefix(r, v, passed[r])'
    BY <1>1, <2>7 DEF PassedPrefix
  <2>9. \A c \in CheckIds : results'[r][c] \in {None, "PASSED"}
    BY <2>5, <2>6
  <2>10. Version(r)' = v
    BY <1>1, <2>1 DEF Version
  <2>11. CASE Tail(left[r]) # <<>>
    <3>1. phase'[r] = "between" /\ left'[r] = Tail(left[r]) /\ later'[r] = <<>>
      BY <1>1, <2>6, <2>11 DEF Proceed, Execute, TypeOK
    <3>2. passed'[r] + Len(left'[r]) = Len(v)
      BY <1>1, <2>3, <2>4, <2>6, <3>1
    <3>3. ASSUME NEW j \in 1..Len(left'[r]) PROVE left'[r][j] = v[passed'[r] + j]
      <4>1. j \in 1..(Len(left[r]) - 1)
        BY <2>4, <3>1
      <4>2. j \in Nat /\ j + 1 \in 1..Len(left[r]) /\ passed[r] + (j + 1) = (passed[r] + 1) + j
        <5>1. ASSUME NEW a \in Nat, NEW b \in Nat, j \in 1..(a - 1)
              PROVE  j \in Nat /\ j + 1 \in 1..a /\ b + (j + 1) = (b + 1) + j
          BY <5>1
        <5>2. QED
          BY <2>4, <4>1, <5>1
      <4>3. left'[r][j] = left[r][j + 1] /\ left[r][j + 1] = v[passed[r] + (j + 1)]
        BY <2>4, <2>6, <3>1, <4>1, <4>2
      <4>4. QED
        BY <1>1, <4>2, <4>3
    <3>4. Underway(r, v)'
      BY <1>1, <2>6, <2>8, <2>9, <3>1, <3>2, <3>3 DEF Underway
    <3>5. QED
      BY <1>1, <1>4, <2>2, <2>10, <3>1, <3>4 DEF SuiteCounted
  <2>12. CASE Tail(left[r]) = <<>>
    <3>1. phase'[r] = "ending"
      BY <1>1, <2>6, <2>12 DEF Proceed, TypeOK
    <3>2. passed'[r] + failed'[r] <= Len(v) /\ failed'[r] = 0
      BY <1>1, <2>3, <2>4, <2>6
    <3>3. AtEnd(r, v)'
      BY <1>1, <2>6, <2>8, <2>9, <3>2, ResultsAssumption DEF AtEnd
    <3>4. QED
      BY <1>1, <1>4, <2>2, <2>10, <3>1, <3>3 DEF SuiteCounted
  <2>13. QED
    BY <2>11, <2>12
<1>5. QED
  BY <1>3, <1>4

\* For "all" it adds one pair, and after the last pair none is missing.
LEMMA AllPassedOn ==
  ASSUME TypeOK, NEW r \in Runs, CheckPassed(r), AllCounted(r), key[r] = All
  PROVE  AllCounted(r)'
<1>1. /\ phase[r] = "checking" /\ Proceed(r) /\ passed'[r] = passed[r] + 1
      /\ UNCHANGED <<key, total>>
      /\ left[r] \in Seq(CheckIds) /\ left[r] # <<>> /\ later[r] \in Seq(Suites)
  BY DEF CheckPassed, TypeOK
<1>2. PICK p : p = Place(r)
  OBVIOUS
<1>3. PICK n : n = Len(ChecksOf[Order[p]])
  OBVIOUS
<1>4. /\ p \in DOMAIN Order /\ p = Len(Order) - Len(later[r])
      /\ \A j \in 1..Len(later[r]) : later[r][j] = Order[p + j]
      /\ Len(left[r]) <= n
      /\ passed[r] = Cardinality(PairsBefore(p, n - Len(left[r])))
      /\ total[r] = TotalChecks(All)
  BY <1>1, <1>2, <1>3 DEF AllCounted, EndedHere, Place
<1>5. /\ DOMAIN Order = 1..Len(Order) /\ Len(Order) \in Nat
      /\ \A j \in 1..Len(Order) : Order[j] \in Suites
  BY ResultsAssumption, LenProperties, ElementOfSeq
<1>6. \A s \in Suites : Len(ChecksOf[s]) \in Nat /\ ChecksOf[s] \in Seq(CheckIds)
  BY ResultsAssumption, LenProperties
<1>7. /\ Len(left[r]) \in Nat /\ Len(left[r]) >= 1 /\ Len(Tail(left[r])) = Len(left[r]) - 1
      /\ Len(later[r]) \in Nat /\ n \in Nat
  BY <1>1, <1>3, <1>4, <1>5, <1>6, TailShifts, LenProperties
<1>8. PICK m \in Nat : m = n - Len(left[r])
  BY <1>4, <1>7
<1>9. m + 1 <= n /\ n - (Len(left[r]) - 1) = m + 1
  BY <1>4, <1>7, <1>8
<1>10. passed'[r] = Cardinality(PairsBefore(p, m + 1))
  BY ZenonT(30), <1>1, <1>3, <1>4, <1>8, <1>9, PairsGrow
<1>11. total'[r] = TotalChecks(All)'
  BY <1>1, <1>4 DEF TotalChecks
<1>12. CASE Tail(left[r]) # <<>>
  <2>1. phase'[r] = "between" /\ left'[r] = Tail(left[r]) /\ later'[r] = later[r]
    BY <1>1, <1>12 DEF Proceed, Execute, TypeOK
  <2>2. Place(r)' = p
    BY <1>4, <2>1 DEF Place
  <2>3. EndedHere(r)' = n - (Len(left[r]) - 1)
    BY <1>3, <1>7, <2>1, <2>2 DEF EndedHere
  <2>4. Len(left'[r]) = Len(left[r]) - 1
    BY <1>7, <2>1
  <2>5. Len(left'[r]) <= n
    BY <1>4, <1>7, <2>4
  <2>6. QED
    BY <1>3, <1>4, <1>9, <1>10, <1>11, <2>1, <2>2, <2>3, <2>5 DEF AllCounted
<1>13. CASE Tail(left[r]) = <<>> /\ later[r] # <<>>
  <2>1. /\ phase'[r] = "between" /\ left'[r] = ChecksOf[Head(later[r])]
        /\ later'[r] = Tail(later[r])
    BY <1>1, <1>13 DEF Proceed, Execute, TypeOK
  <2>2. /\ Head(later[r]) = later[r][1] /\ Len(later[r]) >= 1
        /\ Len(Tail(later[r])) = Len(later[r]) - 1
        /\ \A i \in 1..(Len(later[r]) - 1) : Tail(later[r])[i] = later[r][i + 1]
    BY <1>1, <1>13, TailShifts
  <2>3. Head(later[r]) = Order[p + 1] /\ p + 1 \in DOMAIN Order /\ p \in Nat
    <3>1. 1 \in 1..Len(later[r])
      BY <1>7, <2>2
    <3>2. later[r][1] = Order[p + 1]
      BY <1>4, <3>1
    <3>3. p \in Nat
      BY <1>4, <1>5
    <3>4. p + 1 <= Len(Order)
      BY <1>4, <1>5, <1>7, <2>2, <3>3
    <3>5. p + 1 \in 1..Len(Order)
      BY <1>5, <3>3, <3>4
    <3>6. QED
      BY <1>5, <2>2, <3>2, <3>3, <3>5
  <2>4. Place(r)' = p + 1
    <3>1. Place(r)' = Len(Order) - (Len(later[r]) - 1)
      BY <2>1, <2>2 DEF Place
    <3>2. QED
      BY <1>4, <1>5, <1>7, <3>1
  <2>5. EndedHere(r)' = 0 /\ Len(left'[r]) <= Len(ChecksOf[Order[p + 1]])
    BY <1>5, <1>6, <2>1, <2>3, <2>4 DEF EndedHere
  <2>6. Len(<<>>) = 0
    BY EmptySeq
  <2>7. m + 1 = n
    BY SMTT(30), <1>7, <1>8, <1>13, <2>6
  <2>8. passed'[r] = Cardinality(PairsBefore(p + 1, 0))
    BY <1>3, <1>4, <1>10, <2>3, <2>7, PairsTurn
  <2>9. ASSUME NEW j \in 1..Len(later'[r]) PROVE later'[r][j] = Order[(p + 1) + j]
    <3>1. j \in 1..(Len(later[r]) - 1) /\ j + 1 \in 1..Len(later[r]) /\ p + (j + 1) = (p + 1) + j
      BY <1>7, <2>1, <2>2, <2>3
    <3>2. later'[r][j] = later[r][j + 1] /\ later[r][j + 1] = Order[p + (j + 1)]
      BY <1>4, <2>1, <2>2, <3>1
    <3>3. QED
      BY <3>1, <3>2
  <2>10. QED
    BY <1>11, <2>1, <2>3, <2>4, <2>5, <2>8, <2>9 DEF AllCounted
<1>14. CASE Tail(left[r]) = <<>> /\ later[r] = <<>>
  <2>1. phase'[r] = "ending"
    BY <1>1, <1>14 DEF Proceed, TypeOK
  <2>2. Len(<<>>) = 0
    BY EmptySeq
  <2>3. m + 1 = n /\ p = Len(Order)
    <3>1. m + 1 = n
      BY SMTT(30), <1>7, <1>8, <1>14, <2>2
    <3>2. Len(later[r]) = 0
      BY <1>14, <2>2
    <3>3. QED
      BY <1>4, <1>5, <3>1, <3>2
  <2>4. passed'[r] = Cardinality(AllPairs)
    BY <1>3, <1>4, <1>10, <2>3, PairsComplete
  <2>5. TotalChecks(All) = Cardinality(AllPairs)
    BY ResultsAssumption DEF TotalChecks, AllPairs
  <2>6. QED
    BY <1>1, <1>4, <1>11, <2>1, <2>4, <2>5 DEF AllCounted
<1>15. QED
  BY <1>12, <1>13, <1>14

LEMMA CountedCheckPassed ==
  ASSUME TypeOK, NEW r \in Runs, CheckPassed(r), SuiteCounted(r), AllCounted(r)
  PROVE  SuiteCounted(r)' /\ AllCounted(r)'
<1>1. phase'[r] \in {"between", "ending"} /\ key'[r] = key[r]
  BY DEF CheckPassed, Proceed, Execute, TypeOK
<1>2. CASE key[r] = All
  BY <1>1, <1>2, AllPassedOn DEF SuiteCounted
<1>3. CASE key[r] # All
  BY <1>1, <1>3, SuitePassed DEF AllCounted
<1>4. QED
  BY <1>2, <1>3

\* finalizeChecks skips what is neither among the passed nor the failed one.
LEMMA CountedFinish ==
  ASSUME TypeOK, NEW r \in Runs, Finish(r), SuiteCounted(r), AllCounted(r)
  PROVE  SuiteCounted(r)' /\ AllCounted(r)'
<1>1. /\ phase[r] = "ending" /\ phase'[r] = "finished" /\ key[r] \in Keys
      /\ results'[r] = Finalized(r)
      /\ status'[r] = IF err[r] THEN "FAILED" ELSE "PASSED"
      /\ err[r] \in BOOLEAN
      /\ UNCHANGED <<items, key, total, passed, failed, edited>>
  BY DEF Finish, TypeOK, storeVars
<1>2. AllCounted(r)'
  BY <1>1 DEF AllCounted
<1>3. CASE key[r] = All \/ edited[r] # FALSE
  BY <1>1, <1>2, <1>3 DEF SuiteCounted
<1>4. CASE key[r] # All /\ edited[r] = FALSE
  <2>1. PICK v : v = Version(r)
    OBVIOUS
  <2>2. (key[r] \in Customs => items[key[r]] # None) /\ AtEnd(r, v)
    BY <1>1, <1>4, <2>1 DEF SuiteCounted
  <2>3. PICK n : n = Len(v)
    OBVIOUS
  <2>4. /\ n \in Nat /\ \A i \in 1..n : v[i] \in CheckIds
        /\ \A i, j \in 1..n : v[i] = v[j] => i = j
        /\ ToFinalize(key[r]) = {v[i] : i \in 1..n}
    BY <1>1, <1>4, <2>1, <2>2, <2>3, VersionTyped
  <2>5. PICK p \in Nat : p = passed[r]
    BY DEF TypeOK
  <2>6. PICK f : f = failed[r]
    OBVIOUS
  <2>7. /\ p \in Nat /\ f \in {0, 1} /\ p + f <= n /\ total[r] = n
        /\ \A c \in CheckIds : results[r][c] = "PASSED" <=> \E i \in 1..p : c = v[i]
        /\ \A c \in CheckIds :
             /\ results[r][c] \in {None, "PASSED", "FAILED"}
             /\ results[r][c] = "FAILED" <=> f = 1 /\ c = v[p + 1]
    BY <2>2, <2>3, <2>5, <2>6 DEF AtEnd, PassedPrefix, TypeOK
  <2>8. \A c \in CheckIds :
          results'[r][c] = IF c \in {v[i] : i \in 1..n} /\ results[r][c] = None
                           THEN "SKIPPED" ELSE results[r][c]
    BY <1>1, <2>4, <2>7, ResultsAssumption DEF Finalized
  <2>9. \A c \in CheckIds : results'[r][c] = "PASSED" <=> \E i \in 1..p : c = v[i]
    BY <2>7, <2>8, ResultsAssumption
  <2>10. \A c \in CheckIds : results'[r][c] = "FAILED" <=> \E i \in (p + 1)..(p + f) : c = v[i]
    <3>1. CASE f = 0
      BY <2>7, <2>8, <3>1, ResultsAssumption
    <3>2. CASE f = 1
      BY SMTT(30), <2>7, <2>8, <3>2, ResultsAssumption
    <3>3. QED
      BY <2>7, <3>1, <3>2
  <2>11. \A c \in CheckIds : results'[r][c] = "SKIPPED" <=> \E i \in (p + f + 1)..n : c = v[i]
    <3> SUFFICES ASSUME NEW c \in CheckIds
                 PROVE  results'[r][c] = "SKIPPED" <=> \E i \in (p + f + 1)..n : c = v[i]
      OBVIOUS
    <3>1. results'[r][c] = "SKIPPED" <=> results[r][c] = None /\ \E i \in 1..n : c = v[i]
      BY <2>7, <2>8, ResultsAssumption
    <3>2. results[r][c] = None <=> /\ ~ \E i \in 1..p : c = v[i]
                                   /\ ~ (f = 1 /\ c = v[p + 1])
      BY <2>7, ResultsAssumption
    <3>3. ASSUME NEW i \in 1..n, c = v[i], results[r][c] = None
          PROVE  i \in (p + f + 1)..n
      <4>1. i \notin 1..p /\ ~ (f = 1 /\ i = p + 1)
        BY <3>2, <3>3
      <4>2. QED
        BY <2>4, <2>7, <4>1
    <3>4. ASSUME NEW i \in (p + f + 1)..n, c = v[i]
          PROVE  results[r][c] = None /\ i \in 1..n
      <4>1. i \in 1..n /\ \A j \in 1..(p + f) : j \in 1..n /\ j # i
        BY <2>4, <2>7
      <4>2. \A j \in 1..(p + f) : v[j] # c
        BY <2>4, <3>4, <4>1
      <4>3. /\ \A j \in 1..p : j \in 1..(p + f)
            /\ f = 1 => p + 1 \in 1..(p + f)
        BY <2>7
      <4>4. QED
        BY <3>2, <4>1, <4>2, <4>3
    <3>5. QED
      BY <3>1, <3>3, <3>4
  <2>12. PICK m \in Nat : m = p + f
    BY <2>7
  <2>13. Count(r, "PASSED")' = p
    <3>1. PICK T : T = {c \in CheckIds : results'[r][c] = "PASSED"}
      OBVIOUS
    <3>2. PICK a \in Nat : a = 1
      OBVIOUS
    <3>3. T = Stretch(v, a, p)
      BY <2>4, <2>7, <2>9, <3>1, <3>2 DEF Stretch
    <3>4. \A i, j \in a..p : v[i] = v[j] => i = j
      BY <2>4, <2>7, <3>2
    <3>5. p \in Nat /\ a <= p + 1 /\ (p - a) + 1 = p
      BY <2>7, <3>2
    <3>6. Cardinality(T) = (p - a) + 1
      BY <2>5, <3>3, <3>4, <3>5, StretchCount
    <3>7. QED
      BY <3>1, <3>5, <3>6 DEF Count
  <2>14. Count(r, "FAILED")' = f
    <3>1. PICK T : T = {c \in CheckIds : results'[r][c] = "FAILED"}
      OBVIOUS
    <3>2. PICK a \in Nat : a = p + 1
      BY <2>7
    <3>3. T = Stretch(v, a, m)
      BY <2>4, <2>7, <2>10, <2>12, <3>1, <3>2 DEF Stretch
    <3>4. \A i, j \in a..m : v[i] = v[j] => i = j
      BY <2>4, <2>7, <2>12, <3>2
    <3>5. a <= m + 1 /\ (m - a) + 1 = f
      BY <2>7, <2>12, <3>2
    <3>6. Cardinality(T) = (m - a) + 1
      BY <3>3, <3>4, <3>5, StretchCount
    <3>7. QED
      BY <3>1, <3>5, <3>6 DEF Count
  <2>15. Count(r, "SKIPPED")' = n - m
    <3>1. PICK T : T = {c \in CheckIds : results'[r][c] = "SKIPPED"}
      OBVIOUS
    <3>2. PICK a \in Nat : a = m + 1
      OBVIOUS
    <3>3. T = Stretch(v, a, n)
      BY <2>4, <2>7, <2>11, <2>12, <3>1, <3>2 DEF Stretch
    <3>4. \A i, j \in a..n : v[i] = v[j] => i = j
      BY <2>4, <2>7, <2>12, <3>2
    <3>5. n \in Nat /\ a <= n + 1 /\ (n - a) + 1 = n - m
      BY <2>4, <2>7, <2>12, <3>2
    <3>6. Cardinality(T) = (n - a) + 1
      BY <3>3, <3>4, <3>5, StretchCount
    <3>7. QED
      BY <3>1, <3>5, <3>6 DEF Count
  <2>16. p + f + (n - m) = n
    BY <2>4, <2>7, <2>12
  <2>17. QED
    BY <1>1, <1>2, <1>4, <2>5, <2>6, <2>7, <2>13, <2>14, <2>15, <2>16 DEF SuiteCounted
<1>5. QED
  BY <1>3, <1>4

LEMMA CountedStep ==
  ASSUME TypeOK, Counted, [Next]_vars
  PROVE  Counted'
<1> SUFFICES ASSUME NEW q \in Runs PROVE SuiteCounted(q)' /\ AllCounted(q)'
  BY DEF Counted
<1>0. /\ SuiteCounted(q) /\ AllCounted(q) /\ edited[q] \in BOOLEAN
      /\ phase[q] # "none" => key[q] \in Keys
      /\ phase[q] = "none" => edited[q] = FALSE
  BY DEF Counted, SuiteCounted, TypeOK
<1>1. ASSUME NEW r \in Runs, NEW k \in Keys, Accept(r, k)
      PROVE  SuiteCounted(q)' /\ AllCounted(q)'
  <2>1. CASE q = r
    BY <1>0, <1>1, <2>1, CountedAccept
  <2>2. CASE q # r
    BY <1>0, <1>1, <2>2, TotalsKeep DEF Accept, TypeOK, recordVars, bodyVars, storeVars
  <2>3. QED
    BY <2>1, <2>2
<1>2. ASSUME NEW r \in Runs, Create(r)
      PROVE  SuiteCounted(q)' /\ AllCounted(q)'
  <2>1. CASE q = r
    BY <1>0, <1>2, <2>1, CountedCreate
  <2>2. CASE q # r
    BY <1>0, <1>2, <2>2, TotalsKeep DEF Create, TypeOK, bodyVars, storeVars
  <2>3. QED
    BY <2>1, <2>2
<1>3. ASSUME NEW r \in Runs, Start(r)
      PROVE  SuiteCounted(q)' /\ AllCounted(q)'
  <2>1. CASE q = r
    BY <1>0, <1>3, <2>1, CountedStart
  <2>2. CASE q # r
    BY <1>0, <1>3, <2>2, TotalsKeep DEF Start, Execute, TypeOK, recordVars, storeVars
  <2>3. QED
    BY <2>1, <2>2
<1>4. ASSUME NEW r \in Runs, CheckStart(r)
      PROVE  SuiteCounted(q)' /\ AllCounted(q)'
  <2>1. CASE q = r
    BY <1>0, <1>4, <2>1, CountedCheckStart
  <2>2. CASE q # r
    BY <1>0, <1>4, <2>2, TotalsKeep DEF CheckStart, Record, TypeOK, bodyVars, storeVars
  <2>3. QED
    BY <2>1, <2>2
<1>5. ASSUME NEW r \in Runs, CheckPassed(r)
      PROVE  SuiteCounted(q)' /\ AllCounted(q)'
  <2>1. CASE q = r
    BY <1>0, <1>5, <2>1, CountedCheckPassed
  <2>2. CASE q # r
    <3>1. Proceed(r) => /\ phase'[q] = phase[q] /\ left'[q] = left[q] /\ later'[q] = later[q]
                        /\ err'[q] = err[q]
      <4>1. CASE Tail(left[r]) # <<>>
        BY <2>2, <4>1 DEF Proceed, Execute, TypeOK
      <4>2. CASE Tail(left[r]) = <<>> /\ later[r] # <<>>
        BY <2>2, <4>2 DEF Proceed, Execute, TypeOK
      <4>3. CASE Tail(left[r]) = <<>> /\ later[r] = <<>>
        BY <2>2, <4>3 DEF Proceed, TypeOK, bodyVars
      <4>4. QED
        BY <4>1, <4>2, <4>3
    <3>2. /\ results'[q] = results[q] /\ passed'[q] = passed[q]
          /\ UNCHANGED <<items, key, total, failed, status, edited>>
          /\ Proceed(r)
      BY <1>5, <2>2 DEF CheckPassed, Record, TypeOK, storeVars
    <3>3. QED
      BY <1>0, <3>1, <3>2, TotalsKeep
  <2>3. QED
    BY <2>1, <2>2
<1>6. ASSUME NEW r \in Runs, CheckFailed(r)
      PROVE  SuiteCounted(q)' /\ AllCounted(q)'
  <2>1. CASE q = r
    BY <1>0, <1>6, <2>1, CountedCheckFailed
  <2>2. CASE q # r
    BY <1>0, <1>6, <2>2, TotalsKeep DEF CheckFailed, Record, TypeOK, storeVars
  <2>3. QED
    BY <2>1, <2>2
<1>7. ASSUME NEW r \in Runs, Finish(r)
      PROVE  SuiteCounted(q)' /\ AllCounted(q)'
  <2>1. CASE q = r
    BY <1>0, <1>7, <2>1, CountedFinish
  <2>2. CASE q # r
    BY <1>0, <1>7, <2>2, TotalsKeep DEF Finish, TypeOK, bodyVars, storeVars
  <2>3. QED
    BY <2>1, <2>2
<1>8. CASE Edit
  <2>1. /\ edited'[q] \in BOOLEAN
        /\ edited[q] = TRUE => edited'[q] = TRUE
        /\ phase[q] = "none" => edited'[q] = edited[q]
        /\ UNCHANGED <<phase, key, recordVars, bodyVars>>
    BY <1>0, <1>8 DEF Edit
  <2>2. \/ edited'[q] = TRUE \/ phase[q] \in {"none", "finished", "dead"}
        \/ key[q] \in Customs => items'[key[q]] = items[key[q]]
    BY <1>0, <1>8 DEF Edit
  <2>3. QED
    BY <1>0, <2>1, <2>2, TotalsKeep DEF recordVars, bodyVars
<1>9. CASE Restart
  <2>1. /\ \/ phase'[q] = "dead" /\ phase[q] # "none"
           \/ phase'[q] = phase[q] /\ phase[q] \in {"none", "finished"}
        /\ UNCHANGED <<key, recordVars, bodyVars, edited>>
    BY <1>9 DEF Restart, TypeOK
  <2>2. QED
    BY <1>0, <2>1, TotalsKeep DEF recordVars, bodyVars
<1>10. CASE UNCHANGED vars
  BY <1>0, <1>10, TotalsKeep DEF vars, runVars, recordVars, bodyVars, storeVars
<1>11. QED
  BY <1>1, <1>2, <1>3, <1>4, <1>5, <1>6, <1>7, <1>8, <1>9, <1>10 DEF Next, RunStep

\* For every catalogue in which "all" runs each suite once, counters, results and
\* the number of checks announced agree in a finished run: of a single suite, of a
\* scenario nobody edited since, and of an "all" run that passed (newRun,
\* checkStart to checkFail, finalizeChecks).
THEOREM TotalsAreRight == Spec => []TotalsAddUp
<1>1. TypeOK /\ Counted => TotalsAddUp
  <2> SUFFICES ASSUME TypeOK, Counted, NEW r \in Runs, phase[r] = "finished"
               PROVE  /\ key[r] # All /\ ~edited[r] =>
                           /\ Count(r, "PASSED") = passed[r] /\ Count(r, "FAILED") = failed[r]
                           /\ passed[r] + failed[r] + Count(r, "SKIPPED") = total[r]
                      /\ key[r] = All /\ status[r] = "PASSED" => passed[r] = total[r]
    BY DEF TotalsAddUp
  <2>1. SuiteCounted(r) /\ AllCounted(r) /\ edited[r] \in BOOLEAN
    BY DEF Counted, TypeOK
  <2>2. QED
    BY <2>1 DEF SuiteCounted, AllCounted
<1>2. QED
  BY <1>1, CountedInit, CountedStep, TypeCorrect, PTL DEF Spec

=============================================================================
