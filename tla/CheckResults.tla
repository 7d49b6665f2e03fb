---------------------------- MODULE CheckResults ----------------------------
(***************************************************************************)
(* What a test run records of its checks (pkg/runner/runner.go,            *)
(* pkg/runner/scenario_runner.go): a built-in suite, all of them under the *)
(* key "all", or a custom scenario that users may edit or delete meanwhile *)
(* (ScenarioStore).  Every built-in suite has the same control: its checks *)
(* come in a fixed order, and the first that fails ends the suite.         *)
(*                                                                         *)
(* When a run is executed is left open, as a run of a batch waits for      *)
(* those before it (RunHistory).  Messages, events and durations are left  *)
(* out, and so is whether a check passes.                                  *)
(***************************************************************************)
EXTENDS ScenarioStore, FiniteSets

CONSTANTS Suites, ChecksOf,  \* the built-in suites and their check IDs, in order
          Order,             \* the order in which "all" executes the suites
          All,
          CheckIds, Runs,
          MaxRestarts        \* bound on restarts

ASSUME ResultsAssumption ==
  /\ IsFiniteSet(Suites) /\ ChecksOf \in [Suites -> Seq(CheckIds) \ {<<>>}]
  /\ \A s \in Suites : \A i, j \in DOMAIN ChecksOf[s] :
       ChecksOf[s][i] = ChecksOf[s][j] => i = j
  /\ Order \in Seq(Suites) \ {<<>>}
  /\ StepLists \subseteq Seq(CheckIds)
  /\ All \notin Suites \cup Customs /\ Suites \cap Customs = {}
  /\ None \notin Suites \cup Customs \cup {All, "RUNNING", "PASSED", "FAILED", "SKIPPED"}
  /\ MaxRestarts \in Nat

\* "all" executes every registered suite, each once.
ASSUME OrderAssumption ==
  /\ \A s \in Suites : \E i \in DOMAIN Order : Order[i] = s
  /\ \A i, j \in DOMAIN Order : Order[i] = Order[j] => i = j

VARIABLES
  phase,    \* how far the run is; between two checks or at one
  key,      \* TestRun.SuiteKey
  total,    \* TotalChecks
  passed,   \* PassedChecks
  failed,   \* FailedChecks
  results,  \* Results: per check ID its status, or None
  status,   \* Status
  suite,    \* the suite under way
  left,     \* its checks to go, the one at hand first
  later,    \* the suites "all" has still to run
  err,      \* the suite returned an error
  ran,      \* the checks begun, as <<suite, check>> (history)
  edited,   \* the scenario changed since the run was accepted (history)
  restarts

recordVars == <<total, passed, failed, results, status>>
bodyVars == <<suite, left, later, err>>
runVars == <<phase, key, recordVars, bodyVars, ran, edited>>
vars == <<storeVars, runVars, restarts>>

Keys == Suites \cup {All} \cup Customs

TypeOK ==
  /\ StoreTypeOK
  /\ phase \in [Runs -> {"none", "accepted", "queued", "between", "checking",
                         "ending", "finished", "dead"}]
  /\ key \in [Runs -> Keys \cup {None}]
  /\ total \in [Runs -> Nat] /\ passed \in [Runs -> Nat] /\ failed \in [Runs -> Nat]
  /\ results \in [Runs -> [CheckIds -> {None, "RUNNING", "PASSED", "FAILED", "SKIPPED"}]]
  /\ status \in [Runs -> {"RUNNING", "PASSED", "FAILED"}]
  /\ suite \in [Runs -> Keys \cup {None}]
  /\ left \in [Runs -> Seq(CheckIds)] /\ later \in [Runs -> Seq(Suites)]
  /\ \A r \in Runs :
       /\ phase[r] # "none" => key[r] \in Keys
       /\ phase[r] \in {"between", "checking"} => suite[r] \in Keys /\ left[r] # <<>>
  /\ err \in [Runs -> BOOLEAN] /\ edited \in [Runs -> BOOLEAN]
  /\ ran \in [Runs -> Seq(Keys \X CheckIds)]
  /\ restarts \in 0..MaxRestarts

-----------------------------------------------------------------------------

Init ==
  /\ StoreInit
  /\ phase = [r \in Runs |-> "none"]
  /\ key = [r \in Runs |-> None]
  /\ total = [r \in Runs |-> 0]
  /\ passed = [r \in Runs |-> 0]
  /\ failed = [r \in Runs |-> 0]
  /\ results = [r \in Runs |-> [c \in CheckIds |-> None]]
  /\ status = [r \in Runs |-> "RUNNING"]
  /\ suite = [r \in Runs |-> None]
  /\ left = [r \in Runs |-> <<>>]
  /\ later = [r \in Runs |-> <<>>]
  /\ err = [r \in Runs |-> FALSE]
  /\ ran = [r \in Runs |-> <<>>]
  /\ edited = [r \in Runs |-> FALSE]
  /\ restarts = 0

Elements(s) == {s[i] : i \in DOMAIN s}

TotalChecks(k) ==
  CASE k = All      -> Cardinality(UNION {{s} \X DOMAIN ChecksOf[s] : s \in Suites})
    [] k \in Suites -> Len(ChecksOf[k])
    [] OTHER        -> IF items[k] = None THEN 0 ELSE Len(items[k])

\* isValidSuiteKey.
Accept(r, k) ==
  /\ phase[r] = "none"
  /\ k \in Customs => items[k] # None
  /\ phase' = [phase EXCEPT ![r] = "accepted"]
  /\ key' = [key EXCEPT ![r] = k]
  /\ UNCHANGED <<storeVars, recordVars, bodyVars, ran, edited, restarts>>

\* newRun, which counts the checks of what the store holds by then.
Create(r) ==
  /\ phase[r] = "accepted"
  /\ phase' = [phase EXCEPT ![r] = "queued"]
  /\ total' = [total EXCEPT ![r] = TotalChecks(key[r])]
  /\ UNCHANGED <<storeVars, key, passed, failed, results, status, bodyVars, ran,
                 edited, restarts>>

Execute(r, s, checks, suites) ==
  /\ phase' = [phase EXCEPT ![r] = "between"]
  /\ suite' = [suite EXCEPT ![r] = s]
  /\ left' = [left EXCEPT ![r] = checks]
  /\ later' = [later EXCEPT ![r] = suites]
  /\ UNCHANGED err

Start_needsScenario(r) ==
  /\ phase[r] = "queued"
  /\ \/ key[r] \in Suites /\ Execute(r, key[r], ChecksOf[key[r]], <<>>)
     \/ key[r] = All /\ Execute(r, Head(Order), ChecksOf[Head(Order)], Tail(Order))
     \/ /\ key[r] \in Customs /\ items[key[r]] # None
        /\ Execute(r, key[r], items[key[r]], <<>>)
  /\ UNCHANGED <<storeVars, key, recordVars, ran, edited, restarts>>

\* executeSuite; runUserScenario takes a copy of the scenario, which may be gone.
Start(r) ==
  /\ phase[r] = "queued"
  /\ \/ key[r] \in Suites /\ Execute(r, key[r], ChecksOf[key[r]], <<>>)
     \/ key[r] = All /\ Execute(r, Head(Order), ChecksOf[Head(Order)], Tail(Order))
     \/ /\ key[r] \in Customs /\ items[key[r]] # None
        /\ Execute(r, key[r], items[key[r]], <<>>)
     \/ /\ key[r] \in Customs /\ items[key[r]] = None
        /\ phase' = [phase EXCEPT ![r] = "ending"]
        /\ err' = [err EXCEPT ![r] = TRUE]
        /\ UNCHANGED <<suite, left, later>>
  /\ UNCHANGED <<storeVars, key, recordVars, ran, edited, restarts>>

Record(r, c, s) == results' = [results EXCEPT ![r][c] = s]

\* checkStart: results are kept by check ID alone, whatever the suite.
CheckStart(r) ==
  /\ phase[r] = "between"
  /\ phase' = [phase EXCEPT ![r] = "checking"]
  /\ Record(r, Head(left[r]), "RUNNING")
  /\ ran' = [ran EXCEPT ![r] = Append(@, <<suite[r], Head(left[r])>>)]
  /\ UNCHANGED <<storeVars, key, total, passed, failed, status, bodyVars, edited, restarts>>

Proceed_sameSuite(r) ==
  IF Tail(left[r]) # <<>> \/ later[r] # <<>>
  THEN Execute(r, suite[r], Tail(left[r]), later[r])
  ELSE phase' = [phase EXCEPT ![r] = "ending"] /\ UNCHANGED bodyVars

Proceed_rereads(r) ==
  LET n == Len(ran[r])
      now == IF key[r] \in Customs THEN items[key[r]] ELSE None
      rest == IF now # None THEN SubSeq(now, n + 1, Len(now)) ELSE Tail(left[r])
  IN IF rest # <<>> THEN Execute(r, suite[r], rest, later[r])
     ELSE IF later[r] # <<>>
     THEN Execute(r, Head(later[r]), ChecksOf[Head(later[r])], Tail(later[r]))
     ELSE phase' = [phase EXCEPT ![r] = "ending"] /\ UNCHANGED bodyVars

\* After the last check of a suite "all" turns to the next one.
Proceed(r) ==
  CASE Tail(left[r]) # <<>> -> Execute(r, suite[r], Tail(left[r]), later[r])
    [] Tail(left[r]) = <<>> /\ later[r] # <<>> ->
         Execute(r, Head(later[r]), ChecksOf[Head(later[r])], Tail(later[r]))
    [] OTHER -> /\ phase' = [phase EXCEPT ![r] = "ending"]
                /\ UNCHANGED bodyVars

CheckPassed(r) ==
  /\ phase[r] = "checking"
  /\ Record(r, Head(left[r]), "PASSED")
  /\ passed' = [passed EXCEPT ![r] = @ + 1]
  /\ Proceed(r)
  /\ UNCHANGED <<storeVars, key, total, failed, status, ran, edited, restarts>>

CheckFailed_nextSuite(r) ==
  /\ phase[r] = "checking"
  /\ Record(r, Head(left[r]), "FAILED")
  /\ failed' = [failed EXCEPT ![r] = @ + 1]
  /\ IF later[r] = <<>>
     THEN /\ phase' = [phase EXCEPT ![r] = "ending"]
          /\ err' = [err EXCEPT ![r] = TRUE]
          /\ UNCHANGED <<suite, left, later>>
     ELSE Execute(r, Head(later[r]), ChecksOf[Head(later[r])], Tail(later[r]))
  /\ UNCHANGED <<storeVars, key, total, passed, status, ran, edited, restarts>>

CheckFailed(r) ==
  /\ phase[r] = "checking"
  /\ Record(r, Head(left[r]), "FAILED")
  /\ failed' = [failed EXCEPT ![r] = @ + 1]
  /\ phase' = [phase EXCEPT ![r] = "ending"]
  /\ err' = [err EXCEPT ![r] = TRUE]
  /\ UNCHANGED <<storeVars, key, total, passed, status, suite, left, later, ran, edited,
                 restarts>>

\* The checks finalizeChecks looks at: for a scenario those it has now.
ToFinalize(k) ==
  CASE k = All      -> UNION {Elements(ChecksOf[s]) : s \in Suites}
    [] k \in Suites -> Elements(ChecksOf[k])
    [] OTHER        -> IF items[k] = None THEN {} ELSE Elements(items[k])

Finalized_runningOnly(r) ==
  [c \in CheckIds |->
     IF c \in ToFinalize(key[r]) /\ results[r][c] = "RUNNING" THEN "SKIPPED" ELSE results[r][c]]

\* finalizeChecks: what did not come to an end is skipped.
Finalized(r) ==
  [c \in CheckIds |->
     IF c \in ToFinalize(key[r]) /\ results[r][c] \in {None, "RUNNING"}
     THEN "SKIPPED" ELSE results[r][c]]

\* The end of executeSuite.
Finish(r) ==
  /\ phase[r] = "ending"
  /\ phase' = [phase EXCEPT ![r] = "finished"]
  /\ results' = [results EXCEPT ![r] = Finalized(r)]
  /\ status' = [status EXCEPT ![r] = IF err[r] THEN "FAILED" ELSE "PASSED"]
  /\ UNCHANGED <<storeVars, key, total, passed, failed, bodyVars, ran, edited, restarts>>

-----------------------------------------------------------------------------

\* Users create, change and delete scenarios at any time.
Edit ==
  /\ StoreStep
  /\ edited' = [r \in Runs |->
       \/ edited[r]
       \/ /\ phase[r] \notin {"none", "finished", "dead"} /\ key[r] \in Customs
          /\ items'[key[r]] # items[key[r]]]
  /\ UNCHANGED <<phase, key, recordVars, bodyVars, ran, restarts>>

\* The process dies: its runs are gone, the scenarios are read back.
Restart ==
  /\ restarts < MaxRestarts
  /\ restarts' = restarts + 1
  /\ Reload
  /\ phase' = [r \in Runs |-> IF phase[r] \in {"none", "finished"} THEN phase[r] ELSE "dead"]
  /\ UNCHANGED <<key, recordVars, bodyVars, ran, edited>>

RunStep(r) ==
  \/ Create(r) \/ Start(r)
  \/ CheckStart(r) \/ CheckPassed(r) \/ CheckFailed(r)
  \/ Finish(r)

Next == \/ \E r \in Runs, k \in Keys : Accept(r, k)
        \/ \E r \in Runs : RunStep(r)
        \/ Edit
        \/ Restart

Spec == Init /\ [][Next]_vars
FairSpec == Spec /\ \A r \in Runs : WF_vars(RunStep(r))

-----------------------------------------------------------------------------
(* Properties.                                                             *)

Count(r, s) == Cardinality({c \in CheckIds : results[r][c] = s})

\* The verdict of a finished run agrees with its checks: it passed exactly if no
\* check is recorded as failed, and then nothing of what it began is recorded
\* as anything but passed; a scenario that was gone when its turn came is the
\* one failure without a failed check.
VerdictMatchesChecks ==
  \A r \in Runs : phase[r] = "finished" =>
    /\ status[r] = "PASSED" =>
         failed[r] = 0 /\ \A i \in DOMAIN ran[r] : results[r][ran[r][i][2]] = "PASSED"
    /\ status[r] = "FAILED" =>
         \/ failed[r] = 1 /\ Count(r, "FAILED") = 1
         \/ key[r] \in Customs /\ ran[r] = <<>> /\ edited[r]

\* Counters, results and the number of checks announced when the run was
\* created agree in the end, for a single suite and for a scenario that was not
\* edited since its run was accepted.  An "all" run that passed has passed every check.
TotalsAddUp ==
  \A r \in Runs : phase[r] = "finished" =>
    /\ key[r] # All /\ ~edited[r] =>
         /\ Count(r, "PASSED") = passed[r] /\ Count(r, "FAILED") = failed[r]
         /\ passed[r] + failed[r] + Count(r, "SKIPPED") = total[r]
    /\ key[r] = All /\ status[r] = "PASSED" => passed[r] = total[r]

\* A custom run executes one version of its scenario from the start, however
\* often the scenario is edited or deleted under it.
RunsOneVersion ==
  \A r \in Runs : key[r] \in Customs =>
    ran[r] = <<>> \/ \E s \in StepLists :
      Len(ran[r]) <= Len(s) /\ \A i \in DOMAIN ran[r] : ran[r][i] = <<key[r], s[i]>>

\* A restart brings back every scenario as it was: none is in memory only.
ScenariosAreStored == \A k \in Customs : items[k] # None => files[k] = items[k]

\* An accepted run is executed to its end, even if its scenario is deleted.
AcceptedRunEnds ==
  \A r \in Runs : phase[r] = "accepted" ~> phase[r] \in {"finished", "dead"}

\* "finalizeChecks downgrades every leftover RUNNING or missing check to
\* SKIPPED for both built-in suites and user-defined scenarios"
\* (runner.go:538): a check of a suite that the run never began is not PASSED.
LeftoversAreSkipped ==
  \A r \in Runs : phase[r] = "finished" /\ key[r] \in Suites \cup {All} =>
    \A s \in (IF key[r] = All THEN Suites ELSE {key[r]}) : \A c \in Elements(ChecksOf[s]) :
      <<s, c>> \notin Elements(ran[r]) => results[r][c] # "PASSED"

=============================================================================
