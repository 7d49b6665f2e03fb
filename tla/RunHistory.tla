------------------------------ MODULE RunHistory ------------------------------
(***************************************************************************)
(* The life of a test run from the HTTP request to its file on disk:       *)
(* handleRuns and the batch digest (pkg/server/server.go), registration,   *)
(* execution, filing and persistence in the orchestrator                   *)
(* (pkg/runner/runner.go) and the history store                            *)
(* (pkg/runner/history_store.go), with the process dying and restarting at *)
(* any point.  What a suite does while it runs is abstracted to its        *)
(* outcome.                                                                *)
(*                                                                         *)
(* A request posts a sequence of suite keys, each of which becomes a run:  *)
(* one key through RunSuite, several through RunSuites or, in a regression *)
(* or webhook batch, RunSuitesGroup.  Requests run concurrently; the runs  *)
(* of one request follow one another.                                      *)
(***************************************************************************)
EXTENDS Naturals, Sequences, FiniteSets

CONSTANTS Requests, Runs,
          Batch,          \* per request, its runs in the order of its keys
          Grouped,        \* the regression and webhook requests
          MaxStoredRuns,
          MaxRestarts     \* bound on process restarts

ASSUME RunAssumption ==
  /\ Batch \in [Requests -> Seq(Runs)]
  /\ \A q \in Requests : Batch[q] # <<>>
  /\ \A p, q \in Requests : \A i \in DOMAIN Batch[p], j \in DOMAIN Batch[q] :
        Batch[p][i] = Batch[q][j] => p = q /\ i = j
  /\ Grouped \subseteq Requests
  /\ IsFiniteSet(Runs)
  /\ MaxStoredRuns \in Nat \ {0}
  /\ MaxRestarts \in Nat

VARIABLES
  pc,        \* where the goroutine that serves a request is
  cur,       \* the run of the batch it is at (executeRuns' loop)
  status,    \* TestRun.Status of the runs in memory
  born,      \* TestRun.StartTime as a rank; 0 before the run is made
  active,    \* TestOrchestrator.activeRuns
  history,   \* TestOrchestrator.history, newest entry first
  pending,   \* groupTracker.pending; 0 where the group is unknown
  snaps,     \* groupTracker.runs: the finished runs of a group
  persist,   \* the goroutine that persists a run
  files,     \* <DataDir>/runs/<id>.json: the stored status
  tmps,      \* the runs whose .tmp file exists
  unpruned,  \* runs saved since the last Prune that met no error (history)
  digests,   \* digests sent for a request (history)
  alerts,    \* runs a failure alert was sent for (history)
  restarts

runVars == <<status, born, active, history>>
trackerVars == <<pending, snaps, digests, alerts>>
diskVars == <<persist, files, tmps, unpruned>>
vars == <<pc, cur, runVars, trackerVars, diskVars, restarts>>

Finals == {"PASSED", "FAILED"}
RequestStates == {"idle", "registered", "running", "settled", "filed",
                  "done", "rejected", "lost"}
PersistStates == {"none", "queued", "writing", "saved", "done", "failed", "killed"}

TypeOK ==
  /\ pc \in [Requests -> RequestStates]
  /\ cur \in [Requests -> Nat]
  /\ status \in [Runs -> Finals \cup {"none", "RUNNING"}]
  /\ born \in [Runs -> Nat]
  /\ active \subseteq Runs
  /\ history \in Seq(Runs)
  /\ pending \in [Requests -> Nat]
  /\ snaps \in [Requests -> Seq(Runs \X Finals)]
  /\ persist \in [Runs -> PersistStates]
  /\ files \in [Runs -> Finals \cup {"none"}]
  /\ tmps \subseteq Runs
  /\ unpruned \subseteq Runs
  /\ digests \in [Requests -> Seq(Seq(Runs \X Finals))]
  /\ alerts \subseteq Runs
  /\ restarts \in 0..MaxRestarts

Init ==
  /\ pc = [q \in Requests |-> "idle"]
  /\ cur = [q \in Requests |-> 0]
  /\ status = [r \in Runs |-> "none"]
  /\ born = [r \in Runs |-> 0]
  /\ active = {}
  /\ history = <<>>
  /\ pending = [q \in Requests |-> 0]
  /\ snaps = [q \in Requests |-> <<>>]
  /\ persist = [r \in Runs |-> "none"]
  /\ files = [r \in Runs |-> "none"]
  /\ tmps = {}
  /\ unpruned = {}
  /\ digests = [q \in Requests |-> <<>>]
  /\ alerts = {}
  /\ restarts = 0

RunsOf(q) == {Batch[q][i] : i \in DOMAIN Batch[q]}
Current(q) == Batch[q][cur[q]]
Stored == {r \in Runs : files[r] # "none"}
Created == {r \in Runs : born[r] > 0}
Filed == {history[i] : i \in DOMAIN history}

\* The n members of S that started last.
Newest_first(S, n) == {r \in S : Cardinality({s \in S : born[s] < born[r]}) < n}
Newest(S, n) == {r \in S : Cardinality({s \in S : born[s] > born[r]}) < n}

-----------------------------------------------------------------------------
(* handleRuns, RunSuite, RunSuites, RunSuitesGroup.                        *)

\* groupTracker.register: the batch is expected before any of its runs exists.
Register(q) ==
  /\ q \in Grouped /\ pc[q] = "idle"
  /\ pc' = [pc EXCEPT ![q] = "registered"]
  /\ pending' = [pending EXCEPT ![q] = Len(Batch[q])]
  /\ UNCHANGED <<cur, runVars, snaps, digests, alerts, diskVars, restarts>>

ReadyToLaunch(q) == pc[q] = IF q \in Grouped THEN "registered" ELSE "idle"

\* Some key is unknown: no run is made, and the group is discarded.
Reject_keepsGroup(q) ==
  /\ ReadyToLaunch(q)
  /\ pc' = [pc EXCEPT ![q] = "rejected"]
  /\ UNCHANGED <<cur, runVars, trackerVars, diskVars, restarts>>

Reject(q) ==
  /\ ReadyToLaunch(q)
  /\ pc' = [pc EXCEPT ![q] = "rejected"]
  /\ pending' = [pending EXCEPT ![q] = 0]
  /\ UNCHANGED <<cur, runVars, snaps, digests, alerts, diskVars, restarts>>

\* All keys are known: every run of the request is made and active at once.
Launch(q) ==
  /\ ReadyToLaunch(q)
  /\ pc' = [pc EXCEPT ![q] = "running"]
  /\ cur' = [cur EXCEPT ![q] = 1]
  /\ status' = [r \in Runs |-> IF r \in RunsOf(q) THEN "RUNNING" ELSE status[r]]
  /\ born' = [r \in Runs |->
       IF r \in RunsOf(q)
       THEN Cardinality(Created) + (CHOOSE i \in DOMAIN Batch[q] : Batch[q][i] = r)
       ELSE born[r]]
  /\ active' = active \cup RunsOf(q)
  /\ UNCHANGED <<history, trackerVars, diskVars, restarts>>

-----------------------------------------------------------------------------
(* executeSuite of the current run.                                        *)

Settle_forgetsFailure(q) ==
  /\ pc[q] = "running"
  /\ \E outcome \in {"PASSED", "RUNNING"} : status' = [status EXCEPT ![Current(q)] = outcome]
  /\ pc' = [pc EXCEPT ![q] = "settled"]
  /\ UNCHANGED <<cur, born, active, history, trackerVars, diskVars, restarts>>

\* The suite is over: outcome and end time are set on the still active run.
Settle(q) ==
  /\ pc[q] = "running"
  /\ \E outcome \in Finals : status' = [status EXCEPT ![Current(q)] = outcome]
  /\ pc' = [pc EXCEPT ![q] = "settled"]
  /\ UNCHANGED <<cur, born, active, history, trackerVars, diskVars, restarts>>

Cap(h) == SubSeq(h, 1, IF Len(h) > MaxStoredRuns THEN MaxStoredRuns ELSE Len(h))

File_capTooEarly(q) ==
  /\ pc[q] = "settled"
  /\ active' = active \ {Current(q)}
  /\ LET longer == <<Current(q)>> \o history IN
       history' = SubSeq(longer, 1, IF Len(longer) >= MaxStoredRuns THEN MaxStoredRuns - 1
                                    ELSE Len(longer))
  /\ persist' = [persist EXCEPT ![Current(q)] = "queued"]
  /\ pc' = [pc EXCEPT ![q] = "filed"]
  /\ UNCHANGED <<cur, status, born, trackerVars, files, tmps, unpruned, restarts>>

\* Under one lock the run moves from activeRuns to the head of the capped
\* history; then its persist goroutine is started.
File(q) ==
  /\ pc[q] = "settled"
  /\ active' = active \ {Current(q)}
  /\ history' = Cap(<<Current(q)>> \o history)
  /\ persist' = [persist EXCEPT ![Current(q)] = "queued"]
  /\ pc' = [pc EXCEPT ![q] = "filed"]
  /\ UNCHANGED <<cur, status, born, trackerVars, files, tmps, unpruned, restarts>>

Snapshot(q) == <<Current(q), status[Current(q)]>>

\* groupTracker.finish: the last pending run of the group yields its digest.
FinishInGroup(q) ==
  /\ q \in Grouped /\ pending[q] > 0
  /\ pending' = [pending EXCEPT ![q] = @ - 1]
  /\ \/ /\ pending[q] > 1
        /\ snaps' = [snaps EXCEPT ![q] = Append(@, Snapshot(q))]
        /\ UNCHANGED digests
     \/ /\ pending[q] = 1
        /\ digests' = [digests EXCEPT ![q] = Append(@, Append(snaps[q], Snapshot(q)))]
        /\ snaps' = [snaps EXCEPT ![q] = <<>>]
  /\ UNCHANGED alerts

\* A manual run alerts on its own, and only when it failed.
AlertAlone(q) ==
  /\ q \notin Grouped
  /\ alerts' = alerts \cup {r \in {Current(q)} : status[r] = "FAILED"}
  /\ UNCHANGED <<pending, snaps, digests>>

\* The loop of executeRuns goes on with the next run of the request.
Advance(q) ==
  /\ cur' = [cur EXCEPT ![q] = @ + 1]
  /\ pc' = [pc EXCEPT ![q] = IF cur[q] < Len(Batch[q]) THEN "running" ELSE "done"]

Report_stopsEarly(q) ==
  /\ pc[q] = "filed"
  /\ FinishInGroup(q) \/ AlertAlone(q)
  /\ cur' = [cur EXCEPT ![q] = @ + 1]
  /\ pc' = [pc EXCEPT ![q] = IF status[Current(q)] = "PASSED" /\ cur[q] < Len(Batch[q])
                             THEN "running" ELSE "done"]
  /\ UNCHANGED <<runVars, diskVars, restarts>>

Report_forgetsFailed(q) ==
  /\ pc[q] = "filed"
  /\ \/ FinishInGroup(q)
     \/ AlertAlone(q)
     \/ status[Current(q)] = "FAILED" /\ UNCHANGED trackerVars
  /\ Advance(q)
  /\ UNCHANGED <<runVars, diskVars, restarts>>

\* OnRunFinished, in the goroutine that executed the run.
Report(q) ==
  /\ pc[q] = "filed"
  /\ FinishInGroup(q) \/ AlertAlone(q)
  /\ Advance(q)
  /\ UNCHANGED <<runVars, diskVars, restarts>>

-----------------------------------------------------------------------------
(* persistRun: Save and Prune hold the store's mutex, not one across both. *)

NobodyWrites == \A r \in Runs : persist[r] # "writing"

WriteTmp(r) ==
  /\ persist[r] = "queued" /\ NobodyWrites
  /\ tmps' = tmps \cup {r}
  /\ persist' = [persist EXCEPT ![r] = "writing"]
  /\ UNCHANGED <<pc, cur, runVars, trackerVars, files, unpruned, restarts>>

Rename_keepsLock(r) ==
  /\ persist[r] = "writing" /\ r \in tmps
  /\ tmps' = tmps \ {r}
  /\ files' = [files EXCEPT ![r] = status[r]]
  /\ unpruned' = unpruned \cup {r}
  /\ UNCHANGED <<pc, cur, runVars, trackerVars, persist, restarts>>

Rename(r) ==
  /\ persist[r] = "writing" /\ r \in tmps
  /\ tmps' = tmps \ {r}
  /\ files' = [files EXCEPT ![r] = status[r]]
  /\ unpruned' = unpruned \cup {r}
  /\ persist' = [persist EXCEPT ![r] = "saved"]
  /\ UNCHANGED <<pc, cur, runVars, trackerVars, restarts>>

\* The write fails and may leave its .tmp, or the rename fails, which removes the
\* .tmp if that succeeds.
SaveFails(r) ==
  /\ \/ persist[r] = "queued" /\ NobodyWrites /\ tmps' \in {tmps, tmps \cup {r}}
     \/ persist[r] = "writing" /\ tmps' \in {tmps, tmps \ {r}}
  /\ persist' = [persist EXCEPT ![r] = "failed"]
  /\ UNCHANGED <<pc, cur, runVars, trackerVars, files, unpruned, restarts>>

\* Where the directory can be listed every .tmp is to go, and every file of
\* surplus; what cannot be removed stays.
PruneFiles(readable, surplus) ==
  \E gone \in SUBSET surplus :
    /\ files' = [s \in Runs |-> IF s \in gone THEN "none" ELSE files[s]]
    /\ unpruned' = IF readable = Stored /\ gone = surplus THEN {} ELSE unpruned
    /\ tmps' \in SUBSET tmps

Prune_unlocked(r) ==
  /\ persist[r] = "saved"
  /\ \E readable \in SUBSET Stored :
       PruneFiles(readable, readable \ Newest(readable, MaxStoredRuns))
  /\ persist' = [persist EXCEPT ![r] = "done"]
  /\ UNCHANGED <<pc, cur, runVars, trackerVars, restarts>>

Prune_offByOne(r) ==
  /\ persist[r] = "saved" /\ NobodyWrites
  /\ \E readable \in SUBSET Stored :
       PruneFiles(readable, IF Cardinality(readable) <= MaxStoredRuns + 1 THEN {}
                            ELSE readable \ Newest(readable, MaxStoredRuns))
  /\ persist' = [persist EXCEPT ![r] = "done"]
  /\ UNCHANGED <<pc, cur, runVars, trackerVars, restarts>>

\* Prune: of the runs whose files can be read, none if the directory cannot be,
\* all but the last started are surplus.
Prune(r) ==
  /\ persist[r] = "saved" /\ NobodyWrites
  /\ \E readable \in SUBSET Stored :
       PruneFiles(readable, readable \ Newest(readable, MaxStoredRuns))
  /\ persist' = [persist EXCEPT ![r] = "done"]
  /\ UNCHANGED <<pc, cur, runVars, trackerVars, restarts>>

-----------------------------------------------------------------------------
(* The process dies and NewServer starts over: memory is what LoadHistory  *)
(* can read back, the goroutines and the group tracker are gone.           *)

Underway == {"registered", "running", "settled", "filed"}

Restart ==
  /\ restarts < MaxRestarts
  /\ restarts' = restarts + 1
  /\ pc' = [q \in Requests |-> IF pc[q] \in Underway THEN "lost" ELSE pc[q]]
  /\ active' = {}
  /\ \E readable \in SUBSET Stored :
       LET loaded == Newest(readable, MaxStoredRuns) IN
         /\ status' = [r \in Runs |-> IF r \in loaded THEN files[r] ELSE "none"]
         /\ \E h \in [1..Cardinality(loaded) -> loaded] :
              /\ \A i, j \in DOMAIN h : i < j => born[h[i]] > born[h[j]]
              /\ history' = h
  /\ pending' = [q \in Requests |-> 0]
  /\ snaps' = [q \in Requests |-> <<>>]
  /\ persist' = [r \in Runs |-> IF persist[r] \in {"queued", "writing", "saved"}
                                THEN "killed" ELSE persist[r]]
  /\ UNCHANGED <<cur, born, files, tmps, unpruned, digests, alerts>>

-----------------------------------------------------------------------------

RequestStep(q) == Settle(q) \/ File(q) \/ Report(q)
PersistStep(r) == WriteTmp(r) \/ Rename(r) \/ Prune(r)

Next == \/ \E q \in Requests : Register(q) \/ Reject(q) \/ Launch(q) \/ RequestStep(q)
        \/ \E r \in Runs : PersistStep(r) \/ SaveFails(r)
        \/ Restart

\* handleRuns goes on after register, a suite ends (every backend call and
\* every code wait has a time limit), and the persist goroutines get to run.
Fairness == /\ \A q \in Requests : /\ WF_vars(RequestStep(q))
                                   /\ WF_vars(q \in Grouped /\ (Reject(q) \/ Launch(q)))
            /\ \A r \in Runs : WF_vars(PersistStep(r))

Spec == Init /\ [][Next]_vars /\ Fairness

-----------------------------------------------------------------------------
(* Properties.                                                             *)

\* GetRun and GetHistory never miss a run between two steps of executeSuite: a
\* launched run is active or in the history, never both, and leaves the history
\* only when that is full.  The history lists a run once, with its outcome.
NoRunInBetween ==
  /\ \A q \in Requests : pc[q] \in {"running", "settled", "filed", "done"} =>
       \A i \in DOMAIN Batch[q] :
          LET r == Batch[q][i] IN
          \/ status[r] = "none" /\ restarts > 0
          \/ r \in active /\ r \notin Filed
          \/ r \notin active /\ (r \in Filed \/ Len(history) = MaxStoredRuns)
  /\ \A i \in DOMAIN history : status[history[i]] \in Finals
  /\ \A i, j \in DOMAIN history : history[i] = history[j] => i = j

\* The group tracker expects exactly the runs of the batch still to come, and
\* knows nothing of a batch that has ended or was rejected (server.go:56-60).
TrackerFollowsBatch ==
  \A q \in Requests :
    pending[q] = IF q \notin Grouped \/ pc[q] \notin Underway THEN 0
                 ELSE IF pc[q] = "registered" THEN Len(Batch[q])
                 ELSE Len(Batch[q]) + 1 - cur[q]

\* A batch that runs to its end is reported by one digest with every run of it
\* once, in order and with its outcome, and by no single alert; a manual run
\* alerts if it failed.  A batch that has not ended has no digest.
ReportedOnce ==
  \A q \in Requests :
    /\ q \in Grouped =>
         /\ digests[q] # <<>> <=> pc[q] = "done"
         /\ \A i \in DOMAIN digests[q] :
              /\ i = 1
              /\ Len(digests[q][i]) = Len(Batch[q])
              /\ \A j \in DOMAIN Batch[q] :
                   /\ digests[q][i][j][1] = Batch[q][j]
                   /\ digests[q][i][j][2] = status[Batch[q][j]] \/ restarts > 0
         /\ RunsOf(q) \cap alerts = {}
    /\ q \notin Grouped /\ pc[q] = "done" /\ restarts = 0 =>
         {r \in RunsOf(q) : status[r] = "FAILED"} \subseteq alerts

\* A run that was saved is on disk until MaxStoredRuns later-started runs are,
\* whichever goroutine prunes and whenever the process restarts.
SavedRunsEndure ==
  \A r \in Runs : persist[r] \in {"saved", "done"} /\ r \notin Stored =>
    Cardinality({s \in Stored : born[s] > born[r]}) >= MaxStoredRuns

\* The directory exceeds the cap by no more files than runs were saved since the
\* last Prune that could read and remove what it had to: a goroutine that dies
\* before its Prune, or a Prune that fails, leaves a surplus to the next one,
\* whoever runs it, also after a restart (history_store.go:17).
DiskStaysCapped == Cardinality(Stored) <= MaxStoredRuns + Cardinality(unpruned)

\* "Save itself cannot run concurrently" with Prune (history_store.go:136): the
\* file being written is never swept away as a stale one.
WriterKeepsItsTmp == \A r \in Runs : persist[r] = "writing" => r \in tmps

\* A registered batch is digested, unless a key was unknown or the process died.
BatchIsDigested ==
  \A q \in Requests : pc[q] = "registered" ~>
    digests[q] # <<>> \/ pc[q] \in {"rejected", "lost"}

\* The goroutine of a finished run is through with its file: no two of them
\* block each other on the store's mutex.
PersistEnds ==
  \A r \in Runs : persist[r] = "queued" ~> persist[r] \in {"done", "failed", "killed"}

\* "Oldest runs (by StartTime) are evicted first" (history_store.go:16), of the
\* in-memory history: what it lost since the start is older than what it keeps.
EvictsOldestFirst ==
  restarts = 0 =>
    \A r \in Runs : persist[r] # "none" /\ r \notin Filed =>
      \A i \in DOMAIN history : born[history[i]] > born[r]

=============================================================================
