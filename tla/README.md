# TLA+ models of the E2E platform

The platform (`cmd/server`, `pkg/`, `web/`) runs end-to-end test suites against a
delivery backend (a real *stand* or an embedded mock), shows their progress in a web
UI, keeps a history of runs and a vault of tokens per stand, and reports regression
batches to Telegram. This directory models the parts of it that keep state under
concurrency and failure, checks them with TLC and proves the central invariants with
TLAPS.

## The system

| Part | State it keeps | Operations | What is hard | What makes it correct |
|---|---|---|---|---|
| Input broker (`runner/input.go`), client login (`fixtures/generator.go`), code modal (`web/app.js`) | waiters and one buffered code per run; the prompt a tab shows | `Deliver`, `Wait`, `RequestVerificationCode`, `POST /api/runs/{id}/input-code`, open, submit, close, cancel | logins, timers and operators interleave; a code may come before its waiter, after it gave up, or twice; events and answers get lost | each time a code is posted it reaches one login of its run, oldest first; no login waits beside a buffered code; every login ends |
| Orchestrator (`runner/runner.go`), history store (`runner/history_store.go`), group tracker (`server/server.go`) | active runs, capped history, run files, pending count per batch | `handleRuns`, `RunSuite(s)`, `RunSuitesGroup`, `executeSuite`, `persistRun` (`Save`, `Prune`), `LoadHistory`, `OnRunFinished` | concurrent requests, persistence in goroutines of its own whose file operations fail, a crash at any step | a run is never invisible, one complete digest per batch, the newest saved runs stay |
| Stands (`stands/store.go`), vaults (`stands/vault.go`), switching (`server/server.go`) | stands and the active one; a token file per stand; what the engine points at | add, update, delete, activate, `applyStand`, logins | three locks, none of which covers a whole request; failing saves | engine and vault belong to the same stand, tokens are moved and not copied |
| Session manager (`client/session_manager.go`) | profiles per role and the active one | add, activate, delete, snapshot, restore | the active session is shared by all suites | a role with profiles has a usable one; a suite's result does not depend on whose session its calls used |
| Check results (`runner/runner.go`) | status and counters per check of a run | `checkStart`, `checkDone`, `checkSkip`, `finalizeChecks` | unlocked writes, shared check IDs in "all", scenarios edited during a run | every check ends final, counters agree with results |
| Event fan-out (`Emit`, SSE) | a channel of 2000 events, the recent events | `Emit`, `handleEventsSSE` | full channel, several streams on one channel | order and loss |
| Order state machine (`statemachine`), flows (`dsl`, suites), mock backend (`testserver`) | transition tables, orders, idempotency keys | `ValidateTransition`, the backend's handlers | two sources of truth for one protocol | suites take orders through allowed transitions only, and what they record happened |
| Custom scenarios (`scenario`, `scenario_runner.go`) | scenarios in memory and on disk | save, delete, run | edits during a run, failing removals | memory and disk agree |
| Specification import (`spec`) | two files, generated scenarios | import, regenerate, delete | two files without a transaction, overlapping imports | a request that is alone leaves exactly the scenarios of its document; overlapping ones lose none of the last |
| NATS listener (`events`) | shared stream, history | publish, await | competing awaiters | an awaited event is found |
| Reports, registry, HTTP clients, config, the rest of the UI | none of interest | | formatting and I/O | |

How they interact: `handleRuns` starts runs in the orchestrator; a suite calls the
backend through the HTTP clients with the URL and tokens that the active stand put in
place; a client login pauses in the broker when no universal code is set; the server's
callback answers for the mock or emits `INPUT_REQUIRED` to the UI, whose modal posts
the code to the broker; a finished run moves to the history, is persisted by a
goroutine and reported through `OnRunFinished`. `PROJECT.json` lists every component
with its status and every hazard at its line.

## Modules

| Module | Models |
|---|---|
| `CodeDesk` | what the code desk promises: each time a code is handed in it is entered at most once, by a login of its run, or lost, and it is handed in again only by somebody who got no answer |
| `InputBroker` | the broker with logins, timers, prompts, operators and a lossy network; implements `CodeDesk` |
| `InputBrokerProofs`, `BrokerCodesProofs` | the TLAPS proofs about `InputBroker`: its queue; its codes and the refinement |
| `RunHistory` | a run from the request to its file, batch digests, crash and restart |
| `RunHistoryProofs` | the TLAPS proofs about `RunHistory` |
| `StandVault` | the stand registry, switching, vault files, overlapping logins, restart |
| `StandVaultProofs` | the TLAPS proofs about `StandVault` |
| `ScenarioStore` | custom scenarios in memory and on disk, and the handlers that change them |
| `TestSuites` | the built-in suites, each as its checks in order |
| `CheckResults` | what a run records of its checks, over `ScenarioStore` |
| `CheckResultsProofs` | the TLAPS proofs about `CheckResults` and `ScenarioStore` |
| `OrderProtocol` | the order state machine: which role takes an order from which stage to which |
| `Sessions` | the session manager: profiles and the active one per role |
| `MockBackend` | the embedded backend: orders, idempotency keys and their handlers |
| `OrderSuites` | the built-in suites at work on the backend through the shared sessions; implements `OrderProtocol` |
| `OrderSuitesProofs`, `OrderFlowsProofs` | the TLAPS proofs about `OrderSuites` and what it is made of: the sessions; the orders and the suites |
| `SpecImport` | the imported specification, its requests and generated scenarios, over `ScenarioStore` |
| `SpecImportProofs` | the TLAPS proofs about `SpecImport` |
| `MCInputBroker`, `MCRunHistory`, `MCStandVault`, `MCCheckResults`, `MCOrderSuites`, `MCSpecImport` | the instances that TLC checks |

`ScenarioStore` is composed with `CheckResults` and with `SpecImport`, `Sessions` and
`MockBackend` with `OrderSuites`; `CodeDesk` and `OrderProtocol` are abstract
specifications that a detailed module implements.

### InputBroker

A login is one `CreateUniqueClient` call. `pc` says where its goroutine is: `idle`,
`notify` (the phone is registered, no universal code), `enter` (about to take the
lock of `Wait`), `waiting` (in the `select`), `received` or `expired` (about to run the
deferred removal), `done` or `failed`. `waiters`, `pending` and `chan` are the broker's
fields and the one-slot channels, `feed`, `modal` and `posting` the UI. A code is named by
the login it was sent for, so that a foreign code can be told apart; since a code may be
posted more than once, what the broker is given is a hand-in, `<<c, n>>`: the code of login
`c` for the `n`-th time. `mock` is fixed at the start (`NewServer` either starts the
embedded mock or not): with it `Notify` delivers, without it `Notify` emits a prompt.
`Deliver` is used by the mock's callback and by `HandleCode`, the handler of the POST, as in
the code. `overlap` is fixed at the start too: it says which runs are of `runIdempotency`,
with up to `Parallel` logins under way at once; in the others they follow one another.
`Rank` numbers the logins of a run in the order in which they begin, which takes away
instances that differ only in names.

Between the modal and the server there is a network. `Submit` sends a POST (`flight`), which
the server handles at any later time or never. The answer, 200 or 404, closes whatever the
modal shows by then (`CloseAfterPost`). Any other status and any error of `fetch`
(`Unanswered`) leaves the modal as it is, whether the server has handled the POST, will
handle it or never gets it, and the operator may post the code again
(`app.js:379-384`). An `INPUT_REQUIRED` event is dropped when the broadcaster's channel is
full (`NotifyDropped`), or taken by a stream that has just ended (`LosePrompt`). `MaxLost`
bounds these three, `MaxPosts` how often one code is posted. `sent`, `unheard` and `arrivals`
are history variables.

So a code can be handed in twice, and a login of a sequential run can go on with the second
copy of a code whose owner is done with the first. `StrayCodeIsLate` and `CodeDesk` say
what remains: a foreign code comes from a login that was answered too late or twice, and
only who got no answer posts again.

Left out: a universal code (no broker then), cancellation of the context (every suite
runs under `context.Background()`), and a code typed wrong (its login fails at the backend,
after the broker has done its part).

### RunHistory

A request is a sequence of suite keys (`Batch`); its goroutine is `registered` (group
tracker), `running`, `settled` (outcome set, still active), `filed` (moved to the history),
`done`. `Launch` makes all runs of a request at once, as `RunSuitesGroup` does; `born` is
the rank of a run's `StartTime`. `Save` is two actions, `WriteTmp` and `Rename`, with its
failures in `SaveFails`; `Prune` is one, under the store's mutex (`NobodyWrites`). Like the
code it goes on when something fails: a directory that cannot be listed or a file that
cannot be read is not pruned (`readable`), and a file that cannot be removed stays (`gone`);
the same holds of the `.tmp` files. `unpruned` is a history variable: the runs saved since a
`Prune` that met no such error. `Restart` forgets what was in memory and reads back the
files that can be read, the others being skipped as corrupt. A suite is abstracted to its
outcome; the `StartTime`s of the runs of one request are taken in one step.

### StandVault

`stands`, `codeOf`, `activeID` are the registry, `target`, `code`, `lastStandID` what
the engine uses, `vault` the tokens in memory and `vaultFile` the files. A handler is
at most one request or suite: `Activate`, `Update` or `Delete` is the locked section of
the registry, what follows it (`AfterUpdate`, `RemoveVault`, `ApplyAgain`,
`SaveOutgoing`, `LoadIncoming`) are separate steps, since the registry's lock is
released in between. `vaultMu` is held from `SaveOutgoing` to `LoadIncoming`
(`Switching`). A login reads the target at one step and adds its token at a later one.
A failing save or load of a vault is a disjunct of its action; a failing save of
`stands.json` is rolled back in the same locked section and changes nothing. IDs are
slugs of names, so an ID may come back after a deletion.

`Configure` is the `POST /api/config` that repoints the engine without `vaultMu`,
`ReadActive` its later read of the active stand and `ConfigureStand` its `Store.Update` of
that stand, whose error is ignored; a switch may come in between. The URL counts as that of
the stand that was active when the engine was repointed. The mock's URL is
immutable, so a configured mock leaves the engine pointing `Elsewhere`; `repointed`
remembers that a URL was configured since a stand was last applied. `DeleteToken` is a
deletion on the vault page. `issuer` and `calm` are history variables: which stand's
backend issued a token, and which stand it has been safely added to.

Left out: URLs, names, roles and the active profile of a role. The read of the old
stand before `Update` is taken in the same step.

### ScenarioStore, TestSuites, CheckResults

A scenario is the list of its step IDs; `items` is the store's map, `files` the
directory. `POST` is two steps, `CreateCheck` and `CreateSave`, since the check for a
free key and the save take the lock separately; `Put` also creates. `Delete` removes
from memory first and may leave the file. A save that fails leaves memory and disk as
they were, and a process that dies within a save has either replaced the file or not:
neither needs a step of its own.

Every built-in suite has the same control: begin a check, make calls, record failure and
return, or record success and go on. So `TestSuites` gives the checks of each, and
`CheckResults` has the steps once. A run is `accepted` (`isValidSuiteKey`), `queued`
(`newRun` has counted its checks), `between` two checks, `checking`, `ending` and
`finished`; `left` holds the checks to go, the one at hand first, and `later` the suites
`all` has still to run. `runUserScenario` copies its scenario at `Start`, while `Create`
and `finalizeChecks` (`Finalized`) read the store at their own time. `results`, `passed`
and `failed` are the run's map and counters. `ran` and `edited` are history variables:
which checks were begun, and whether the scenario changed since the run was accepted.

Left out: what the calls of a check do, so any check may fail, also the few that the
code never fails (the `setup` of `flow_b`); events, messages, durations; the variables
and assertions of a custom step, which decide only its outcome. The waiting of a run for
those before it in its batch is in `RunHistory`; here `Start` may come at any time.

### OrderProtocol, Sessions, MockBackend, OrderSuites

`OrderProtocol` has the two transition tables of `order_sm.go` with the roles; its
behaviours are the lives of orders as the platform understands them. The backend knows
nothing of stages: it keeps a status and a courier per order and most of its handlers
change them without looking (`AdminCancelOrder`, `CourierTakeOrder`). `StageOf` is how
the stages show in its orders. So it is up to the suites, and to what they ask of the
answers, that orders follow the protocol, and this is what the refinement says.

A handler of `MockBackend` is a function from an order to an answer; `Process` is what the
backend does with a call under its lock, `Code` its answer. `Sessions` has the operations
of the session manager, and `SessionToken` is what `Client.Do` sends. Profiles with the same
token are one profile.

A suite of `OrderSuites` is a script of fixtures and calls (`Scripts`), with the answers
that let it go on, the order the answer has to show, and the transition it records. The
token read, the handler and what the suite makes of the answer are one step: the backend
never looks at when a token was read, and a suite reads nothing but its own answers. A
call may be lost, before the backend processed it or after (`CallLost`), and is not tried
again. The last step of `idempotency` is carried out by `Workers` workers, ten in the
code, each of which logs a new client in (`WorkerLogsIn`), places an order with its own token
(`WorkerOrders`), and may fail at either (`WorkerFails`); `Join` waits for all and fails the
suite if one failed or two were shown one order. The order in which they make themselves the
active client is open, and what other suites then do in that session is covered by every
property. Users (`ManualCall`, `ChangeSessions`) are the console, the vault page and the API.
`trail`, `touched`, `unheard`, `lost`, `emptied` and `meddled` are history variables.

A login may fail for whatever reason (`LogInLost`, `WorkerFails`). One reason is the code
broker: without a universal code the parallel workers' logins race for its buffer of one
code, on the mock too, so one of them can wait in vain until its timer ends it
(`BrokerMockStops`). What happens inside a login is `InputBroker`; here it is a login of the
suite's own that fails, and a suite that fails by it has its own login as the cause in
`FailuresHaveACause`.

Left out: preset tokens and `Config.AdminToken`, with which a fixture does not log in; the
courier's own status, reads, dishes, prices; the creation of orders from the console (they
belong to no suite); `negative_sm`, which makes no calls. A `flow_b` whose courier fixture failed
(`blind`) assigns the courier with the empty ID and records `COURIER_ASSIGNED` of an order
without one (`runner.go:1001`, `1045`); the properties leave it out by name, since the
backend's stage of such an order is not defined. `runSecurityRBAC` takes any error for
a refusal, so a lost call passes the check (`None200` accepts it too).

### SpecImport

A request (`Import`, `Regenerate`, `Drop`) is at `saving` and `summing` (the two files, in
one locked section), `replacing` or `dropping` (about to list the generated scenarios),
`clearing` (deletes them one by one) and `filling` (saves the new ones). Nothing serialises
requests: each call takes the lock of one store. `spec.json` and `meta.json` are
`document` and `summary`. A crash or failure between them leaves the new document beside
the old summary, and a restart loads that pair, although the comment at
`spec/store.go:16` says that the last successfully saved pair survives restarts; `Init`
starts from any pair for this reason, torn ones too. Fetching, parsing and
sampling are left out: which scenarios a document yields is the constant `KeysOf`, and a
`POST` of a scenario, whose window is in `ScenarioStore`, is taken like a `PUT`.
`cleared` and `alone` are history variables: which request ended its deletions last, and
which has had the stores to itself since it began.

## Runs

All bounds are in the `.cfg` files and the MC modules.

| Run | Instance | Result |
|---|---|---|
| `BrokerSafety` | a run of two logins, sequential or overlapping, and a run of one, one tab, mock or real stand, two posts per code, one event or answer lost (811,258 states) | `TypeOK`, `BufferOnlyWhenNobodyWaits`, `QueueIsExact`, `ServedInArrivalOrder`, `StrayCodeIsLate`, `SequentialMockNeverWaits`, `StartedLoginEnds` and the refinement `EachPostCountsOnce` hold |
| `BrokerMockStops` | as `BrokerSafety` | `MockNeverStops` is violated: see findings |
| `BrokerPrompts` | as `BrokerSafety`, an operator who answers every prompt, nothing lost | `WaitingLoginIsPrompted` is violated |
| `HistoryRuns` | a batch of two runs, a manual run, a cap of two, one restart, saves, prunes and loads that fail wholly or in part (255,046 states) | seven invariants, `BatchIsDigested`, `PersistEnds` hold |
| `HistoryEviction` | the same | `EvictsOldestFirst` is violated |
| `StandSafety` | the mock stand and one real stand that may be deleted and added again, two handlers, a preset token and one from a login, one code, one config request, one restart, failing saves and loads (4,085,576 states) | `TargetMatchesVault`, `TokenHasOneHome`, `TokensSurviveSwitching` hold |
| `StandForeignToken`, `StandStaleCode` | the same without the config request | `VaultIsOwned`, `CodelessStandPrompts` are violated |
| `CheckRuns` | one run of any key of the whole catalogue (eight suites, 31 checks), of `all`, or of one custom scenario in three versions; one restart | `VerdictMatchesChecks`, `TotalsAddUp`, `RunsOneVersion`, `ScenariosAreStored`, `AcceptedRunEnds` hold |
| `CheckShared` | the same | `LeftoversAreSkipped` is violated |
| `OrderFlows` | two requests, each with any of seven suites, overlapping at every step; two workers, one lost call or failed login, one act of a user on orders or sessions (414,960 states) | `TypeOK`, the refinement `FollowsProtocol`, `HistoryIsTrue`, `PassedMeansDone`, `FailuresHaveACause`, `ProfilesAreUsable` hold |
| `SpecRequests` | two requests of any kind, two documents that share one scenario key, one edit, one restart, failing writes, removals and saves | `TypeOK`, `LastReplacementIsComplete`, `UndisturbedIsExact`, `RequestEnds` hold |

Why the bounds are enough. In the broker, two logins of one run are what it takes for one to
overtake, overwrite or be removed beside the other, and a login of another run is what it
takes for a prompt of one to replace that of the other in the one tab, which a second tab
would only split. Two posts of a code give one that is lost or late and one that is heard,
and one loss is what it takes for a login to miss its prompt or for a code to be handed in
twice. A chain of stray codes, each entered in place of the next, takes three logins one
after another, which the instance does not have: that `StrayCodeIsLate` covers chains is
what its theorem shows. In the history, three runs over a cap of two force eviction in
memory and on disk, with a batch and a single request finishing in either order; one restart
can fall between any two steps. For the stands, a switch away and back needs two stands and
three steps, two handlers give every overlap of two requests or of a request and a login,
and `MaxAdds` 2 lets an ID come back. For check results, one run is enough since runs share
nothing but the store, which any request may change between any two steps; three versions of
a scenario let one grow, shrink and be reordered. Suites, and the workers of one, interfere
through the sessions alone, which hold one active profile per role, so two of each give
every interference, and two workers the overlap of one that has logged in with one that has
not; one lost call and one act of a user fall between any two steps, and every pair of
suites is tried. For the specification, two requests give every overlap of deletions and
saves, and two documents with one key in common and one each of their own let a request
delete, overwrite and add. The requests of `OrderFlows` are symmetric (`MCSymmetry`); it
checks no liveness. `CHECK_DEADLOCK` is off since every system may come to rest: all logins
over, all requests served.

**Fairness.** In `InputBroker` each login is a goroutine with a timer: weak fairness on
its own steps and the timer, none on the operator, the network or `Start`. In `RunHistory` a
suite ends because each backend call and each code wait has a time limit, a handler goes on
after `register`, and the persist goroutine is scheduled; failures and restarts are not
fair. The store's mutex needs no strong fairness there: a persist step is disabled by
another writer only until that one renames or fails. `StandVault` checks safety only and
assumes no fairness. In `CheckResults` each run has weak fairness on its own steps, as
in `RunHistory`; edits and restarts are not fair. In `SpecImport` a request's handler
goes on (weak fairness on `Step(q)`): a write under the store's lock ends, and the lock
is free in the end since what holds it is a step of another request. `OrderSuites` checks
safety only and assumes no fairness: that a suite ends is in `CheckResults`.

**Findings.** Six runs show a comment of the code that the code does not keep; each
is described in `PROJECT.json` with the lines on both sides: parallel logins can
stop a mock batch; concurrent prompts replace one another; the in-memory history evicts
by the order of finishing; a late login answer lands in the other stand's vault; a
stand without a code inherits the code of the one before; in an `all` run that fails in
`flow_b`, checks of `flow_b` that never began show as passed, because results are kept by
check ID and `flow_a` has checks of the same names. The torn pair of `spec.json` and `meta.json`
(`spec/store.go:16`) is not among them: it follows from the order of two writes, and no
property here speaks of the summary.

## Proofs

`InputBrokerProofs` proves for all values of the constants allowed by `InputAssumption`
(any runs, logins, tabs, degree of parallelism, with or without the mock):

* `TypeCorrect`: `Spec => []TypeOK`
* `NoCodeIsWithheld`: `Spec => []BufferOnlyWhenNobodyWaits`
* `QueueStaysExact`: `Spec => []QueueIsExact`

The inductive invariant is `TypeOK /\ BufferOnlyWhenNobodyWaits /\ QueueIsExact`. The three
need one another: a delivery buffers only on an empty queue, but that nobody *waits* then
follows only from the queue being exact (a login blocked with an empty channel is in it);
and the queue stays exact because a login leaves it either through `HandOver`, which fills
its channel, or through its own `Leave`, which removes the one position that holds it. Here
the proof needs that a login is queued once, and lemmas about `RemoveAt`, `Tail` and
`Append` (`RemoveAtShifts`, `TailShifts`, `AppendExtends`). Each step lemma has one case per
action of `Next`.

`BrokerCodesProofs` goes on from there, for any number of posts, lost events and lost
answers:

* `ArrivalOrder`: `Spec => []ServedInArrivalOrder`
* `StrayCodes`: `Spec => []StrayCodeIsLate`
* `MockIsImmediate`: `Spec => []SequentialMockNeverWaits`
* `ImplementsCodeDesk`: `Spec => EachPostCountsOnce`

The order of service is inductive once the queue is known to list logins of the arrival
history in that order (`QueueFollowsArrivals`) and a login to have a code exactly from the
moment it is handed one (`GotIsTaken`). The codes need that each hand-in is in the buffer, in
one channel or with one login and never in two of them (`CodesInOnePlace`), and that it was
handed in, for the run it is in (`CodesWereSent`). That a POST is new to the server follows
from the numbers the posts of a code have (`PostsAreNumbered`), and that a second one has an
unanswered one before it from a login being prompted for once: its prompt is in the feed, in
one modal or gone, and while it is shown all earlier POSTs from it have ended unanswered
(`PromptedOnce`). That the owner of a code in the buffer is through when a later login of its
run finds it, or has had its code posted twice, is `OneUnderway`, one login of a sequential
run at a time. With the mock a
login's own code is the one in the buffer (`MockCodeIsBuffered`). The refinement maps
each action to a step of `CodeDesk` or to a stutter: a delivery hands a code in, at the
cost of one still in the buffer, a login that takes a code enters it, one whose timer
fires gives up, and a POST that ends unanswered is one.

`StandVaultProofs` proves for all values allowed by `StandAssumption` (any stands,
tokens and handlers, with or without the mock):

* `TypeCorrect`: `Spec => []TypeOK`
* `EngineMatchesVault`: `Spec => []TargetMatchesVault`
* `TokensAreMoved`: `Spec => []TokenHasOneHome`
* `SwitchingLosesNothing`: `Spec => TokensSurviveSwitching`

The inductive invariant has three parts, proved in this order. `Control` is the types, the
arguments of handlers, `TargetMatchesVault` and `OneSwitch`: while one handler is
between save and load no other is, its stand is not the one that is loaded, and the engine
points at it; this is what `vaultMu` gives, and without it the target after
`LoadIncoming` is unknown. `Homes` is `TokenHasOneHome` with what a login needs: a
token that was not issued is nowhere, and one that is being logged in for is in no vault and
in one handler's hands (`UnissuedIsNowhere`, `LoginsAreNew`). `SwitchHasSaved` says that
what a switch is about to drop from memory is in the file of the stand it leaves, which
holds because a login that answers during a switch is not settled; from it
`SwitchingLosesNothing` follows action by action.

`CheckResultsProofs` proves for all values allowed by `StoreAssumption` and
`ResultsAssumption` (any finite catalogue, any scenarios and versions, any number of
runs):

* `TypeCorrect`: `Spec => []TypeOK`
* `ScenariosStayStored`: `Spec => []ScenariosAreStored`
* `RunsKeepTheirVersion`: `Spec => []RunsOneVersion`
* `VerdictIsRight`: `Spec => []VerdictMatchesChecks`
* `TotalsAreRight`: `Spec => []TotalsAddUp`, with `OrderAssumption` too: `all` runs every
  registered suite, each once

The inductive invariant adds `KeepsItsVersion` to these: a custom run under way has begun
the first checks of some version and has exactly the others to go (`Follows`). Without
the second half `RunsOneVersion` is not inductive, since the next check could come from
anywhere. That `left` is never empty while a run is under way is part of `TypeOK` and
needs that no version and no suite is empty, which is what `Validate` ensures. `Follows`
is a relation between values, so its three lemmas (`FollowsAtStart`, `FollowsBegun`,
`FollowsEnded`) are facts about sequences, and the steps of other runs preserve it by
`OthersKeep` without looking into it.

For the verdict the invariant is `Verdicts`: while a run is between two checks all it began
is recorded as passed (`AllPassed`), at a check all but that one (`AllButOnePassed`), and
a run that ends with an error has one failed check (`OneFailed`) or had lost its scenario
(`ScenarioWasGone`). That no check is recorded as failed is kept for all check IDs and not
only for those of the suite, since `all` writes the same ID from several suites.

The totals rest on `Counted`. For a single suite, and for a scenario nobody has edited since
(`SuiteCounted`), the counters are the cardinalities of the sets of results with a status, and
these are known from how far the run is in its version, where no check occurs twice. In an
`all` run two suites write to one ID, so the results say nothing of the counters there; the
count goes over pairs of a suite and a check of it instead (`PairsBefore`, `AllCounted`), and
`later` is tied to the place of the suite at hand in the order of all.

`RunHistoryProofs` proves for all values allowed by `RunAssumption` (any finite set of
runs, any requests and batches, any cap, any number of restarts) every invariant that the
run checks:

* `TypeCorrect`: `Spec => []TypeOK`
* `RunsAreAlwaysFound`: `Spec => []NoRunInBetween`
* `TrackerIsExact`: `Spec => []TrackerFollowsBatch`
* `RunsAreReportedOnce`: `Spec => []ReportedOnce`
* `SavedRunsStay`: `Spec => []SavedRunsEndure`
* `DiskIsCapped`: `Spec => []DiskStaysCapped`
* `TmpIsKept`: `Spec => []WriterKeepsItsTmp`

The inductive invariant `IInv` adds `Places` to the types: where each run of a request is,
by how far the request has come (`AtRuns`, `RunsAt`), that a run goes from active to the
history to its file and never back (`RunsMoveOn`), that the history has no run twice
and is not over its cap (`HistoryIsProper`), and that no two runs have the same rank of
`StartTime` (`Ranks`). On this rest the tracker (`Expected` computes the pending count from the
request's position), the reports (`Reported`) and the disk. What is kept or pruned is
`Newest`, the runs with fewer than the cap above them; that it is never too many
nor too few needs lemmas on the lowest and highest members of finite sets (`Lowest`,
`Highest`, `NewestSize`), which is where the finiteness of `Runs` is used. A `Prune` that
meets an error takes away only what a whole one would (it keeps the newest of the files it
can read), so saved runs endure, and the bound stands; one
that meets none leaves at most the cap, and whatever is saved after it is `unpruned`. One run is
saved at a time (`OneWriter`), which gives `WriterKeepsItsTmp`.

`SpecImportProofs` proves for all values allowed by `StoreAssumption` and
`ImportAssumption` (any documents, scenarios and keys, any number of requests, edits and
restarts):

* `TypeCorrect`: `Spec => []TypeOK`
* `NothingIsLost`: `Spec => []LastReplacementIsComplete`
* `UndisturbedCleansUp`: `Spec => UndisturbedIsExact`

`LastReplacementIsComplete` speaks of the end; its invariant `NothingIsForgotten` says that
while no request deletes, each scenario of the request that ended its deletions last is
stored or still on its list. It survives overlaps since deletions of another request make
that one the last to end them. `Undisturbed` follows a request alone through its steps:
while it deletes, every generated scenario that is stored is on its list, and while it
saves, exactly those it has saved are stored.

`OrderSuitesProofs` proves `SessionsStayUsable`: `Spec => []ProfilesAreUsable`, for any
number of suites and users' acts. It needs that an empty profile gets into a pool only with
`emptied` (`Pure`), since otherwise a switch of stands and back would drop an active one.

`OrderFlowsProofs` proves for all values allowed by `SuiteAssumption`, `SessionAssumption`
and `AbsenceAssumption` (any requests with any of the seven suites, overlapping in any way;
any number of parallel workers, of lost calls, failed logins and users' acts; `None` and
`NoCourier` stand for nothing that exists) all else that `OrderFlows` checks:

* `FlowsTypeOK`: `Spec => []TypeOK`
* `PassedIsDone`: `Spec => []PassedMeansDone`
* `FlowsFollowProtocol`: `Spec => FollowsProtocol`
* `RecordedIsTrue`: `Spec => []HistoryIsTrue`
* `FailuresAreCaused`: `Spec => []FailuresHaveACause`

The inductive invariant is `WellFormed /\ Tracks /\ Crews`: the types, and for each flow
`OnTrack`. It names, for a flow that has not failed, what its script has brought about so
far: `Path(s, n)` is the list of stages that the n-th order of suite `s` is to go through,
and `Reached(s, n, i)` says how many of them it has been through before step `i`; `OrderAt`
says that the backend's order is there, unless a user moved it or the flow is blind to its
courier, and that the suite's history agrees. The idempotency key and the courier of the
reassigned order are part of it. What no part of it mentions is the session a call is made
in: the proof needs only the answers a suite insists on, which is why the result does not
depend on whose sessions they are.

The scripts are evaluated once, step by step: each of their 52 steps is of one of a few
kinds (`FixtureKnown`, `AdoptKnown`, and for the calls `Makes`, `Moves`, `Hands`, `Repeats`,
`ComesLate`, `IsInvalid`, `IsForeign`, and the parallel step) that say what a call sends,
what its suite accepts and how `Reached` changes, and all later lemmas argue by kind.
`CallEffect` has what a call does to the orders, heard or not; `OthersAlone` that it leaves
the other flows' orders alone, since every order and key belongs to one flow.

On this rest the others. `Crews` says of each parallel worker what its place in `worker` means: it
has no order before it places one and one when it has ended well, and when it has failed its
suite has lost something. `PassedMeansDone` is `OnTrack` and `Crews` at the end of the script. The
refinement adds `Trails` (a trail ends at the stage the order is at, until a user changes
that); each call appends at most one stage, which `CallEffect` shows to be a legal
transition of `OrderProtocol`, and a user's act is a stutter, since a trail ends when a user
changes the stage (`touched`).
`HistoryIsTrue` adds that what was recorded is among the trail in order (`Among`,
`Histories`), which outlives the failure of the suite. `FailuresHaveACause` adds `Logins`: a
flow whose calls were all heard has logged in where its script says and the roles it logged
in as have profiles, of tokens of that role; with the active one usable (`IInv` of
`OrderSuitesProofs`) the backend lets each call in, and with `OrderAt` its suite accepts the
answer (`IsAccepted`).

Model-checked only: all liveness (`StartedLoginEnds`, `BatchIsDigested`, `PersistEnds`,
`AcceptedRunEnds`, `RequestEnds`), which with fairness is outside what TLAPS supports. Every
invariant and action property of the passing runs, and both refinements, are proved.

## What is left

In this order:

1. `StandVault` over `Sessions`, which would tell apart the profiles that a switch moves, and
   the window of `POST /api/scenarios` in `SpecImport`.
2. The recent events and the bounded channel of `Emit`, should anything come to depend on
   them.

## Not modelled

* **Event fan-out**, apart from the prompt: events are display only. No code reads the
  order of the stream or of the recent events, and the code promises nothing of either.
* **NATS listener**: nothing outside its tests publishes to it or awaits an event, so no run
  of the server reaches it. A model would need callers the code does not have.
* **Unlocked fields of an active run**: `executeSuite` writes them while an encoder may
  read. The models give each field its value in one step.
* **Web UI** other than the code modal, **configuration and entry point**: rendering,
  and the reading of the environment once. The UI's requests are the environment of the
  handlers that are modelled.
* **Report texts, OpenAPI parsing, sampling of payloads, request encoding, assertions of
  custom steps**: they transform text without state that others read; their outcome is a
  constant or left open.
* **Fluent builder** (`dsl`): it calls the steps it is given, which are the suites'.
