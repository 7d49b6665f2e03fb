----------------------------- MODULE OrderSuites -----------------------------
(***************************************************************************)
(* The built-in suites (pkg/runner/runner.go) at work on the embedded      *)
(* backend, through API clients that send the token of the active session  *)
(* (pkg/client).  Suites of concurrent requests share the sessions; a call *)
(* may get lost on its way, or its answer may, and a login may fail; users *)
(* log in, switch profiles and send calls of their own.                    *)
(*                                                                         *)
(* A suite is a script.  A step is one fixture or one call, with the token *)
(* read, the backend's handler and what the suite makes of the answer      *)
(* taken together: the backend never looks at when a token was read.  The  *)
(* last step of the idempotency suite is carried out by parallel workers.  *)
(***************************************************************************)
EXTENDS Sessions, Naturals, Sequences, FiniteSets

CONSTANTS OrderIds, Keys, Couriers, NoCourier,
          Flows,         \* requests, each with the run of one suite
          Suites,        \* the suites under test
          Workers,       \* how many workers the idempotency suite has (ten in the code)
          User,          \* owner of the tokens that users bring in
          ManualStatuses, \* statuses that users set
          UserRoles,     \* roles whose sessions users change
          MaxLost,       \* bound on lost calls and failed logins
          MaxManual      \* bound on users' calls and session operations

VARIABLES orders, idempotency

INSTANCE MockBackend

VARIABLES suite,     \* per flow its suite
          step,      \* the step it is at
          outcome,   \* running, passed or failed
          own,       \* the token of its last client fixture
          blind,     \* its courier fixture failed and it went on
          worker,    \* per flow what each of its workers is about to do, or its end
          history,   \* per order the transitions recorded (statemachine.orderHistory)
          unheard,   \* flows with a lost call or a failed login (history)
          lost,      \* how many there were (bounded by MaxLost)
          emptied,   \* a suite made an empty session the active one (history)
          meddled,   \* users changed sessions (history)
          manual     \* what users did so far

mockVars == <<orders, idempotency>>
flowVars == <<suite, step, outcome, own, blind, worker, history>>
losses == <<unheard, lost>>
ghosts == <<losses, emptied, meddled, manual>>
vars == <<mockVars, sessionVars, flowVars, ghosts>>

TokenOf(role, owner) == [role |-> role, owner |-> owner]

OrderOf(f, n) == <<f, n>>
WorkersOrder(f, w) == OrderOf(f, 2 + w)
CourierOf(f, n) == <<f, n>>

-----------------------------------------------------------------------------
(* Scripts.                                                                *)

None200 == {0, 400, 401, 403, 404}   \* no answer (0) or a refusal: err # nil

Fixture(role, must) == [do |-> "fixture", role |-> role, must |-> must]
Adopt == [do |-> "adopt"]
InParallel == [do |-> "parallel"]

\* A call about the n-th order of the flow, with the answers that let the suite
\* go on, the order the answer has to show, and the transition it then records.
Call(to, n, with, accept) ==
  [do |-> "call", to |-> to, n |-> n, with |-> with, key |-> FALSE, by |-> "session",
   accept |-> accept, shows |-> n, from |-> None, stage |-> None]

Records(call, from, stage) == [call EXCEPT !.from = from, !.stage = stage]
Keyed(call, shown) == [call EXCEPT !.key = TRUE, !.shows = shown]
By(call, whose) == [call EXCEPT !.by = whose]

Create(n, to) == Call(to, n, "valid", {200})

FlowA ==
  <<Fixture("client", TRUE), Fixture("rest", TRUE), Fixture("courier", TRUE),
    Fixture("admin", FALSE),
    Records(Create(1, "create_order"), None, "NEW"),
    Records(Call("give_order_to_courier", 1, 1, {200}), "NEW", "COURIER_ASSIGNED"),
    Records(Call("order_status", 1, "cooking", {200}), "COURIER_ASSIGNED", "PREPARING"),
    Records(Call("order_status", 1, "cooked", {200}), "PREPARING", "READY_FOR_PICKUP"),
    Call("take_order", 1, 1, {200} \cup None200),
    Records(Call("change_status", 1, "shipping", {200}), "READY_FOR_PICKUP", "PICKED_UP"),
    Records(Call("change_status", 1, "complete", {200}), "PICKED_UP", "DELIVERED")>>

\* Its fixtures may fail; the transitions are validated but not insisted on.
FlowB ==
  <<Fixture("client", FALSE), Fixture("courier", FALSE), Fixture("admin", FALSE),
    Records(Create(1, "independent_order"), None, "NEW"),
    Records(Call("give_order_to_courier", 1, 1, {200}), None, "COURIER_ASSIGNED"),
    Records(Call("change_status", 1, "shipping", {200}), None, "PICKED_UP"),
    Records(Call("change_status", 1, "complete", {200}), None, "DELIVERED")>>

Cancellation_ignoresError ==
  <<Fixture("client", FALSE), Adopt,
    Create(1, "create_order"), Call("cancel", 1, None, {200} \cup None200),
    Fixture("client", TRUE), Adopt, Fixture("rest", TRUE),
    Create(2, "create_order"),
    Records(Call("order_status", 2, "cooking", {200}), None, "PREPARING"),
    Call("cancel", 2, None, {403})>>

Cancellation ==
  <<Fixture("client", FALSE), Adopt,
    Create(1, "create_order"), Call("cancel", 1, None, {200}),
    Fixture("client", TRUE), Adopt, Fixture("rest", TRUE),
    Create(2, "create_order"),
    Records(Call("order_status", 2, "cooking", {200}), None, "PREPARING"),
    Call("cancel", 2, None, {403})>>

SecurityRBAC ==
  <<By(Call("create_order", 1, "invalid", None200), "nobody"),
    Fixture("client", FALSE),
    By(Call("give_order_to_courier", 1, 1, None200), "client"),
    Fixture("courier", TRUE),
    By(Call("dishes", 1, None, {0, 403}), "courier")>>

\* The same key twice, then the workers, each a client of its own.
Idempotency ==
  <<Fixture("client", FALSE), Adopt,
    Keyed(Create(1, "create_order"), 1), Keyed(Create(2, "create_order"), 1),
    InParallel>>

CourierReassignment ==
  <<Fixture("client", TRUE), Adopt,
    Fixture("courier", TRUE), Fixture("courier", TRUE), Fixture("admin", TRUE),
    Create(1, "create_order"),
    Call("give_order_to_courier", 1, 1, {200}), Call("give_order_to_courier", 1, 2, {200})>>

\* The first two calls, a registration and a login, change nothing.
InputValidation ==
  <<Fixture("client", TRUE), Adopt, Call("independent_order", 1, "invalid", {400}),
    Fixture("client", TRUE), Adopt, Call("create_order", 1, "invalid", {400})>>

Scripts ==
  [flow_a |-> FlowA, flow_b |-> FlowB, cancellation |-> Cancellation,
   security_rbac |-> SecurityRBAC, idempotency |-> Idempotency,
   courier_reassignment |-> CourierReassignment, input_validation |-> InputValidation]

ASSUME SuiteAssumption ==
  /\ Suites \subseteq DOMAIN Scripts
  /\ Workers \in Nat
  /\ OrderIds = Flows \X (1..(2 + Workers))
  /\ Couriers = Flows \X (1..2) /\ Keys = Flows
  /\ Tokens = [role : Roles, owner : Flows \cup {User}]
  /\ ManualStatuses \subseteq Statuses /\ UserRoles \subseteq Roles
  /\ MaxLost \in Nat /\ MaxManual \in Nat

\* What stands for the absence of a thing is no such thing.
ASSUME AbsenceAssumption ==
  /\ NoCourier \notin Couriers
  /\ None \notin OrderIds \cup Flows \cup Suites \cup Stages \cup OrderType

TypeOK ==
  /\ BackendTypeOK /\ SessionTypeOK
  /\ suite \in [Flows -> Suites \cup {None}]
  /\ outcome \in [Flows -> {"none", "running", "passed", "failed"}]
  /\ \A f \in Flows : outcome[f] = "running" => step[f] \in DOMAIN Scripts[suite[f]]
  /\ own \in [Flows -> Tokens \cup {Empty}]
  /\ blind \in [Flows -> BOOLEAN]
  /\ worker \in [Flows -> [1..Workers -> {"login", "order", "done", "failed"}]]
  /\ unheard \subseteq Flows /\ lost \in 0..MaxLost /\ emptied \in BOOLEAN /\ meddled \in BOOLEAN
  /\ manual \in 0..MaxManual

-----------------------------------------------------------------------------

Init ==
  /\ BackendInit /\ SessionInit
  /\ suite = [f \in Flows |-> None]
  /\ step = [f \in Flows |-> 1]
  /\ outcome = [f \in Flows |-> "none"]
  /\ own = [f \in Flows |-> Empty]
  /\ blind = [f \in Flows |-> FALSE]
  /\ worker = [f \in Flows |-> [w \in 1..Workers |-> "login"]]
  /\ history = [o \in OrderIds |-> <<>>]
  /\ unheard = {} /\ lost = 0 /\ emptied = FALSE /\ meddled = FALSE /\ manual = 0

Start(f, s) ==
  /\ outcome[f] = "none"
  /\ suite' = [suite EXCEPT ![f] = s]
  /\ outcome' = [outcome EXCEPT ![f] = "running"]
  /\ UNCHANGED <<mockVars, sessionVars, step, own, blind, worker, history, ghosts>>

AtStep(f) == Scripts[suite[f]][step[f]]
Doing(f, what) == outcome[f] = "running" /\ AtStep(f).do = what

Advance_neverEnds(f) == step' = [step EXCEPT ![f] = @ + 1] /\ UNCHANGED outcome

\* The next step, or the end of the suite.
Advance(f) ==
  IF step[f] = Len(Scripts[suite[f]])
  THEN outcome' = [outcome EXCEPT ![f] = "passed"] /\ UNCHANGED step
  ELSE step' = [step EXCEPT ![f] = @ + 1] /\ UNCHANGED outcome

Fail(f) == outcome' = [outcome EXCEPT ![f] = "failed"] /\ UNCHANGED step

\* A call of the flow is lost or a login of it fails.
Loses(f) ==
  /\ lost < MaxLost
  /\ lost' = lost + 1 /\ unheard' = unheard \cup {f}

\* CreateUniqueClient, -Restaurant, -Courier and LoginAdmin: the new identity
\* becomes the active session of its role, for every suite.
LogIn(f) ==
  /\ Doing(f, "fixture")
  /\ LET role == AtStep(f).role IN
     /\ AddToken(role, TokenOf(role, f), TRUE)
     /\ own' = IF role = "client" THEN [own EXCEPT ![f] = TokenOf(role, f)] ELSE own
  /\ Advance(f)
  /\ UNCHANGED <<mockVars, suite, blind, worker, history, ghosts>>

\* A registration or login fails: it gets no answer, or no code in time (which also
\* parallel logins can do to each other, see InputBroker); some suites go on without.
LogInLost(f) ==
  /\ Doing(f, "fixture")
  /\ Loses(f)
  /\ LET role == AtStep(f).role IN
     IF AtStep(f).must THEN Fail(f) /\ UNCHANGED <<own, blind>>
     ELSE /\ Advance(f)
          /\ own' = IF role = "client" THEN [own EXCEPT ![f] = Empty] ELSE own
          /\ blind' = IF role = "courier" THEN [blind EXCEPT ![f] = TRUE] ELSE blind
  /\ UNCHANGED <<mockVars, sessionVars, suite, worker, history, emptied, meddled, manual>>

\* SetClientSession with what the fixture returned, be it empty.
AdoptSession(f) ==
  /\ Doing(f, "adopt")
  /\ AddToken("client", own[f], TRUE)
  /\ emptied' = (emptied \/ own[f] = Empty)
  /\ Advance(f)
  /\ UNCHANGED <<mockVars, suite, own, blind, worker, history, losses, meddled, manual>>

-----------------------------------------------------------------------------
(* Calls.                                                                  *)

\* The call of the step at hand: a flow_b whose courier fixture failed assigns
\* the courier with the empty ID.
CallOf(f) ==
  LET s == AtStep(f) IN
  [to |-> s.to, order |-> OrderOf(f, s.n), key |-> IF s.key THEN f ELSE None,
   with |-> IF s.to \in {"give_order_to_courier", "take_order"}
            THEN IF blind[f] THEN NoCourier ELSE CourierOf(f, s.with)
            ELSE s.with]

TokenFor(f) ==
  CASE AtStep(f).by = "session" -> SessionToken(RoleFor[AtStep(f).to])
    [] AtStep(f).by = "nobody"  -> Empty
    [] AtStep(f).by = "client"  -> own[f]
    [] AtStep(f).by = "courier" -> TokenOf("courier", f)

\* What of an order the protocol is about: not what a user did to it, and nothing of
\* a flow that is blind to its courier.
ProtocolTrail(o) == IF orders[o] = None \/ blind[o[1]] THEN <<>> ELSE orders[o].trail

Protocol == INSTANCE OrderProtocol
  WITH Orders <- OrderIds,
       kind <- [o \in OrderIds |-> IF ProtocolTrail(o) = <<>> THEN "none" ELSE orders[o].kind],
       trail <- [o \in OrderIds |-> ProtocolTrail(o)]

\* What a suite asks of an answer: its code, under a repeated key the order of the
\* first call, after a reassignment the courier, and in flow_a a legal transition.
Accepts(f, call, code) ==
  LET s == AtStep(f) IN
  /\ code \in s.accept
  /\ code = 200 /\ Creates(call) => Shown(call) = OrderOf(f, s.shows)
  /\ code = 200 /\ suite[f] = "courier_reassignment" /\ s.to = "give_order_to_courier" =>
       Handler(call).order.courier = call.with
  /\ s.from # None =>
       Protocol!ValidateTransition("RESTAURANT", s.from, s.stage, Actor[RoleFor[s.to]])

Record_beforeAnswer(f, call, accepted) ==
  history' = IF AtStep(f).stage = None THEN history
             ELSE [history EXCEPT ![call.order] = Append(@, AtStep(f).stage)]

\* RecordTransition, once the call has succeeded.
Record(f, call, accepted) ==
  history' = IF ~accepted \/ AtStep(f).stage = None THEN history
             ELSE [history EXCEPT ![call.order] = Append(@, AtStep(f).stage)]

GoOn(f, call, code) ==
  /\ Record(f, call, Accepts(f, call, code))
  /\ IF Accepts(f, call, code) THEN Advance(f) ELSE Fail(f)

\* A call and its answer.
CallBackend(f) ==
  /\ Doing(f, "call")
  /\ Process(CallOf(f), TokenFor(f), FALSE)
  /\ GoOn(f, CallOf(f), Code(CallOf(f), TokenFor(f)))
  /\ UNCHANGED <<sessionVars, suite, own, blind, worker, ghosts>>

\* The request or its answer is lost; the clients never try again.
CallLost(f) ==
  /\ Doing(f, "call")
  /\ Loses(f)
  /\ UNCHANGED mockVars \/ Process(CallOf(f), TokenFor(f), FALSE)
  /\ GoOn(f, CallOf(f), 0)
  /\ UNCHANGED <<sessionVars, suite, own, blind, worker, emptied, meddled, manual>>

-----------------------------------------------------------------------------
(* The parallel workers: each logs a new client in and places an order with *)
(* that client's token, whichever session is active by then.               *)

WorkerAt(f, w, what) == Doing(f, "parallel") /\ worker[f][w] = what
WorkerGoes(f, w, to) == worker' = [worker EXCEPT ![f][w] = to]

WorkersCall(f, w) ==
  [to |-> "independent_order", order |-> WorkersOrder(f, w), key |-> None, with |-> "valid"]
WorkersToken(f) == TokenOf("client", f)

WorkerLogsIn(f, w) ==
  /\ WorkerAt(f, w, "login")
  /\ AddToken("client", WorkersToken(f), TRUE)
  /\ WorkerGoes(f, w, "order")
  /\ UNCHANGED <<mockVars, suite, step, outcome, own, blind, history, ghosts>>

WorkerOrders(f, w) ==
  /\ WorkerAt(f, w, "order")
  /\ Process(WorkersCall(f, w), WorkersToken(f), FALSE)
  /\ WorkerGoes(f, w, IF Code(WorkersCall(f, w), WorkersToken(f)) = 200 THEN "done" ELSE "failed")
  /\ UNCHANGED <<sessionVars, suite, step, outcome, own, blind, history, ghosts>>

\* Its login fails, or its call or the answer is lost.
WorkerFails(f, w) ==
  /\ Loses(f)
  /\ WorkerGoes(f, w, "failed")
  /\ \/ WorkerAt(f, w, "login") /\ UNCHANGED mockVars
     \/ /\ WorkerAt(f, w, "order")
        /\ UNCHANGED mockVars \/ Process(WorkersCall(f, w), WorkersToken(f), FALSE)
  /\ UNCHANGED <<sessionVars, suite, step, outcome, own, blind, history,
                 emptied, meddled, manual>>

\* Once all have ended: one failed worker fails the suite, and so does an order ID
\* that two of them were shown.
Join(f) ==
  /\ Doing(f, "parallel")
  /\ \A w \in 1..Workers : worker[f][w] \in {"done", "failed"}
  /\ IF /\ \A w \in 1..Workers : worker[f][w] = "done"
        /\ \A v, w \in 1..Workers : Shown(WorkersCall(f, v)) = Shown(WorkersCall(f, w)) => v = w
     THEN Advance(f) ELSE Fail(f)
  /\ UNCHANGED <<mockVars, sessionVars, suite, own, blind, worker, history, ghosts>>

-----------------------------------------------------------------------------
(* Users.                                                                  *)

\* A console action, or a step of a custom scenario, on an order of a suite.
ManualCall(o) ==
  /\ manual < MaxManual /\ orders[o] # None
  /\ manual' = manual + 1
  /\ \E to \in {"cancel", "give_order_to_courier", "cancel_order", "order_status",
                "take_order", "change_status"} :
       \E with \in IF to \in {"order_status", "change_status"} THEN ManualStatuses
                   ELSE IF to \in {"give_order_to_courier", "take_order"}
                   THEN {CourierOf(o[1], 2)} ELSE {None} :
         LET call == [to |-> to, order |-> o, with |-> with, key |-> None]
             token == SessionToken(RoleFor[to])
         IN Code(call, token) = 200 /\ Process(call, token, TRUE)
  /\ UNCHANGED <<sessionVars, flowVars, losses, emptied, meddled>>

\* The token vault page and the API: add, set (even an empty token), activate,
\* delete; and a switch of stands and back.
ChangeSessions ==
  /\ manual < MaxManual
  /\ manual' = manual + 1 /\ meddled' = TRUE
  /\ \/ /\ \E role \in UserRoles : AddToken(role, Empty, TRUE)
        /\ emptied' = TRUE
     \/ /\ \/ SwitchAndBack
           \/ \E role \in UserRoles :
                \/ \E setActive \in BOOLEAN : AddToken(role, TokenOf(role, User), setActive)
                \/ \E t \in pool[role] : SetActiveProfile(role, t) \/ DeleteProfile(role, t)
        /\ UNCHANGED emptied
  /\ UNCHANGED <<mockVars, flowVars, losses>>

FlowStep(f) ==
  \/ \E s \in Suites : Start(f, s)
  \/ LogIn(f) \/ LogInLost(f) \/ AdoptSession(f) \/ CallBackend(f) \/ CallLost(f)
  \/ \E w \in 1..Workers : WorkerLogsIn(f, w) \/ WorkerOrders(f, w) \/ WorkerFails(f, w)
  \/ Join(f)

Next == \/ \E f \in Flows : FlowStep(f)
        \/ \E o \in OrderIds : ManualCall(o)
        \/ ChangeSessions

Spec == Init /\ [][Next]_vars

-----------------------------------------------------------------------------
(* Properties.                                                             *)

\* Whatever the suites make the backend do to their orders, each is taken through
\* stages the order state machine allows, by roles it allows, however suites
\* overlap and calls get lost.
FollowsProtocol == Protocol!Spec

StagesOf(o) == [i \in DOMAIN orders[o].trail |-> orders[o].trail[i].stage]
TouchedByUsers(o) == orders[o].touched

\* The recorded transitions of an order really happened, in that order: they are
\* among the stages it went through on the backend, also if an answer was lost.
HistoryIsTrue ==
  \A o \in OrderIds : history[o] # <<>> =>
    /\ orders[o] # None
    /\ blind[o[1]] \/ TouchedByUsers(o) \/
         LET went == StagesOf(o) IN
         \A i \in DOMAIN history[o] : \E a \in DOMAIN went :
           /\ history[o][i] = went[a]
           /\ \A j \in 1..(i - 1) : \E b \in 1..(a - 1) : history[o][j] = went[b]

FlowAPath == <<"NEW", "COURIER_ASSIGNED", "PREPARING", "READY_FOR_PICKUP", "PICKED_UP",
               "DELIVERED">>
FlowBPath == <<"NEW", "COURIER_ASSIGNED", "PICKED_UP", "DELIVERED">>

Status(f, n) == orders[OrderOf(f, n)].status

\* What a passed suite claims is so on the backend, in whosever session its calls
\* were made: the orders went the whole way, the early cancellation took
\* place and the late one did not, one key made one order and every worker its own,
\* the second courier has the order, and no refused call left an order behind.
PassedMeansDone ==
  \A f \in Flows : outcome[f] = "passed" /\ ~blind[f] =>
    LET made == {n \in 1..(2 + Workers) : orders[OrderOf(f, n)] # None}
        changed == \E n \in made : TouchedByUsers(OrderOf(f, n))
    IN /\ suite[f] = "flow_a" =>
            history[OrderOf(f, 1)] = FlowAPath /\ (changed \/ StagesOf(OrderOf(f, 1)) = FlowAPath)
       /\ suite[f] = "flow_b" =>
            history[OrderOf(f, 1)] = FlowBPath /\ (changed \/ StagesOf(OrderOf(f, 1)) = FlowBPath)
       /\ suite[f] = "cancellation" =>
            changed \/ (Status(f, 1) = "cancelled" /\ Status(f, 2) = "cooking")
       /\ suite[f] = "idempotency" => made = {1} \cup 3..(2 + Workers)
       /\ suite[f] = "courier_reassignment" =>
            changed \/ orders[OrderOf(f, 1)].courier = CourierOf(f, 2)
       /\ suite[f] \in {"security_rbac", "input_validation"} => made = {}

\* Suites that share the sessions do not make each other fail: one fails only when a
\* call of its own was lost or a login of its own failed (for whatever reason, a code
\* that went to another of its parallel logins being one), when users changed its
\* orders or the sessions, or when a suite that went on without its login made an
\* empty session the active one for all.
FailuresHaveACause ==
  \A f \in Flows : outcome[f] = "failed" =>
    \/ f \in unheard \/ meddled \/ emptied
    \/ \E n \in 1..2 : orders[OrderOf(f, n)] # None /\ TouchedByUsers(OrderOf(f, n))

\* A role that has profiles has an active one, unless an empty session was made
\* active at some time, by a suite or a user, and a restored vault dropped it.
ProfilesAreUsable ==
  \A r \in Roles : pool[r] # {} => emptied \/ active[r] \in pool[r]

=============================================================================
