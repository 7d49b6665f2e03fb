----------------------------- MODULE InputBroker -----------------------------
(***************************************************************************)
(* The manual verification-code flow: pkg/runner/input.go (the broker),    *)
(* the part of pkg/fixtures that calls it, the server's notification       *)
(* callback and input-code handler, and the input-code modal of the admin  *)
(* UI (web/app.js).                                                        *)
(*                                                                         *)
(* A login is one CreateUniqueClient call.  The backend sends the code of  *)
(* its phone to the operator, so a login also names that code.  The logins *)
(* of one run are sequential in the flow suites and run ten at a time in   *)
(* the idempotency suite.  A server started with the embedded mock answers *)
(* every request itself.                                                   *)
(*                                                                         *)
(* A code may be posted more than once, so what travels is a hand-in       *)
(* <<c, n>>: the code of login c, handed over for the n-th time.           *)
(***************************************************************************)
EXTENDS Naturals, Sequences, FiniteSets, SequencesExt

CONSTANTS Runs, Logins, RunOf,
          Tabs,      \* admin-UI tabs on /api/events
          Overlaps,  \* the choices of runs whose logins overlap
          Parallel,  \* how many logins of such a run may be under way at once
          Rank,      \* logins of a run are numbered in the order they begin
          MaxPosts,  \* bound on how often one code is posted
          MaxLost,   \* bound on the events and answers that get lost
          NoCode

ASSUME InputAssumption ==
  /\ RunOf \in [Logins -> Runs]
  /\ Overlaps \subseteq SUBSET Runs
  /\ Parallel \in Nat \ {0}
  /\ MaxPosts \in Nat \ {0}
  /\ MaxLost \in Nat

HandIns == Logins \X (1..MaxPosts)

ASSUME NoCodeAssumption == NoCode \notin Logins \cup HandIns

ASSUME RankAssumption == Rank \in [Logins -> Nat]

VARIABLES
  mock,      \* NewServer started the embedded mock backend; never changes
  overlap,   \* runs of the idempotency suite; never changes
  pc,        \* where each login is in CreateUniqueClient
  waiters,   \* InputBroker.waiters: per run, the logins whose channel is queued
  pending,   \* InputBroker.pending: per run, the buffered hand-in
  chan,      \* the one-slot channel each Wait call makes
  got,       \* the hand-in whose code Wait returned
  feed,      \* INPUT_REQUIRED events in the broadcaster, oldest first
  modal,     \* per tab, the login whose prompt the input-code modal shows
  posting,   \* per tab, the hand-in whose POST it awaits the answer of
  flight,    \* POSTs sent and not handled by the server
  posts,     \* per login, how often its code was posted, or passed on by the mock
  lost,      \* events and answers lost so far
  sent,      \* hand-ins given to Deliver so far (history)
  unheard,   \* codes with a POST that ended without a 200 or 404 (history)
  arrivals   \* per run, the logins in the order they queued (history)

brokerVars == <<waiters, pending, chan>>
uiVars == <<feed, modal, posting, flight, posts, lost, unheard>>
vars == <<mock, overlap, pc, brokerVars, got, uiVars, sent, arrivals>>

Codes == HandIns \cup {NoCode}
LoginStates == {"idle", "notify", "enter", "waiting", "received", "expired", "done", "failed"}

TypeOK ==
  /\ mock \in BOOLEAN
  /\ overlap \in SUBSET Runs
  /\ pc \in [Logins -> LoginStates]
  /\ waiters \in [Runs -> Seq(Logins)]
  /\ pending \in [Runs -> Codes]
  /\ chan \in [Logins -> Codes]
  /\ got \in [Logins -> Codes]
  /\ feed \in Seq(Logins)
  /\ modal \in [Tabs -> Logins \cup {NoCode}]
  /\ posting \in [Tabs -> Codes]
  /\ flight \subseteq HandIns
  /\ posts \in [Logins -> 0..MaxPosts]
  /\ sent \subseteq HandIns
  /\ lost \in 0..MaxLost
  /\ unheard \subseteq Logins
  /\ arrivals \in [Runs -> Seq(Logins)]

Init ==
  /\ mock \in BOOLEAN
  /\ overlap \in Overlaps
  /\ pc = [l \in Logins |-> "idle"]
  /\ waiters = [r \in Runs |-> <<>>]
  /\ pending = [r \in Runs |-> NoCode]
  /\ chan = [l \in Logins |-> NoCode]
  /\ got = [l \in Logins |-> NoCode]
  /\ feed = <<>>
  /\ modal = [t \in Tabs |-> NoCode]
  /\ posting = [t \in Tabs |-> NoCode]
  /\ flight = {}
  /\ posts = [l \in Logins |-> 0]
  /\ sent = {}
  /\ lost = 0
  /\ unheard = {}
  /\ arrivals = [r \in Runs |-> <<>>]

-----------------------------------------------------------------------------
(* The broker's two critical sections, and the mutations the runs try.     *)

\* A login blocked in Wait with nothing in its channel.
Blocked(l) == pc[l] = "waiting" /\ chan[l] = NoCode

Underway(r) == {l \in Logins : RunOf[l] = r /\ pc[l] \notin {"idle", "done", "failed"}}

MayStart(l) ==
  /\ pc[l] = "idle"
  /\ \/ Underway(RunOf[l]) = {}
     \/ RunOf[l] \in overlap /\ Cardinality(Underway(RunOf[l])) < Parallel
  /\ \A m \in Logins : RunOf[m] = RunOf[l] /\ Rank[m] < Rank[l] => pc[m] # "idle"

BufferCode_storesRun(r, h) == /\ waiters[r] = <<>>
                              /\ pending' = [pending EXCEPT ![r] = r]
                              /\ UNCHANGED <<waiters, chan>>

BufferCode(r, h) == /\ waiters[r] = <<>>
                    /\ pending' = [pending EXCEPT ![r] = h]
                    /\ UNCHANGED <<waiters, chan>>

HandOver(r, h) == /\ waiters[r] # <<>>
                  /\ waiters' = [waiters EXCEPT ![r] = Tail(@)]
                  /\ chan' = [chan EXCEPT ![Head(waiters[r])] = IF @ = NoCode THEN h ELSE @]
                  /\ UNCHANGED pending

Deliver_newestFirst(r, h) ==
  \/ BufferCode(r, h)
  \/ /\ waiters[r] # <<>>
     /\ waiters' = [waiters EXCEPT ![r] = Front(@)]
     /\ chan' = [chan EXCEPT ![Last(waiters[r])] = h]
     /\ UNCHANGED pending

Deliver_toAll(r, h) ==
  \/ BufferCode(r, h)
  \/ /\ waiters[r] # <<>>
     /\ waiters' = [waiters EXCEPT ![r] = <<>>]
     /\ chan' = [l \in Logins |-> IF Contains(waiters[r], l) THEN h ELSE chan[l]]
     /\ UNCHANGED pending

Deliver_dropEarly(r, h) ==
  \/ waiters[r] = <<>> /\ UNCHANGED brokerVars
  \/ HandOver(r, h)

\* Deliver: the oldest waiter of the run gets the code; with no waiter the
\* code goes to the run's one-slot buffer, over whatever is there.
Deliver(r, h) == BufferCode(r, h) \/ HandOver(r, h)

-----------------------------------------------------------------------------
(* A login: CreateUniqueClient, RequestVerificationCode, Wait.             *)

\* The phone is registered on the backend and no universal code is set.
Start(l) ==
  /\ MayStart(l)
  /\ pc' = [pc EXCEPT ![l] = "notify"]
  /\ UNCHANGED <<mock, overlap, brokerVars, got, uiVars, sent, arrivals>>

\* notify: the mock callback delivers "1234" at once, a real stand emits the
\* INPUT_REQUIRED event to the UI.
Notify(l) ==
  /\ pc[l] = "notify"
  /\ pc' = [pc EXCEPT ![l] = "enter"]
  /\ \/ /\ mock
        /\ Deliver(RunOf[l], <<l, 1>>)
        /\ sent' = sent \cup {<<l, 1>>}
        /\ posts' = [posts EXCEPT ![l] = 1]
        /\ UNCHANGED feed
     \/ /\ ~mock
        /\ feed' = Append(feed, l)
        /\ UNCHANGED <<brokerVars, posts, sent>>
  /\ UNCHANGED <<mock, overlap, got, modal, posting, flight, lost, unheard, arrivals>>

\* Emit finds the broadcaster's channel full and drops the event.
NotifyDropped(l) ==
  /\ pc[l] = "notify" /\ ~mock /\ lost < MaxLost
  /\ pc' = [pc EXCEPT ![l] = "enter"]
  /\ lost' = lost + 1
  /\ UNCHANGED <<mock, overlap, brokerVars, got, feed, modal, posting, flight, posts, sent,
                 unheard, arrivals>>

QueueUp(l) ==
  /\ pc' = [pc EXCEPT ![l] = "waiting"]
  /\ waiters' = [waiters EXCEPT ![RunOf[l]] = Append(@, l)]
  /\ arrivals' = [arrivals EXCEPT ![RunOf[l]] = Append(@, l)]
  /\ UNCHANGED <<pending, got>>

TakeBuffered(l) ==
  /\ got' = [got EXCEPT ![l] = pending[RunOf[l]]]
  /\ pc' = [pc EXCEPT ![l] = "done"]
  /\ UNCHANGED <<waiters, arrivals>>

EnterWait_ignoresBuffer(l) ==
  /\ pc[l] = "enter"
  /\ QueueUp(l)
  /\ UNCHANGED <<mock, overlap, chan, uiVars, sent>>

EnterWait_keepsBuffer(l) ==
  /\ pc[l] = "enter"
  /\ \/ pending[RunOf[l]] # NoCode /\ TakeBuffered(l) /\ UNCHANGED pending
     \/ pending[RunOf[l]] = NoCode /\ QueueUp(l)
  /\ UNCHANGED <<mock, overlap, chan, uiVars, sent>>

\* The first critical section of Wait: take the buffered code, or queue up.
EnterWait(l) ==
  /\ pc[l] = "enter"
  /\ \/ /\ pending[RunOf[l]] # NoCode
        /\ TakeBuffered(l)
        /\ pending' = [pending EXCEPT ![RunOf[l]] = NoCode]
     \/ /\ pending[RunOf[l]] = NoCode
        /\ QueueUp(l)
  /\ UNCHANGED <<mock, overlap, chan, uiVars, sent>>

\* The select of Wait: the code is read, or the 3-minute timer wins, which it
\* may even when a code is already in the channel.
Receive(l) ==
  /\ pc[l] = "waiting" /\ chan[l] # NoCode
  /\ got' = [got EXCEPT ![l] = chan[l]]
  /\ chan' = [chan EXCEPT ![l] = NoCode]
  /\ pc' = [pc EXCEPT ![l] = "received"]
  /\ UNCHANGED <<mock, overlap, waiters, pending, uiVars, sent, arrivals>>

Timeout_notWhilePrompted(l) ==
  /\ pc[l] = "waiting" /\ \A t \in Tabs : modal[t] # l
  /\ pc' = [pc EXCEPT ![l] = "expired"]
  /\ UNCHANGED <<mock, overlap, brokerVars, got, uiVars, sent, arrivals>>

Timeout(l) ==
  /\ pc[l] = "waiting"
  /\ pc' = [pc EXCEPT ![l] = "expired"]
  /\ UNCHANGED <<mock, overlap, brokerVars, got, uiVars, sent, arrivals>>

LeaveState(l) == [pc EXCEPT ![l] = IF @ = "received" THEN "done" ELSE "failed"]

Leave_dropsHead(l) ==
  /\ pc[l] \in {"received", "expired"}
  /\ pc' = LeaveState(l)
  /\ waiters' = [waiters EXCEPT ![RunOf[l]] = IF @ = <<>> THEN @ ELSE Tail(@)]
  /\ UNCHANGED <<mock, overlap, pending, chan, got, uiVars, sent, arrivals>>

\* The deferred section of Wait: the channel leaves the queue if still there.
Leave(l) ==
  /\ pc[l] \in {"received", "expired"}
  /\ pc' = LeaveState(l)
  /\ \/ \E i \in DOMAIN waiters[RunOf[l]] :
           /\ waiters[RunOf[l]][i] = l
           /\ waiters' = [waiters EXCEPT ![RunOf[l]] = RemoveAt(@, i)]
     \/ /\ \A i \in DOMAIN waiters[RunOf[l]] : waiters[RunOf[l]][i] # l
        /\ UNCHANGED waiters
  /\ UNCHANGED <<mock, overlap, pending, chan, got, uiVars, sent, arrivals>>

-----------------------------------------------------------------------------
(* The operator's side: one modal per tab, one event reaches one tab.      *)

\* openInputCodeModal replaces whatever the tab's modal was showing.
ShowPrompt(t) ==
  /\ feed # <<>>
  /\ modal' = [modal EXCEPT ![t] = Head(feed)]
  /\ feed' = Tail(feed)
  /\ UNCHANGED <<mock, overlap, pc, brokerVars, got, posting, flight, posts, lost, sent,
                 unheard, arrivals>>

\* A stream that has just ended takes the event off the channel for nobody.
LosePrompt ==
  /\ feed # <<>> /\ lost < MaxLost
  /\ feed' = Tail(feed)
  /\ lost' = lost + 1
  /\ UNCHANGED <<mock, overlap, pc, brokerVars, got, modal, posting, flight, posts, sent,
                 unheard, arrivals>>

\* submitInputCode posts the code of the shown phone for the shown run; its
\* button is off until the POST has ended.
Submit(t) ==
  /\ modal[t] # NoCode /\ posting[t] = NoCode /\ posts[modal[t]] < MaxPosts
  /\ LET h == <<modal[t], posts[modal[t]] + 1>> IN
       /\ posting' = [posting EXCEPT ![t] = h]
       /\ flight' = flight \cup {h}
       /\ posts' = [posts EXCEPT ![modal[t]] = h[2]]
  /\ UNCHANGED <<mock, overlap, pc, brokerVars, got, feed, modal, lost, sent, unheard,
                 arrivals>>

\* handleRunInputCode: a POST that reaches the server, now or late, or never.
HandleCode(h) ==
  /\ h \in flight
  /\ flight' = flight \ {h}
  /\ Deliver(RunOf[h[1]], h)
  /\ sent' = sent \cup {h}
  /\ UNCHANGED <<mock, overlap, pc, got, feed, modal, posting, posts, lost, unheard, arrivals>>

CloseAfterPost_keepsModal(t) ==
  /\ posting[t] # NoCode /\ posting[t] \notin flight
  /\ posting' = [posting EXCEPT ![t] = NoCode]
  /\ UNCHANGED <<mock, overlap, pc, brokerVars, got, feed, modal, flight, posts, lost, sent,
                 unheard, arrivals>>

\* The answer, 200 or 404, closes the modal the tab shows by then.
CloseAfterPost(t) ==
  /\ posting[t] # NoCode /\ posting[t] \notin flight
  /\ posting' = [posting EXCEPT ![t] = NoCode]
  /\ modal' = [modal EXCEPT ![t] = NoCode]
  /\ UNCHANGED <<mock, overlap, pc, brokerVars, got, feed, flight, posts, lost, sent,
                 unheard, arrivals>>

\* Another status, or an error of fetch whatever the server did or will do with
\* the POST: the modal stays, and the code can be posted again.
Unanswered(t) ==
  /\ posting[t] # NoCode /\ lost < MaxLost
  /\ posting' = [posting EXCEPT ![t] = NoCode]
  /\ unheard' = unheard \cup {posting[t][1]}
  /\ lost' = lost + 1
  /\ UNCHANGED <<mock, overlap, pc, brokerVars, got, feed, modal, flight, posts, sent, arrivals>>

\* Cancel button or Esc.
CancelPrompt(t) ==
  /\ modal[t] # NoCode
  /\ modal' = [modal EXCEPT ![t] = NoCode]
  /\ UNCHANGED <<mock, overlap, pc, brokerVars, got, feed, posting, flight, posts, lost, sent,
                 unheard, arrivals>>

-----------------------------------------------------------------------------

LoginStep(l) == Start(l) \/ Notify(l) \/ EnterWait(l) \/ Receive(l) \/ Timeout(l) \/ Leave(l)

\* An operator who answers every prompt shown and cancels none, over a network
\* that loses nothing.
AnswerStep(t) == ShowPrompt(t) \/ Submit(t) \/ CloseAfterPost(t)

Next == \/ \E l \in Logins : LoginStep(l) \/ NotifyDropped(l)
        \/ \E t \in Tabs : AnswerStep(t) \/ Unanswered(t) \/ CancelPrompt(t)
        \/ \E h \in HandIns : HandleCode(h)
        \/ LosePrompt

\* Each login is a goroutine that the scheduler does not starve, and its timer
\* fires.  Nothing is assumed of the operator, nor that a login is started.
Fairness == \A l \in Logins : WF_vars(Notify(l) \/ EnterWait(l) \/ Timeout(l) \/ Leave(l))

Spec == Init /\ [][Next]_vars /\ Fairness

DiligentNext == \/ \E l \in Logins : LoginStep(l)
                \/ \E t \in Tabs : AnswerStep(t)
                \/ \E h \in HandIns : HandleCode(h)

\* The same system under an operator who never closes a prompt unanswered, with
\* every event shown and every POST answered.
DiligentSpec == Init /\ [][DiligentNext]_vars /\ Fairness

-----------------------------------------------------------------------------
(* Properties.                                                             *)

\* A code is never left in a run's buffer while a login of that run waits for
\* one: Deliver and Wait agree on who is first, whatever the interleaving.
BufferOnlyWhenNobodyWaits ==
  \A r \in Runs : pending[r] # NoCode => waiters[r] = <<>>

\* The queue holds exactly the logins a code can still reach.  A queued login
\* is of that run, queued once, and has an empty channel (so Deliver's
\* non-blocking send is never dropped); a login blocked with an empty channel
\* is still queued, whatever other logins of the run did when they left Wait.
QueueIsExact ==
  /\ \A r \in Runs : \A i \in DOMAIN waiters[r] :
        LET l == waiters[r][i] IN
        /\ RunOf[l] = r
        /\ pc[l] \in {"waiting", "expired"}
        /\ chan[l] = NoCode
        /\ \A j \in DOMAIN waiters[r] : waiters[r][j] = l => j = i
  /\ \A l \in Logins : Blocked(l) =>
        \E i \in DOMAIN waiters[RunOf[l]] : waiters[RunOf[l]][i] = l

Served(l) == chan[l] # NoCode \/ got[l] # NoCode

\* "Waiters are served strictly in arrival order": a login that queued later
\* has a code only if every earlier one has, or gave up (input.go:15).
ServedInArrivalOrder ==
  \A r \in Runs : \A i, j \in DOMAIN arrivals[r] :
    i < j /\ Served(arrivals[r][j]) =>
      Served(arrivals[r][i]) \/ pc[arrivals[r][i]] \in {"expired", "failed"}

\* In a run whose logins follow one another, a login goes on with its own code or
\* with that of another, which gave up, or went on with a stray code itself, or
\* whose code was posted again; and the first of such a chain is a login that was
\* answered too late or twice.
StrayCodeIsLate ==
  \A l \in Logins : RunOf[l] \notin overlap /\ got[l] # NoCode /\ got[l][1] # l =>
    LET owner == got[l][1] IN
    /\ RunOf[owner] = RunOf[l]
    /\ \/ pc[owner] = "failed"
       \/ pc[owner] = "done" /\ got[owner][1] # owner
       \/ posts[owner] > 1
    /\ \E m \in Logins : RunOf[m] = RunOf[l] /\ (pc[m] = "failed" \/ posts[m] > 1)

\* A started login ends, with a code or an error, whatever the operator does (the run
\* it belongs to is never stuck on it): from some point on no login is under way.
StartedLoginEnds == <>[](\A r \in Runs : Underway(r) = {})

\* The broker keeps the promise of CodeDesk: each time a code is posted it is entered
\* at most once, by a login of its run, and it is posted again only after a POST that
\* ended without a 200 or 404 (app.js:371-384).
Desk == INSTANCE CodeDesk WITH
  handedIn <- sent,
  available <- [r \in Runs |->
                  ({pending[r]} \cup {chan[l] : l \in {m \in Logins : RunOf[m] = r /\ pc[m] = "waiting"}})
                    \ {NoCode}],
  entered <- got,
  open <- {l \in Logins : pc[l] \in {"idle", "notify", "enter", "waiting"}},
  unanswered <- unheard

EachPostCountsOnce == Desk!Spec

\* "Mock batches must never stop" (server.go:140): with the embedded mock no
\* login is left waiting for a code that nobody will deliver any more.
MockNeverStops ==
  mock => \A l \in Logins : Blocked(l) =>
            \E m \in Logins : RunOf[m] = RunOf[l] /\ (pc[m] = "notify" \/ MayStart(m))

\* In a run whose logins follow one another that promise holds: with the mock
\* such a login always finds its code and never waits at all.
SequentialMockNeverWaits ==
  \A l \in Logins : mock /\ RunOf[l] \notin overlap => pc[l] # "waiting"

\* Concurrent logins resolve "as a sequence of prompts" (input.go:15): while a
\* login waits for a code, the operator still has a prompt of its run to answer, or
\* has just answered one.
WaitingLoginIsPrompted ==
  \A l \in Logins : ~mock /\ Blocked(l) =>
    \/ \E i \in DOMAIN feed : RunOf[feed[i]] = RunOf[l]
    \/ \E t \in Tabs : modal[t] # NoCode /\ RunOf[modal[t]] = RunOf[l]
                         /\ posts[modal[t]] = 0
    \/ \E h \in flight : RunOf[h[1]] = RunOf[l]

=============================================================================
