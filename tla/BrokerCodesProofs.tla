-------------------------- MODULE BrokerCodesProofs --------------------------
(***************************************************************************)
(* What becomes of a code, for every set of runs, logins and tabs: each    *)
(* time it is posted it is entered at most once, by a login of its run,    *)
(* and it is posted again only after a POST without an answer; codes are   *)
(* handed out in the order the logins queued; and where the logins of a    *)
(* run follow one another, only the code of an earlier login that was      *)
(* answered too late or twice can be taken for one's own.  The proofs rest *)
(* on the queue invariant of InputBrokerProofs.                            *)
(***************************************************************************)
EXTENDS InputBrokerProofs, FiniteSetTheorems

\* A login has a code of its own exactly from the moment Wait handed one to it.
GotIsTaken ==
  \A l \in Logins : got[l] # NoCode <=> pc[l] \in {"received", "done"}

\* The queue of a run lists logins of its arrival history, in that order.
QueueFollowsArrivals ==
  \A r \in Runs :
    /\ \A i \in DOMAIN arrivals[r] :
          /\ RunOf[arrivals[r][i]] = r
          /\ pc[arrivals[r][i]] \notin {"idle", "notify", "enter"}
          /\ \A j \in DOMAIN arrivals[r] : arrivals[r][j] = arrivals[r][i] => j = i
    /\ \A a \in DOMAIN waiters[r] : \E i \in DOMAIN arrivals[r] : arrivals[r][i] = waiters[r][a]
    /\ \A a, b \in DOMAIN waiters[r] : \A i, j \in DOMAIN arrivals[r] :
          a < b /\ arrivals[r][i] = waiters[r][a] /\ arrivals[r][j] = waiters[r][b] => i < j

\* A code in the broker or with a login was handed in, for the run it is in.
CodesWereSent ==
  /\ \A r \in Runs : pending[r] # NoCode => pending[r] \in sent /\ RunOf[pending[r][1]] = r
  /\ \A l \in Logins : chan[l] # NoCode => chan[l] \in sent /\ RunOf[chan[l][1]] = RunOf[l]
  /\ \A l \in Logins : got[l] # NoCode => got[l] \in sent /\ RunOf[got[l][1]] = RunOf[l]
  /\ \A h \in sent : pc[h[1]] \notin {"idle", "notify"}

\* A hand-in is in the buffer, in one channel or with one login, never in two of them.
CodesInOnePlace ==
  \A l, m \in Logins :
    /\ chan[l] # NoCode => /\ chan[l] # pending[RunOf[l]]
                           /\ chan[l] # got[m]
                           /\ chan[m] = chan[l] => m = l
    /\ got[l] # NoCode => /\ got[l] # pending[RunOf[l]]
                          /\ got[m] = got[l] => m = l

\* Hand-ins are numbered as they are posted, a POST is handled once, and a second
\* one of a code follows one that brought no answer.
PostsAreNumbered ==
  /\ \A h \in flight \cup sent : h[2] <= posts[h[1]]
  /\ \A h \in flight : h \notin sent
  /\ \A l \in Logins : /\ posts[l] > 0 => pc[l] \notin {"idle", "notify"}
                       /\ posts[l] > 1 => l \in unheard

\* A code is prompted for once, and posted only from the prompt that shows it: once it
\* was posted that prompt awaits the answer, or was told nothing.
PromptedOnce ==
  /\ mock => feed = <<>> /\ flight = {} /\ \A t \in Tabs : modal[t] = NoCode
  /\ \A i \in DOMAIN feed :
        /\ posts[feed[i]] = 0 /\ pc[feed[i]] \notin {"idle", "notify"}
        /\ \A j \in DOMAIN feed : feed[j] = feed[i] => j = i
        /\ \A t \in Tabs : modal[t] # feed[i]
  /\ \A t \in Tabs : modal[t] # NoCode =>
        /\ pc[modal[t]] \notin {"idle", "notify"}
        /\ \/ posts[modal[t]] = 0
           \/ modal[t] \in unheard
           \/ posting[t] # NoCode /\ posting[t][1] = modal[t]
        /\ \A u \in Tabs : modal[u] = modal[t] => u = t

\* In a run whose logins follow one another, only one is under way.
OneUnderway ==
  \A l, m \in Logins :
    /\ RunOf[l] = RunOf[m] /\ RunOf[l] \notin overlap
    /\ l \in Underway(RunOf[l]) /\ m \in Underway(RunOf[m])
    => l = m

\* With the mock, a login of such a run finds its own code in the buffer.
MockCodeIsBuffered ==
  \A l \in Logins : mock /\ RunOf[l] \notin overlap =>
    /\ pc[l] \notin {"waiting", "received", "expired", "failed"}
    /\ pc[l] = "enter" => pending[RunOf[l]] = <<l, 1>>

-----------------------------------------------------------------------------
(* Helpers.                                                                *)

\* Deliver either buffers the code or hands it to the oldest queued login.
LEMMA DeliverEffect ==
  ASSUME TypeOK, QueueInv, NEW r \in Runs, NEW h \in HandIns, Deliver(r, h)
  PROVE  \/ /\ waiters[r] = <<>>
            /\ pending' = [pending EXCEPT ![r] = h]
            /\ UNCHANGED <<waiters, chan>>
         \/ \E w \in Logins :
              /\ waiters[r] # <<>> /\ w = waiters[r][1]
              /\ RunOf[w] = r
              /\ pc[w] \in {"waiting", "expired"}
              /\ chan[w] = NoCode
              /\ waiters' = [waiters EXCEPT ![r] = Tail(@)]
              /\ chan' = [chan EXCEPT ![w] = h]
              /\ UNCHANGED pending
<1>1. CASE BufferCode(r, h)
  BY <1>1 DEF BufferCode
<1>2. CASE HandOver(r, h)
  <2> DEFINE w == Head(waiters[r])
  <2>1. waiters[r] \in Seq(Logins) /\ waiters[r] # <<>>
    BY <1>2 DEF HandOver, TypeOK
  <2>2. w \in Logins /\ w = waiters[r][1] /\ 1 \in DOMAIN waiters[r]
    BY <2>1, TailShifts
  <2>3. RunOf[w] = r /\ pc[w] \in {"waiting", "expired"} /\ chan[w] = NoCode
    BY <2>2, QueuedLogin
  <2>4. chan' = [chan EXCEPT ![w] = h]
    BY <1>2, <2>2, <2>3 DEF HandOver, TypeOK
  <2> HIDE DEF w
  <2>5. waiters' = [waiters EXCEPT ![r] = Tail(@)] /\ UNCHANGED pending
    BY <1>2 DEF HandOver
  <2>6. QED
    BY <2>1, <2>2, <2>3, <2>4, <2>5
<1>3. QED
  BY <1>1, <1>2 DEF Deliver

\* The steps of the operator and the network that reach neither broker nor logins.
UiStep == \/ LosePrompt
          \/ \E t \in Tabs : \/ ShowPrompt(t) \/ Submit(t) \/ CloseAfterPost(t)
                            \/ Unanswered(t) \/ CancelPrompt(t)

LEMMA UiStepIsQuiet ==
  ASSUME UiStep
  PROVE  UNCHANGED <<mock, overlap, pc, brokerVars, got, sent, arrivals>>
BY DEF UiStep, LosePrompt, ShowPrompt, Submit, CloseAfterPost, Unanswered, CancelPrompt

\* The steps, as the proofs tell them apart.
LEMMA StepCases ==
  ASSUME [Next]_vars
  PROVE  \/ \E l \in Logins : LoginStep(l) \/ NotifyDropped(l)
         \/ \E h \in HandIns : HandleCode(h)
         \/ UiStep
         \/ UNCHANGED vars
BY DEF Next, AnswerStep, UiStep

-----------------------------------------------------------------------------
(* Who has a code.                                                         *)

LEMMA GotStep == TypeOK /\ GotIsTaken /\ [Next]_vars => GotIsTaken'
<1> SUFFICES ASSUME TypeOK, GotIsTaken, [Next]_vars PROVE GotIsTaken'
  OBVIOUS
<1> USE InputAssumption
<1>1. ASSUME NEW l \in Logins, Start(l) \/ Notify(l) \/ NotifyDropped(l) \/ Timeout(l)
      PROVE  GotIsTaken'
  <2>1. /\ got' = got
        /\ pc[l] \notin {"received", "done"} /\ pc'[l] \notin {"received", "done"}
        /\ \A m \in Logins \ {l} : pc'[m] = pc[m]
    BY <1>1 DEF Start, MayStart, Notify, NotifyDropped, Timeout, TypeOK
  <2>2. QED
    BY <2>1 DEF GotIsTaken
<1>2. ASSUME NEW l \in Logins, EnterWait(l) PROVE GotIsTaken'
  <2>1. CASE pending[RunOf[l]] # NoCode /\ TakeBuffered(l)
    BY <2>1 DEF TakeBuffered, GotIsTaken, TypeOK
  <2>2. CASE QueueUp(l)
    BY <1>2, <2>2 DEF QueueUp, EnterWait, GotIsTaken, TypeOK
  <2>3. QED
    BY <1>2, <2>1, <2>2 DEF EnterWait
<1>3. ASSUME NEW l \in Logins, Receive(l) PROVE GotIsTaken'
  BY <1>3 DEF Receive, GotIsTaken, TypeOK
<1>4. ASSUME NEW l \in Logins, Leave(l) PROVE GotIsTaken'
  BY <1>4 DEF Leave, LeaveState, GotIsTaken, TypeOK
<1>5. CASE UiStep \/ \E h \in HandIns : HandleCode(h)
  BY <1>5, UiStepIsQuiet DEF HandleCode, GotIsTaken
<1>6. CASE UNCHANGED vars
  BY <1>6 DEF vars, GotIsTaken
<1>7. QED
  BY <1>1, <1>2, <1>3, <1>4, <1>5, <1>6, StepCases DEF LoginStep

-----------------------------------------------------------------------------
(* Where the codes are.                                                    *)

\* A hand-in that was not made yet is nowhere in the broker.
LEMMA FreshCode ==
  ASSUME TypeOK, CodesWereSent, NEW h \in HandIns, h \notin sent
  PROVE  /\ \A r \in Runs : pending[r] # h
         /\ \A l \in Logins : chan[l] # h /\ got[l] # h
BY InputAssumption, HandInParts DEF CodesWereSent

\* Deliver puts a fresh hand-in in one place, whoever calls it.
LEMMA DeliverKeepsCodes ==
  ASSUME TypeOK, QueueInv, CodesWereSent, CodesInOnePlace,
         NEW h \in HandIns, h \notin sent, Deliver(RunOf[h[1]], h),
         sent' = sent \cup {h}, got' = got,
         \A g \in sent \cup {h} : pc'[g[1]] \notin {"idle", "notify"}
  PROVE  CodesWereSent' /\ CodesInOnePlace'
<1> USE InputAssumption
<1> DEFINE r == RunOf[h[1]]
<1>1. r \in Runs /\ h # NoCode
  BY HandInParts
<1>2. /\ \A q \in Runs : pending[q] # h
      /\ \A l \in Logins : chan[l] # h /\ got[l] # h
  BY FreshCode
<1>3. CASE pending' = [pending EXCEPT ![r] = h] /\ UNCHANGED <<waiters, chan>>
  <2>1. pending'[r] = h /\ \A q \in Runs \ {r} : pending'[q] = pending[q]
    BY <1>1, <1>3 DEF TypeOK
  <2>2. CodesWereSent'
    BY <1>3, <2>1 DEF CodesWereSent
  <2>3. CodesInOnePlace'
    BY <1>2, <1>3, <2>1 DEF CodesInOnePlace
  <2>4. QED
    BY <2>2, <2>3
<1>4. ASSUME NEW w \in Logins, RunOf[w] = r, chan[w] = NoCode,
             chan' = [chan EXCEPT ![w] = h], UNCHANGED pending
      PROVE  CodesWereSent' /\ CodesInOnePlace'
  <2>1. chan'[w] = h /\ \A l \in Logins \ {w} : chan'[l] = chan[l]
    BY <1>4 DEF TypeOK
  <2>2. CodesWereSent'
    BY <1>4, <2>1 DEF CodesWereSent
  <2>3. CodesInOnePlace'
    BY <1>2, <1>4, <2>1 DEF CodesInOnePlace
  <2>4. QED
    BY <2>2, <2>3
<1>5. QED
  BY <1>1, <1>3, <1>4, DeliverEffect

CodesInv == CodesWereSent /\ CodesInOnePlace /\ PostsAreNumbered /\ PromptedOnce

LEMMA CodesStep == TypeOK /\ QueueInv /\ CodesInv /\ [Next]_vars => CodesWereSent' /\ CodesInOnePlace'
<1> SUFFICES ASSUME TypeOK, QueueInv, CodesInv, [Next]_vars
             PROVE  CodesWereSent' /\ CodesInOnePlace'
  OBVIOUS
<1> USE InputAssumption
<1>0. CodesWereSent /\ CodesInOnePlace /\ PostsAreNumbered /\ PromptedOnce
  BY DEF CodesInv
<1>1. ASSUME NEW l \in Logins, Start(l) PROVE CodesWereSent' /\ CodesInOnePlace'
  <2>1. UNCHANGED <<pending, chan, got, sent>> /\ pc[l] = "idle"
        /\ \A m \in Logins \ {l} : pc'[m] = pc[m]
    BY <1>1 DEF Start, MayStart, TypeOK, brokerVars
  <2>2. \A h \in sent : h[1] # l /\ pc'[h[1]] = pc[h[1]]
    BY <1>0, <2>1, HandInParts DEF CodesWereSent, TypeOK
  <2>3. QED
    BY <1>0, <2>1, <2>2 DEF CodesWereSent, CodesInOnePlace
<1>2. ASSUME NEW l \in Logins, Notify(l) PROVE CodesWereSent' /\ CodesInOnePlace'
  <2>1. /\ pc[l] = "notify" /\ pc'[l] = "enter" /\ got' = got
        /\ \A m \in Logins \ {l} : pc'[m] = pc[m]
    BY <1>2 DEF Notify, TypeOK
  <2> DEFINE f == <<l, 1>>
  <2>0. f \in HandIns /\ f[1] = l
    BY FirstHandIn
  <2>2. f \notin sent /\ \A h \in sent \cup {f} : pc'[h[1]] \notin {"idle", "notify"}
    <3>1. \A h \in sent : h[1] \in Logins \ {l}
      BY <1>0, <2>1, HandInParts DEF CodesWereSent, TypeOK
    <3>2. QED
      BY <1>0, <2>0, <2>1, <3>1 DEF CodesWereSent
  <2>3. CASE mock
    <3>1. Deliver(RunOf[f[1]], f) /\ sent' = sent \cup {f}
      BY <1>2, <2>0, <2>3 DEF Notify
    <3> HIDE DEF f
    <3>2. QED
      BY <1>0, <2>0, <2>1, <2>2, <3>1, DeliverKeepsCodes
  <2>4. CASE ~mock
    <3>1. UNCHANGED <<pending, chan, sent>>
      BY <1>2, <2>4 DEF Notify, brokerVars
    <3>2. QED
      BY <1>0, <2>1, <2>2, <3>1 DEF CodesWereSent, CodesInOnePlace
  <2>5. QED
    BY <2>3, <2>4
<1>3. ASSUME NEW l \in Logins, EnterWait(l) PROVE CodesWereSent' /\ CodesInOnePlace'
  <2> DEFINE r == RunOf[l]
  <2>1. /\ pc[l] = "enter" /\ UNCHANGED <<chan, sent>> /\ r \in Runs
        /\ pc'[l] \in {"done", "waiting"}
        /\ \A m \in Logins \ {l} : pc'[m] = pc[m]
    BY <1>3 DEF EnterWait, TakeBuffered, QueueUp, TypeOK
  <2>2. \A h \in sent : pc'[h[1]] \notin {"idle", "notify"}
    BY <1>0, <2>1, HandInParts DEF CodesWereSent, TypeOK
  <2>3. CASE pending[r] # NoCode /\ TakeBuffered(l) /\ pending' = [pending EXCEPT ![r] = NoCode]
    <3>1. /\ got'[l] = pending[r] /\ \A m \in Logins \ {l} : got'[m] = got[m]
          /\ pending'[r] = NoCode /\ \A q \in Runs \ {r} : pending'[q] = pending[q]
      BY <2>3 DEF TakeBuffered, TypeOK
    <3>2. CodesWereSent'
      BY <1>0, <2>1, <2>2, <2>3, <3>1 DEF CodesWereSent
    <3>3. \A m \in Logins : chan[m] # pending[r] /\ got[m] # pending[r]
      BY <1>0, <2>1, <2>3 DEF CodesWereSent, CodesInOnePlace
    <3>4. \A q \in Runs \ {r} : pending[q] # pending[r]
      BY <1>0, <2>1, <2>3 DEF CodesWereSent
    <3>5. CodesInOnePlace'
      BY <1>0, <2>1, <2>3, <3>1, <3>3, <3>4 DEF CodesInOnePlace
    <3>6. QED
      BY <3>2, <3>5
  <2>4. CASE QueueUp(l)
    BY <1>0, <2>1, <2>2, <2>4 DEF QueueUp, CodesWereSent, CodesInOnePlace
  <2>5. QED
    BY <1>3, <2>3, <2>4 DEF EnterWait
<1>4. ASSUME NEW l \in Logins, Receive(l) PROVE CodesWereSent' /\ CodesInOnePlace'
  <2>1. /\ chan[l] # NoCode /\ UNCHANGED <<pending, sent>>
        /\ got'[l] = chan[l] /\ \A m \in Logins \ {l} : got'[m] = got[m]
        /\ chan'[l] = NoCode /\ \A m \in Logins \ {l} : chan'[m] = chan[m]
        /\ pc'[l] = "received" /\ \A m \in Logins \ {l} : pc'[m] = pc[m]
    BY <1>4 DEF Receive, TypeOK
  <2>2. \A h \in sent : pc'[h[1]] \notin {"idle", "notify"}
    BY <1>0, <2>1, HandInParts DEF CodesWereSent, TypeOK
  <2>3. CodesWereSent'
    BY <1>0, <2>1, <2>2 DEF CodesWereSent
  <2>4. CodesInOnePlace'
    BY <1>0, <2>1 DEF CodesInOnePlace
  <2>5. QED
    BY <2>3, <2>4
<1>5. ASSUME NEW l \in Logins, Timeout(l) \/ Leave(l) PROVE CodesWereSent' /\ CodesInOnePlace'
  <2>1. UNCHANGED <<pending, chan, got, sent>>
        /\ \A m \in Logins : pc'[m] = pc[m] \/ pc'[m] \in {"expired", "done", "failed"}
    BY <1>5 DEF Timeout, Leave, LeaveState, brokerVars, TypeOK
  <2>2. \A h \in sent : pc'[h[1]] \notin {"idle", "notify"}
    BY <1>0, <2>1, HandInParts DEF CodesWereSent, TypeOK
  <2>3. QED
    BY <1>0, <2>1, <2>2 DEF CodesWereSent, CodesInOnePlace
<1>6. ASSUME NEW h \in HandIns, HandleCode(h) PROVE CodesWereSent' /\ CodesInOnePlace'
  <2>1. /\ h \in flight /\ sent' = sent \cup {h}
        /\ UNCHANGED <<pc, got>> /\ Deliver(RunOf[h[1]], h)
    BY <1>6 DEF HandleCode
  <2>2. h \notin sent /\ pc[h[1]] \notin {"idle", "notify"}
    <3>1. h[1] \in Logins /\ h[2] \in Nat \ {0} /\ h[2] <= posts[h[1]]
      BY <1>0, <2>1, HandInParts DEF PostsAreNumbered
    <3>2. posts[h[1]] > 0
      BY <3>1 DEF TypeOK
    <3>3. QED
      BY <1>0, <2>1, <3>1, <3>2 DEF PostsAreNumbered
  <2>3. \A g \in sent \cup {h} : pc'[g[1]] \notin {"idle", "notify"}
    BY <1>0, <2>1, <2>2 DEF CodesWereSent
  <2>4. QED
    BY <1>0, <2>1, <2>2, <2>3, DeliverKeepsCodes
<1>7. CASE UiStep
  BY <1>0, <1>7, UiStepIsQuiet DEF brokerVars, CodesWereSent, CodesInOnePlace
<1>8. ASSUME NEW l \in Logins, NotifyDropped(l) PROVE CodesWereSent' /\ CodesInOnePlace'
  <2>1. /\ UNCHANGED <<pending, chan, got, sent>> /\ pc'[l] = "enter"
        /\ \A m \in Logins \ {l} : pc'[m] = pc[m]
    BY <1>8 DEF NotifyDropped, brokerVars, TypeOK
  <2>2. \A h \in sent : pc'[h[1]] \notin {"idle", "notify"}
    BY <1>0, <2>1, HandInParts DEF CodesWereSent, TypeOK
  <2>3. QED
    BY <1>0, <2>1, <2>2 DEF CodesWereSent, CodesInOnePlace
<1>9. CASE UNCHANGED vars
  BY <1>0, <1>9 DEF vars, brokerVars, CodesWereSent, CodesInOnePlace
<1>10. QED
  BY <1>1, <1>2, <1>3, <1>4, <1>5, <1>6, <1>7, <1>8, <1>9, StepCases DEF LoginStep

-----------------------------------------------------------------------------
(* Posts and prompts.                                                      *)

LEMMA NumbersKept ==
  ASSUME PostsAreNumbered, UNCHANGED <<posts, flight, sent, unheard>>, TypeOK,
         \A m \in Logins : pc[m] \notin {"idle", "notify"} => pc'[m] \notin {"idle", "notify"}
  PROVE  PostsAreNumbered'
BY DEF PostsAreNumbered

LEMMA NumbersStep == TypeOK /\ CodesInv /\ [Next]_vars => PostsAreNumbered'
<1> SUFFICES ASSUME TypeOK, CodesInv, [Next]_vars PROVE PostsAreNumbered'
  OBVIOUS
<1> USE InputAssumption
<1>0. PostsAreNumbered /\ PromptedOnce
  BY DEF CodesInv
<1>1. ASSUME NEW l \in Logins,
             \/ Start(l) \/ NotifyDropped(l) \/ EnterWait(l) \/ Receive(l) \/ Timeout(l) \/ Leave(l)
      PROVE  PostsAreNumbered'
  <2>1. /\ UNCHANGED <<posts, flight, sent, unheard>>
        /\ pc[l] = "idle" \/ pc'[l] \notin {"idle", "notify"}
        /\ \A m \in Logins \ {l} : pc'[m] = pc[m]
    BY <1>1 DEF Start, MayStart, NotifyDropped, EnterWait, TakeBuffered, QueueUp, Receive, Timeout,
                Leave, LeaveState, uiVars, TypeOK
  <2>2. QED
    BY <1>0, <2>1, NumbersKept
<1>2. ASSUME NEW l \in Logins, Notify(l) PROVE PostsAreNumbered'
  <2>1. /\ pc[l] = "notify" /\ pc'[l] = "enter"
        /\ \A m \in Logins \ {l} : pc'[m] = pc[m]
        /\ UNCHANGED <<flight, unheard>>
    BY <1>2 DEF Notify, TypeOK
  <2>2. CASE mock
    <3>1. /\ posts'[l] = 1 /\ \A m \in Logins \ {l} : posts'[m] = posts[m]
          /\ sent' = sent \cup {<<l, 1>>} /\ flight = {}
      BY <1>0, <1>2, <2>2 DEF Notify, PromptedOnce, TypeOK
    <3>2. \A h \in sent : h[1] \in Logins \ {l}
      <4>1. SUFFICES ASSUME NEW h \in sent, h[1] = l PROVE FALSE
        BY HandInParts DEF TypeOK
      <4>2. h[2] \in Nat \ {0} /\ h[2] <= posts[l] /\ posts[l] \in Nat
        BY <1>0, <4>1, HandInParts DEF PostsAreNumbered, TypeOK
      <4>3. QED
        BY <1>0, <2>1, <4>2 DEF PostsAreNumbered
    <3>3. QED
      BY <1>0, <2>1, <3>1, <3>2 DEF PostsAreNumbered
  <2>3. CASE ~mock
    <3>1. UNCHANGED <<posts, sent>>
      BY <1>2, <2>3 DEF Notify
    <3>2. QED
      BY <1>0, <2>1, <3>1, NumbersKept
  <2>4. QED
    BY <2>2, <2>3
<1>3. ASSUME NEW t \in Tabs, Submit(t) PROVE PostsAreNumbered'
  <2> DEFINE c == modal[t]
             h == <<c, posts[c] + 1>>
  <2>1. /\ c \in Logins /\ c # NoCode /\ posting[t] = NoCode /\ posts[c] \in Nat
        /\ flight' = flight \cup {h} /\ posts' = [posts EXCEPT ![c] = posts[c] + 1]
        /\ UNCHANGED <<pc, sent, unheard>>
    BY <1>3 DEF Submit, TypeOK
  <2>2. /\ posts'[c] = posts[c] + 1 /\ \A m \in Logins \ {c} : posts'[m] = posts[m]
        /\ \A m \in Logins : posts[m] <= posts'[m]
    BY <2>1 DEF TypeOK
  <2>3. h[1] = c /\ h[2] = posts[c] + 1 /\ h \notin flight \cup sent
    BY <1>0, <2>1 DEF PostsAreNumbered
  <2>4. pc[c] \notin {"idle", "notify"} /\ (posts[c] = 0 \/ c \in unheard)
    BY <1>0, <2>1 DEF PromptedOnce
  <2> HIDE DEF c, h
  <2>5. \A g \in flight' \cup sent' : g[2] <= posts'[g[1]]
    <3>1. ASSUME NEW g \in flight \cup sent PROVE g[2] <= posts'[g[1]]
      <4>1. g[1] \in Logins /\ g[2] \in Nat /\ g[2] <= posts[g[1]]
        BY <1>0, HandInParts DEF PostsAreNumbered, TypeOK
      <4>2. posts[g[1]] \in Nat /\ posts'[g[1]] \in Nat /\ posts[g[1]] <= posts'[g[1]]
        BY <2>1, <2>2, <4>1 DEF TypeOK
      <4>3. QED
        BY <4>1, <4>2
    <3>2. h[2] <= posts'[h[1]]
      BY <2>1, <2>2, <2>3
    <3>3. QED
      BY <2>1, <3>1, <3>2
  <2>6. \A g \in flight' : g \notin sent'
    BY <1>0, <2>1, <2>3 DEF PostsAreNumbered
  <2>7. \A m \in Logins : /\ posts'[m] > 0 => pc'[m] \notin {"idle", "notify"}
                          /\ posts'[m] > 1 => m \in unheard'
    BY <1>0, <2>1, <2>2, <2>4 DEF PostsAreNumbered
  <2>8. QED
    BY <2>5, <2>6, <2>7 DEF PostsAreNumbered
<1>4. ASSUME NEW h \in HandIns, HandleCode(h) PROVE PostsAreNumbered'
  BY <1>0, <1>4 DEF HandleCode, PostsAreNumbered
<1>5. ASSUME NEW t \in Tabs, Unanswered(t) PROVE PostsAreNumbered'
  BY <1>0, <1>5 DEF Unanswered, PostsAreNumbered
<1>6. CASE LosePrompt \/ \E t \in Tabs : ShowPrompt(t) \/ CloseAfterPost(t) \/ CancelPrompt(t)
  BY <1>0, <1>6 DEF LosePrompt, ShowPrompt, CloseAfterPost, CancelPrompt, PostsAreNumbered
<1>7. CASE UNCHANGED vars
  BY <1>0, <1>7 DEF vars, uiVars, PostsAreNumbered
<1>8. QED
  BY <1>1, <1>2, <1>3, <1>4, <1>5, <1>6, <1>7, StepCases DEF LoginStep, UiStep

LEMMA PromptsUntouched ==
  ASSUME PromptedOnce, UNCHANGED <<mock, feed, modal, posting, posts, unheard>>, TypeOK,
         mock => flight' = flight,
         \A m \in Logins : pc[m] \notin {"idle", "notify"} => pc'[m] \notin {"idle", "notify"}
  PROVE  PromptedOnce'
<1>1. /\ \A i \in DOMAIN feed : feed[i] \in Logins
      /\ \A t \in Tabs : modal[t] # NoCode => modal[t] \in Logins
  BY ElementOfSeq, LenProperties DEF TypeOK
<1>2. QED
  BY <1>1 DEF PromptedOnce

\* The oldest event leaves the feed, for a tab or for nobody.
LEMMA FeedLoses ==
  ASSUME TypeOK, PromptedOnce, feed # <<>>, feed' = Tail(feed), UNCHANGED <<pc, posts>>,
         \A u \in Tabs : modal'[u] \in {modal[u], Head(feed)}
  PROVE  \A i \in DOMAIN feed' :
           /\ posts'[feed'[i]] = 0 /\ pc'[feed'[i]] \notin {"idle", "notify"}
           /\ \A j \in DOMAIN feed' : feed'[j] = feed'[i] => j = i
           /\ \A u \in Tabs : modal'[u] # feed'[i]
<1> DEFINE e == Head(feed)
           n == Len(feed)
<1>1. /\ e = feed[1] /\ n \in Nat /\ n >= 1
      /\ DOMAIN feed = 1..n /\ DOMAIN feed' = 1..(n - 1)
      /\ \A i \in 1..(n - 1) : feed'[i] = feed[i + 1]
  BY TailShifts DEF TypeOK
<1> HIDE DEF e, n
<1>2. 1 \in DOMAIN feed /\ \A i \in 1..(n - 1) : i + 1 \in DOMAIN feed /\ i + 1 # 1
  BY <1>1
<1>3. \A i \in DOMAIN feed : feed[i] = e => i = 1
  BY <1>1, <1>2 DEF PromptedOnce
<1>4. ASSUME NEW i \in DOMAIN feed'
      PROVE  /\ posts'[feed'[i]] = 0 /\ pc'[feed'[i]] \notin {"idle", "notify"}
             /\ \A j \in DOMAIN feed' : feed'[j] = feed'[i] => j = i
             /\ \A u \in Tabs : modal'[u] # feed'[i]
  <2>1. /\ i \in 1..(n - 1) /\ i + 1 \in DOMAIN feed
        /\ feed'[i] = feed[i + 1] /\ feed[i + 1] # e
    BY <1>1, <1>2, <1>3
  <2>2. /\ posts[feed[i + 1]] = 0 /\ pc[feed[i + 1]] \notin {"idle", "notify"}
        /\ \A j \in DOMAIN feed : feed[j] = feed[i + 1] => j = i + 1
        /\ \A u \in Tabs : modal[u] # feed[i + 1]
    BY <2>1 DEF PromptedOnce
  <2>3. ASSUME NEW j \in DOMAIN feed', feed'[j] = feed'[i] PROVE j = i
    <3>1. j \in 1..(n - 1) /\ j + 1 \in DOMAIN feed /\ feed[j + 1] = feed[i + 1]
      BY <1>1, <1>2, <2>1, <2>3
    <3>2. j + 1 = i + 1
      BY <2>2, <3>1
    <3>3. QED
      BY <1>1, <2>1, <3>1, <3>2
  <2>4. \A u \in Tabs : modal'[u] # feed[i + 1]
    BY <2>1, <2>2 DEF e
  <2>5. QED
    BY <2>1, <2>2, <2>3, <2>4
<1>5. QED
  BY <1>4

LEMMA PromptStep == TypeOK /\ CodesInv /\ [Next]_vars => PromptedOnce'
<1> SUFFICES ASSUME TypeOK, CodesInv, [Next]_vars PROVE PromptedOnce'
  OBVIOUS
<1> USE InputAssumption
<1>0. PostsAreNumbered /\ PromptedOnce
  BY DEF CodesInv
<1>1. ASSUME NEW l \in Logins,
             \/ Start(l) \/ NotifyDropped(l) \/ EnterWait(l) \/ Receive(l) \/ Timeout(l) \/ Leave(l)
      PROVE  PromptedOnce'
  <2>1. /\ UNCHANGED <<mock, feed, modal, posting, flight, posts, unheard>>
        /\ pc[l] = "idle" \/ pc'[l] \notin {"idle", "notify"}
        /\ \A m \in Logins \ {l} : pc'[m] = pc[m]
    BY <1>1 DEF Start, MayStart, NotifyDropped, EnterWait, TakeBuffered, QueueUp, Receive, Timeout,
                Leave, LeaveState, uiVars, TypeOK
  <2>2. QED
    BY <1>0, <2>1, PromptsUntouched
<1>2. ASSUME NEW l \in Logins, Notify(l) PROVE PromptedOnce'
  <2>1. /\ pc[l] = "notify" /\ pc'[l] = "enter"
        /\ \A m \in Logins \ {l} : pc'[m] = pc[m]
        /\ UNCHANGED <<mock, modal, posting, flight, unheard>>
    BY <1>2 DEF Notify, TypeOK
  <2>2. CASE mock
    <3>1. feed' = <<>> /\ flight' = {} /\ \A t \in Tabs : modal'[t] = NoCode
      BY <1>0, <1>2, <2>1, <2>2 DEF Notify, PromptedOnce
    <3>2. DOMAIN feed' = {}
      BY <3>1, EmptySeq
    <3>3. QED
      BY <3>1, <3>2 DEF PromptedOnce
  <2>3. CASE ~mock
    <3>1. feed' = Append(feed, l) /\ posts' = posts
      BY <1>2, <2>3 DEF Notify
    <3>2. /\ Len(feed) \in Nat /\ DOMAIN feed = 1..Len(feed)
          /\ DOMAIN feed' = 1..(Len(feed) + 1)
          /\ \A i \in 1..Len(feed) : feed'[i] = feed[i]
          /\ feed'[Len(feed) + 1] = l
      BY <3>1, AppendExtends DEF TypeOK
    <3> DEFINE n == Len(feed)
    <3> HIDE DEF n
    <3>3. /\ n \in Nat /\ DOMAIN feed = 1..n /\ DOMAIN feed' = 1..(n + 1)
          /\ \A i \in 1..n : feed'[i] = feed[i] /\ feed'[n + 1] = l
      BY <3>2 DEF n
    <3>4. /\ posts[l] = 0
          /\ \A i \in DOMAIN feed : feed[i] # l
          /\ \A t \in Tabs : modal[t] # l
      <4>1. posts[l] \in Nat /\ ~(posts[l] > 0)
        BY <1>0, <2>1 DEF PostsAreNumbered, TypeOK
      <4>2. QED
        BY <1>0, <2>1, <4>1, NoCodeAssumption DEF PromptedOnce
    <3>5. ASSUME NEW i \in DOMAIN feed'
          PROVE  /\ posts'[feed'[i]] = 0 /\ pc'[feed'[i]] \notin {"idle", "notify"}
                 /\ \A j \in DOMAIN feed' : feed'[j] = feed'[i] => j = i
                 /\ \A t \in Tabs : modal'[t] # feed'[i]
      <4>1. CASE i = n + 1
        <5>1. feed'[i] = l
          BY <4>1, <3>2 DEF n
        <5>2. \A j \in DOMAIN feed' : feed'[j] = l => j = n + 1
          BY <3>3, <3>4
        <5>3. QED
          BY <4>1, <5>1, <5>2, <2>1, <3>1, <3>4
      <4>2. CASE i # n + 1
        <5>1. i \in 1..n /\ i \in DOMAIN feed /\ feed'[i] = feed[i] /\ feed[i] \in Logins \ {l}
          <6>1. i \in 1..n
            BY <4>2, <3>3
          <6>2. feed[i] \in Logins
            BY <6>1, <3>3, ElementOfSeq DEF TypeOK, n
          <6>3. QED
            BY <6>1, <6>2, <3>3, <3>4
        <5>2. \A j \in 1..n : feed[j] = feed[i] => j = i
          BY <1>0, <3>3, <5>1 DEF PromptedOnce
        <5>3. feed'[n + 1] = l
          BY <3>2 DEF n
        <5>4. \A j \in DOMAIN feed' : feed'[j] = feed'[i] => j = i
          BY <3>3, <5>1, <5>2, <5>3
        <5>5. posts[feed[i]] = 0 /\ pc[feed[i]] \notin {"idle", "notify"}
              /\ \A t \in Tabs : modal[t] # feed[i]
          BY <1>0, <5>1 DEF PromptedOnce
        <5>6. QED
          BY <5>1, <5>4, <5>5, <2>1, <3>1
      <4>3. QED
        BY <4>1, <4>2
    <3>6. \A t \in Tabs : modal'[t] # NoCode =>
             /\ pc'[modal'[t]] \notin {"idle", "notify"}
             /\ \/ posts'[modal'[t]] = 0
                \/ modal'[t] \in unheard'
                \/ posting'[t] # NoCode /\ posting'[t][1] = modal'[t]
             /\ \A u \in Tabs : modal'[u] = modal'[t] => u = t
      <4>1. \A t \in Tabs : modal[t] # NoCode => modal[t] \in Logins \ {l}
        BY <3>4 DEF TypeOK
      <4>2. QED
        BY <4>1, <1>0, <2>1, <3>1 DEF PromptedOnce
    <3>7. mock' => feed' = <<>> /\ flight' = {} /\ \A t \in Tabs : modal'[t] = NoCode
      BY <2>1, <2>3
    <3>8. QED
      BY <3>5, <3>6, <3>7 DEF PromptedOnce
  <2>4. QED
    BY <2>2, <2>3
<1>3. ASSUME NEW t \in Tabs, ShowPrompt(t) PROVE PromptedOnce'
  <2> DEFINE e == Head(feed)
  <2>1. /\ feed # <<>> /\ feed' = Tail(feed)
        /\ UNCHANGED <<mock, pc, posting, posts, flight, unheard>>
        /\ modal'[t] = e /\ \A u \in Tabs \ {t} : modal'[u] = modal[u]
    BY <1>3 DEF ShowPrompt, TypeOK
  <2>2. 1 \in DOMAIN feed /\ e = feed[1]
    BY <2>1, TailShifts DEF TypeOK
  <2>3. /\ posts[e] = 0 /\ pc[e] \notin {"idle", "notify"}
        /\ \A u \in Tabs : modal[u] # e
    BY <1>0, <2>2 DEF PromptedOnce
  <2>4. \A u \in Tabs : modal'[u] \in {modal[u], Head(feed)}
    BY <2>1
  <2>5. \A i \in DOMAIN feed' :
           /\ posts'[feed'[i]] = 0 /\ pc'[feed'[i]] \notin {"idle", "notify"}
           /\ \A j \in DOMAIN feed' : feed'[j] = feed'[i] => j = i
           /\ \A u \in Tabs : modal'[u] # feed'[i]
    BY <1>0, <2>1, <2>4, FeedLoses
  <2> HIDE DEF e
  <2>6. \A u \in Tabs : modal'[u] # NoCode =>
           /\ pc'[modal'[u]] \notin {"idle", "notify"}
           /\ \/ posts'[modal'[u]] = 0
              \/ modal'[u] \in unheard'
              \/ posting'[u] # NoCode /\ posting'[u][1] = modal'[u]
           /\ \A v \in Tabs : modal'[v] = modal'[u] => v = u
    BY <1>0, <2>1, <2>3 DEF PromptedOnce
  <2>7. ~mock'
    BY <1>0, <2>1 DEF PromptedOnce
  <2>8. QED
    BY <2>5, <2>6, <2>7 DEF PromptedOnce
<1>4. CASE LosePrompt
  <2>1. /\ feed # <<>> /\ feed' = Tail(feed)
        /\ UNCHANGED <<mock, pc, modal, posting, posts, flight, unheard>>
    BY <1>4 DEF LosePrompt
  <2>2. \A i \in DOMAIN feed' :
           /\ posts'[feed'[i]] = 0 /\ pc'[feed'[i]] \notin {"idle", "notify"}
           /\ \A j \in DOMAIN feed' : feed'[j] = feed'[i] => j = i
           /\ \A u \in Tabs : modal'[u] # feed'[i]
    BY <1>0, <2>1, FeedLoses
  <2>3. QED
    BY <1>0, <2>1, <2>2 DEF PromptedOnce
<1>5. ASSUME NEW t \in Tabs, Submit(t) PROVE PromptedOnce'
  <2> DEFINE c == modal[t]
             h == <<c, posts[c] + 1>>
  <2>1. /\ c \in Logins /\ c # NoCode /\ posting[t] = NoCode
        /\ posting'[t] = h /\ \A u \in Tabs \ {t} : posting'[u] = posting[u]
        /\ \A m \in Logins \ {c} : posts'[m] = posts[m]
        /\ UNCHANGED <<mock, pc, feed, modal, unheard>>
    BY <1>5 DEF Submit, TypeOK
  <2>2. h \in HandIns
    BY <1>5, <2>1 DEF Submit, HandIns, TypeOK
  <2>3. h # NoCode /\ h[1] = c
    BY <2>2, HandInParts
  <2> HIDE DEF c, h
  <2>4. ~mock' /\ modal[t] = c /\ \A i \in DOMAIN feed : feed[i] \in Logins \ {c}
    BY <1>0, <2>1, ElementOfSeq, LenProperties DEF PromptedOnce, TypeOK, c
  <2>5. \A u \in Tabs : modal[u] # NoCode =>
           \/ posts'[modal[u]] = 0
           \/ modal[u] \in unheard'
           \/ posting'[u] # NoCode /\ posting'[u][1] = modal[u]
    <3>1. ASSUME NEW u \in Tabs \ {t}, modal[u] # NoCode PROVE modal[u] \in Logins \ {c}
      BY <1>0, <2>1, <2>4, <3>1 DEF PromptedOnce, TypeOK
    <3>2. QED
      BY <1>0, <2>1, <2>3, <2>4, <3>1 DEF PromptedOnce
  <2>6. QED
    BY <1>0, <2>1, <2>4, <2>5 DEF PromptedOnce
<1>6. ASSUME NEW h \in HandIns, HandleCode(h) PROVE PromptedOnce'
  <2>1. ~mock
    BY <1>0, <1>6 DEF HandleCode, PromptedOnce
  <2>2. QED
    BY <1>0, <1>6, <2>1, PromptsUntouched DEF HandleCode
<1>7. ASSUME NEW t \in Tabs, Unanswered(t) PROVE PromptedOnce'
  <2>1. /\ UNCHANGED <<mock, pc, feed, modal, posts, flight>>
        /\ unheard' = unheard \cup {posting[t][1]}
        /\ \A u \in Tabs \ {t} : posting'[u] = posting[u]
    BY <1>7 DEF Unanswered, TypeOK
  <2>2. \A u \in Tabs : modal[u] # NoCode =>
           \/ posts[modal[u]] = 0
           \/ modal[u] \in unheard'
           \/ posting'[u] # NoCode /\ posting'[u][1] = modal[u]
    BY <1>0, <2>1 DEF PromptedOnce
  <2>3. QED
    BY <1>0, <2>1, <2>2 DEF PromptedOnce
<1>8. ASSUME NEW t \in Tabs, CloseAfterPost(t) \/ CancelPrompt(t) PROVE PromptedOnce'
  <2>1. /\ UNCHANGED <<mock, pc, feed, posts, flight, unheard>>
        /\ modal'[t] = NoCode
        /\ \A u \in Tabs \ {t} : modal'[u] = modal[u] /\ posting'[u] = posting[u]
    BY <1>8 DEF CloseAfterPost, CancelPrompt, TypeOK
  <2>2. \A i \in DOMAIN feed : feed[i] # NoCode
    BY ElementOfSeq, LenProperties, NoCodeAssumption DEF TypeOK
  <2>3. QED
    BY <1>0, <2>1, <2>2 DEF PromptedOnce
<1>9. CASE UNCHANGED vars
  BY <1>0, <1>9 DEF vars, uiVars, PromptedOnce
<1>10. QED
  BY <1>1, <1>2, <1>3, <1>4, <1>5, <1>6, <1>7, <1>8, <1>9, StepCases DEF LoginStep, UiStep

-----------------------------------------------------------------------------
(* Arrival order.                                                          *)

\* A login's place in the arrival history, with its type.
LEMMA ArrivedLogin ==
  ASSUME TypeOK, NEW r \in Runs
  PROVE  /\ \A i \in DOMAIN arrivals[r] : arrivals[r][i] \in Logins
         /\ DOMAIN arrivals[r] = 1..Len(arrivals[r])
         /\ \A a \in DOMAIN waiters[r] : waiters[r][a] \in Logins
         /\ DOMAIN waiters[r] = 1..Len(waiters[r])
BY ElementOfSeq, LenProperties DEF TypeOK

\* The queue still follows the history when it only lost logins.
LEMMA SubQueueFollows ==
  ASSUME TypeOK, QueueFollowsArrivals, UNCHANGED arrivals,
         \A m \in Logins : pc[m] \notin {"idle", "notify", "enter"} =>
                             pc'[m] \notin {"idle", "notify", "enter"},
         \A r \in Runs : \A a \in DOMAIN waiters'[r] :
            \E x \in DOMAIN waiters[r] : waiters'[r][a] = waiters[r][x],
         \A r \in Runs : \A a, b \in DOMAIN waiters'[r] : a < b =>
            \E x, y \in DOMAIN waiters[r] :
               x < y /\ waiters'[r][a] = waiters[r][x] /\ waiters'[r][b] = waiters[r][y]
  PROVE  QueueFollowsArrivals'
<1> SUFFICES ASSUME NEW r \in Runs
             PROVE  /\ \A i \in DOMAIN arrivals[r] :
                          /\ RunOf[arrivals[r][i]] = r
                          /\ pc'[arrivals[r][i]] \notin {"idle", "notify", "enter"}
                          /\ \A j \in DOMAIN arrivals[r] : arrivals[r][j] = arrivals[r][i] => j = i
                    /\ \A a \in DOMAIN waiters'[r] :
                          \E i \in DOMAIN arrivals[r] : arrivals[r][i] = waiters'[r][a]
                    /\ \A a, b \in DOMAIN waiters'[r] : \A i, j \in DOMAIN arrivals[r] :
                          /\ a < b
                          /\ arrivals[r][i] = waiters'[r][a]
                          /\ arrivals[r][j] = waiters'[r][b]
                          => i < j
  BY DEF QueueFollowsArrivals
<1>1. \A i \in DOMAIN arrivals[r] :
         /\ RunOf[arrivals[r][i]] = r
         /\ pc'[arrivals[r][i]] \notin {"idle", "notify", "enter"}
         /\ \A j \in DOMAIN arrivals[r] : arrivals[r][j] = arrivals[r][i] => j = i
  BY ArrivedLogin DEF QueueFollowsArrivals
<1>2. \A a \in DOMAIN waiters'[r] :
         \E i \in DOMAIN arrivals[r] : arrivals[r][i] = waiters'[r][a]
  BY DEF QueueFollowsArrivals
<1>3. ASSUME NEW a \in DOMAIN waiters'[r], NEW b \in DOMAIN waiters'[r],
             NEW i \in DOMAIN arrivals[r], NEW j \in DOMAIN arrivals[r],
             a < b, arrivals[r][i] = waiters'[r][a], arrivals[r][j] = waiters'[r][b]
      PROVE  i < j
  <2>1. PICK x, y \in DOMAIN waiters[r] :
           x < y /\ waiters'[r][a] = waiters[r][x] /\ waiters'[r][b] = waiters[r][y]
    BY <1>3
  <2>2. QED
    BY <1>3, <2>1 DEF QueueFollowsArrivals
<1>4. QED
  BY <1>1, <1>2, <1>3

\* Queueing up appends to both the queue and the history.
LEMMA QueueUpFollows ==
  ASSUME TypeOK, QueueInv, QueueFollowsArrivals, NEW l \in Logins,
         pc[l] = "enter", QueueUp(l)
  PROVE  QueueFollowsArrivals'
<1> USE InputAssumption
<1> DEFINE r == RunOf[l]
           n == Len(arrivals[r])
           k == Len(waiters[r])
<1>1. /\ r \in Runs /\ waiters[r] \in Seq(Logins) /\ arrivals[r] \in Seq(Logins)
      /\ waiters'[r] = Append(waiters[r], l) /\ arrivals'[r] = Append(arrivals[r], l)
      /\ \A q \in Runs \ {r} : waiters'[q] = waiters[q] /\ arrivals'[q] = arrivals[q]
      /\ pc'[l] = "waiting" /\ \A m \in Logins \ {l} : pc'[m] = pc[m]
  BY DEF QueueUp, TypeOK
<1>2. /\ n \in Nat /\ DOMAIN arrivals[r] = 1..n /\ DOMAIN arrivals'[r] = 1..(n + 1)
      /\ \A i \in 1..n : arrivals'[r][i] = arrivals[r][i]
      /\ arrivals'[r][n + 1] = l
  BY <1>1, AppendExtends
<1>3. /\ k \in Nat /\ DOMAIN waiters[r] = 1..k /\ DOMAIN waiters'[r] = 1..(k + 1)
      /\ \A i \in 1..k : waiters'[r][i] = waiters[r][i]
      /\ waiters'[r][k + 1] = l
  BY <1>1, AppendExtends
<1> HIDE DEF n, k
<1>4. \A q \in Runs : /\ \A i \in DOMAIN arrivals[q] : arrivals[q][i] # l
                      /\ \A a \in DOMAIN waiters[q] : waiters[q][a] # l
  BY QueuedLogin DEF QueueFollowsArrivals
<1>5. ASSUME NEW q \in Runs, q # r
      PROVE  /\ \A i \in DOMAIN arrivals'[q] :
                   /\ RunOf[arrivals'[q][i]] = q
                   /\ pc'[arrivals'[q][i]] \notin {"idle", "notify", "enter"}
                   /\ \A j \in DOMAIN arrivals'[q] : arrivals'[q][j] = arrivals'[q][i] => j = i
             /\ \A a \in DOMAIN waiters'[q] :
                   \E i \in DOMAIN arrivals'[q] : arrivals'[q][i] = waiters'[q][a]
             /\ \A a, b \in DOMAIN waiters'[q] : \A i, j \in DOMAIN arrivals'[q] :
                   /\ a < b
                   /\ arrivals'[q][i] = waiters'[q][a]
                   /\ arrivals'[q][j] = waiters'[q][b]
                   => i < j
  <2>1. waiters'[q] = waiters[q] /\ arrivals'[q] = arrivals[q]
    BY <1>1, <1>5
  <2>2. \A i \in DOMAIN arrivals[q] :
           arrivals[q][i] \in Logins \ {l} /\ pc'[arrivals[q][i]] = pc[arrivals[q][i]]
    BY <1>1, <1>4, ArrivedLogin
  <2>3. /\ \A i \in DOMAIN arrivals[q] :
              /\ RunOf[arrivals[q][i]] = q
              /\ pc[arrivals[q][i]] \notin {"idle", "notify", "enter"}
              /\ \A j \in DOMAIN arrivals[q] : arrivals[q][j] = arrivals[q][i] => j = i
        /\ \A a \in DOMAIN waiters[q] :
              \E i \in DOMAIN arrivals[q] : arrivals[q][i] = waiters[q][a]
        /\ \A a, b \in DOMAIN waiters[q] : \A i, j \in DOMAIN arrivals[q] :
              a < b /\ arrivals[q][i] = waiters[q][a] /\ arrivals[q][j] = waiters[q][b] => i < j
    BY DEF QueueFollowsArrivals
  <2>4. QED
    BY <2>1, <2>2, <2>3
<1>6. ASSUME NEW i \in DOMAIN arrivals'[r]
      PROVE  /\ RunOf[arrivals'[r][i]] = r
             /\ pc'[arrivals'[r][i]] \notin {"idle", "notify", "enter"}
             /\ \A j \in DOMAIN arrivals'[r] : arrivals'[r][j] = arrivals'[r][i] => j = i
  <2>1. CASE i = n + 1
    <3>1. \A j \in DOMAIN arrivals'[r] : arrivals'[r][j] = l => j = n + 1
      BY <1>1, <1>2, <1>4
    <3>2. QED
      BY <1>1, <1>2, <2>1, <3>1
  <2>2. CASE i # n + 1
    <3>1. i \in 1..n /\ arrivals'[r][i] = arrivals[r][i] /\ arrivals[r][i] \in Logins \ {l}
      BY <1>1, <1>2, <1>4, <2>2, ArrivedLogin
    <3>2. \A j \in 1..n : arrivals[r][j] = arrivals[r][i] => j = i
      BY <1>1, <1>2, <3>1 DEF QueueFollowsArrivals
    <3>3. ASSUME NEW j \in DOMAIN arrivals'[r], arrivals'[r][j] = arrivals'[r][i] PROVE j = i
      <4>1. j # n + 1
        BY <1>2, <3>1, <3>3
      <4>2. j \in 1..n /\ arrivals'[r][j] = arrivals[r][j]
        BY <1>2, <4>1
      <4>3. QED
        BY <3>1, <3>2, <3>3, <4>2
    <3>4. RunOf[arrivals[r][i]] = r /\ pc[arrivals[r][i]] \notin {"idle", "notify", "enter"}
      BY <1>1, <1>2, <3>1 DEF QueueFollowsArrivals
    <3>5. QED
      BY <1>1, <3>1, <3>3, <3>4
  <2>3. QED
    BY <2>1, <2>2
<1>7. ASSUME NEW a \in DOMAIN waiters'[r]
      PROVE  \E i \in DOMAIN arrivals'[r] : arrivals'[r][i] = waiters'[r][a]
  <2>1. CASE a = k + 1
    <3>1. n + 1 \in DOMAIN arrivals'[r]
      BY <1>2
    <3>2. QED
      BY <1>2, <1>3, <2>1, <3>1
  <2>2. CASE a # k + 1
    <3>1. a \in DOMAIN waiters[r] /\ waiters'[r][a] = waiters[r][a]
      BY <1>3, <2>2
    <3>2. PICK i \in DOMAIN arrivals[r] : arrivals[r][i] = waiters[r][a]
      BY <1>1, <3>1 DEF QueueFollowsArrivals
    <3>3. i \in DOMAIN arrivals'[r] /\ arrivals'[r][i] = arrivals[r][i]
      BY <1>2
    <3>4. QED
      BY <3>1, <3>2, <3>3
  <2>3. QED
    BY <2>1, <2>2
<1>8. ASSUME NEW a \in DOMAIN waiters'[r], NEW b \in DOMAIN waiters'[r],
             NEW i \in DOMAIN arrivals'[r], NEW j \in DOMAIN arrivals'[r],
             a < b, arrivals'[r][i] = waiters'[r][a], arrivals'[r][j] = waiters'[r][b]
      PROVE  i < j
  <2> HIDE DEF r
  <2>1. a \in 1..k /\ waiters'[r][a] = waiters[r][a] /\ waiters[r][a] # l
    <3>1. a \in 1..(k + 1) /\ b \in 1..(k + 1)
      BY <1>3
    <3>2. a \in 1..k
      BY <1>3, <1>8, <3>1
    <3>3. QED
      BY <1>1, <1>3, <1>4, <3>2
  <2>2. i # n + 1
    BY <1>2, <1>8, <2>1
  <2>3. i \in 1..n /\ arrivals[r][i] = waiters[r][a]
    BY <1>2, <1>8, <2>1, <2>2
  <2>4. CASE j = n + 1
    BY <1>2, <2>3, <2>4
  <2>5. CASE j # n + 1
    <3>1. j \in 1..n /\ arrivals'[r][j] = arrivals[r][j] /\ arrivals[r][j] # l
      BY <1>1, <1>2, <1>4, <2>5
    <3>2. b # k + 1
      BY <1>3, <1>8, <3>1
    <3>3. b \in 1..k /\ waiters'[r][b] = waiters[r][b]
      BY <1>3, <3>2
    <3>4. QED
      <4>1. /\ a \in DOMAIN waiters[r] /\ b \in DOMAIN waiters[r]
            /\ i \in DOMAIN arrivals[r] /\ j \in DOMAIN arrivals[r]
            /\ arrivals[r][i] = waiters[r][a] /\ arrivals[r][j] = waiters[r][b]
        BY <1>2, <1>3, <1>8, <2>1, <2>3, <3>1, <3>3
      <4>2. QED
        BY <1>1, <1>8, <4>1 DEF QueueFollowsArrivals
  <2>6. QED
    BY <2>4, <2>5
<1>9. QED
  BY <1>5, <1>6, <1>7, <1>8 DEF QueueFollowsArrivals

LEMMA FollowsStep == TypeOK /\ QueueInv /\ QueueFollowsArrivals /\ [Next]_vars => QueueFollowsArrivals'
<1> SUFFICES ASSUME TypeOK, QueueInv, QueueFollowsArrivals, [Next]_vars
             PROVE  QueueFollowsArrivals'
  OBVIOUS
<1> USE InputAssumption
<1>1. ASSUME UNCHANGED <<waiters, arrivals>>,
             \A m \in Logins : pc[m] \notin {"idle", "notify", "enter"} =>
                                 pc'[m] \notin {"idle", "notify", "enter"}
      PROVE  QueueFollowsArrivals'
  BY <1>1, SubQueueFollows
<1>2. ASSUME NEW r \in Runs, NEW h \in HandIns, Deliver(r, h), UNCHANGED arrivals,
             \A m \in Logins : pc[m] \notin {"idle", "notify", "enter"} =>
                                 pc'[m] \notin {"idle", "notify", "enter"}
      PROVE  QueueFollowsArrivals'
  <2> DEFINE k == Len(waiters[r])
  <2>1. CASE waiters' = waiters
    BY <1>1, <1>2, <2>1
  <2>2. CASE waiters[r] # <<>> /\ waiters' = [waiters EXCEPT ![r] = Tail(@)]
    <3>1. /\ waiters'[r] = Tail(waiters[r])
          /\ \A q \in Runs \ {r} : waiters'[q] = waiters[q]
          /\ waiters[r] \in Seq(Logins)
      BY <2>2 DEF TypeOK
    <3>2. /\ k \in Nat /\ k >= 1 /\ DOMAIN waiters[r] = 1..k
          /\ DOMAIN waiters'[r] = 1..(k - 1)
          /\ \A i \in 1..(k - 1) : waiters'[r][i] = waiters[r][i + 1]
      <4>1. /\ k \in Nat /\ k >= 1 /\ DOMAIN waiters[r] = 1..k
            /\ DOMAIN Tail(waiters[r]) = 1..(k - 1)
            /\ \A i \in 1..(k - 1) : Tail(waiters[r])[i] = waiters[r][i + 1]
        BY <2>2, <3>1, TailShifts
      <4> HIDE DEF k
      <4>2. QED
        BY <3>1, <4>1
    <3> HIDE DEF k
    <3>3. \A a \in DOMAIN waiters'[r] : a + 1 \in DOMAIN waiters[r] /\ waiters'[r][a] = waiters[r][a + 1]
      BY <3>2
    <3>4. \A q \in Runs : \A a \in DOMAIN waiters'[q] :
             \E x \in DOMAIN waiters[q] : waiters'[q][a] = waiters[q][x]
      BY <3>1, <3>3
    <3>5. ASSUME NEW q \in Runs, NEW a \in DOMAIN waiters'[q], NEW b \in DOMAIN waiters'[q], a < b
          PROVE  \E x, y \in DOMAIN waiters[q] :
                    x < y /\ waiters'[q][a] = waiters[q][x] /\ waiters'[q][b] = waiters[q][y]
      <4>1. CASE q = r
        <5>1. a + 1 < b + 1
          BY <3>2, <3>5, <4>1
        <5>2. QED
          BY <3>3, <3>5, <4>1, <5>1
      <4>2. CASE q # r
        BY <3>1, <3>5, <4>2
      <4>3. QED
        BY <4>1, <4>2
    <3>6. QED
      BY <1>2, <3>4, <3>5, SubQueueFollows
  <2>3. QED
    BY <1>2, <2>1, <2>2, DeliverEffect
<1>3. ASSUME NEW l \in Logins, Start(l) \/ NotifyDropped(l) \/ Receive(l) \/ Timeout(l)
      PROVE  QueueFollowsArrivals'
  BY <1>1, <1>3 DEF Start, MayStart, NotifyDropped, Receive, Timeout, brokerVars, TypeOK
<1>4. ASSUME NEW l \in Logins, Notify(l) PROVE QueueFollowsArrivals'
  <2>1. /\ UNCHANGED arrivals
        /\ \A m \in Logins : pc[m] \notin {"idle", "notify", "enter"} =>
                               pc'[m] \notin {"idle", "notify", "enter"}
    BY <1>4 DEF Notify, TypeOK
  <2>2. CASE Deliver(RunOf[l], <<l, 1>>)
    BY <1>2, <2>1, <2>2, FirstHandIn
  <2>3. CASE UNCHANGED brokerVars
    BY <1>1, <2>1, <2>3 DEF brokerVars
  <2>4. QED
    BY <1>4, <2>2, <2>3 DEF Notify
<1>5. ASSUME NEW l \in Logins, EnterWait(l) PROVE QueueFollowsArrivals'
  <2>1. CASE TakeBuffered(l)
    BY <1>1, <1>5, <2>1 DEF TakeBuffered, TypeOK
  <2>2. CASE QueueUp(l)
    BY <1>5, <2>2, QueueUpFollows DEF EnterWait
  <2>3. QED
    BY <1>5, <2>1, <2>2 DEF EnterWait
<1>6. ASSUME NEW l \in Logins, Leave(l) PROVE QueueFollowsArrivals'
  <2> DEFINE r == RunOf[l]
             n == Len(waiters[r])
  <2>1. /\ UNCHANGED arrivals
        /\ \A m \in Logins : pc[m] \notin {"idle", "notify", "enter"} =>
                               pc'[m] \notin {"idle", "notify", "enter"}
    BY <1>6 DEF Leave, LeaveState, TypeOK
  <2>2. CASE UNCHANGED waiters
    BY <1>1, <2>1, <2>2
  <2>3. ASSUME NEW k \in DOMAIN waiters[r], waiters' = [waiters EXCEPT ![r] = RemoveAt(@, k)]
        PROVE  QueueFollowsArrivals'
    <3>1. /\ waiters[r] \in Seq(Logins) /\ n \in Nat /\ DOMAIN waiters[r] = 1..n /\ k \in 1..n
          /\ waiters'[r] = RemoveAt(waiters[r], k)
          /\ \A q \in Runs \ {r} : waiters'[q] = waiters[q]
      BY <2>3, LenProperties DEF TypeOK
    <3>2. /\ DOMAIN waiters'[r] = 1..(n - 1)
          /\ \A j \in 1..(n - 1) :
                waiters'[r][j] = IF j < k THEN waiters[r][j] ELSE waiters[r][j + 1]
      <4>1. /\ RemoveAt(waiters[r], k) \in Seq(Logins)
            /\ Len(RemoveAt(waiters[r], k)) = n - 1
            /\ \A j \in 1..(n - 1) :
                  RemoveAt(waiters[r], k)[j] = IF j < k THEN waiters[r][j] ELSE waiters[r][j + 1]
        BY <3>1, RemoveAtShifts
      <4>2. QED
        BY <3>1, <4>1, LenProperties
    <3> HIDE DEF n
    <3> DEFINE old(j) == IF j < k THEN j ELSE j + 1
    <3>3. ASSUME NEW j \in 1..(n - 1)
          PROVE  old(j) \in 1..n /\ waiters'[r][j] = waiters[r][old(j)]
      <4>1. old(j) \in 1..n
        BY <3>1
      <4>2. waiters'[r][j] = IF j < k THEN waiters[r][j] ELSE waiters[r][j + 1]
        BY <3>2
      <4>3. QED
        BY <4>1, <4>2
    <3>4. \A i, j \in 1..(n - 1) : i < j => old(i) < old(j)
      BY <3>1
    <3> HIDE DEF old
    <3>5. \A q \in Runs : \A a \in DOMAIN waiters'[q] :
             \E x \in DOMAIN waiters[q] : waiters'[q][a] = waiters[q][x]
      BY <3>1, <3>2, <3>3
    <3>6. ASSUME NEW q \in Runs, NEW a \in DOMAIN waiters'[q], NEW b \in DOMAIN waiters'[q], a < b
          PROVE  \E x, y \in DOMAIN waiters[q] :
                    x < y /\ waiters'[q][a] = waiters[q][x] /\ waiters'[q][b] = waiters[q][y]
      <4>1. CASE q = r
        <5>1. old(a) < old(b)
          BY <3>2, <3>4, <3>6, <4>1
        <5>2. /\ old(a) \in DOMAIN waiters[q] /\ waiters'[q][a] = waiters[q][old(a)]
              /\ old(b) \in DOMAIN waiters[q] /\ waiters'[q][b] = waiters[q][old(b)]
          BY <3>1, <3>2, <3>3, <3>6, <4>1
        <5>3. QED
          BY <5>1, <5>2
      <4>2. CASE q # r
        BY <3>1, <3>6, <4>2
      <4>3. QED
        BY <4>1, <4>2
    <3>7. QED
      BY <2>1, <3>5, <3>6, SubQueueFollows
  <2>4. QED
    BY <1>6, <2>2, <2>3 DEF Leave
<1>7. ASSUME NEW h \in HandIns, HandleCode(h) PROVE QueueFollowsArrivals'
  <2>1. RunOf[h[1]] \in Runs /\ UNCHANGED <<pc, arrivals>> /\ Deliver(RunOf[h[1]], h)
    BY <1>7, HandInParts DEF HandleCode
  <2>2. QED
    BY <1>2, <2>1
<1>8. CASE UiStep
  BY <1>1, <1>8, UiStepIsQuiet DEF brokerVars
<1>9. CASE UNCHANGED vars
  BY <1>1, <1>9 DEF vars, brokerVars
<1>10. QED
  BY <1>3, <1>4, <1>5, <1>6, <1>7, <1>8, <1>9, StepCases DEF LoginStep

GaveUp(l) == pc[l] \in {"expired", "failed"}

\* When no login is newly served and none is forgotten, the order stays right.
LEMMA OrderStable ==
  ASSUME TypeOK, ServedInArrivalOrder, UNCHANGED arrivals,
         \A m \in Logins : /\ Served(m)' <=> Served(m)
                           /\ GaveUp(m) => GaveUp(m)'
  PROVE  ServedInArrivalOrder'
BY ArrivedLogin DEF ServedInArrivalOrder, GaveUp

\* A hand-over serves the login that queued first of those still without a code.
LEMMA HandOverInOrder ==
  ASSUME TypeOK, QueueInv, GotIsTaken, QueueFollowsArrivals, ServedInArrivalOrder,
         NEW r \in Runs, NEW h \in HandIns, Deliver(r, h), UNCHANGED <<got, arrivals>>,
         \A m \in Logins : pc'[m] = pc[m] \/ (pc[m] = "notify" /\ pc'[m] = "enter")
  PROVE  ServedInArrivalOrder'
<1> USE InputAssumption
<1>0. \A m \in Logins : GaveUp(m) => GaveUp(m)'
  BY DEF GaveUp
<1>1. CASE UNCHANGED chan
  <2>1. \A m \in Logins : Served(m)' <=> Served(m)
    BY <1>1 DEF Served
  <2>2. QED
    BY <1>0, <2>1, OrderStable
<1>2. ASSUME NEW w \in Logins, waiters[r] # <<>>, w = waiters[r][1],
             RunOf[w] = r, chan' = [chan EXCEPT ![w] = h]
      PROVE  ServedInArrivalOrder'
  <2>1. 1 \in DOMAIN waiters[r]
    BY <1>2, TailShifts DEF TypeOK
  <2>2. \A m \in Logins : Served(m) => Served(m)'
    BY <1>2, HandInParts DEF Served, TypeOK
  <2>3. \A m \in Logins \ {w} : Served(m)' => Served(m)
    BY <1>2 DEF Served, TypeOK
  <2>4. ASSUME NEW q \in Runs, NEW i \in DOMAIN arrivals[q], NEW j \in DOMAIN arrivals[q],
               i < j, Served(arrivals[q][j])'
        PROVE  Served(arrivals[q][i])' \/ GaveUp(arrivals[q][i])'
    <3> DEFINE e == arrivals[q][i]
               x == arrivals[q][j]
    <3>1. e \in Logins /\ x \in Logins /\ RunOf[x] = q /\ RunOf[e] = q
      BY ArrivedLogin DEF QueueFollowsArrivals
    <3>2. CASE x # w
      <4>1. Served(x)
        BY <2>3, <2>4, <3>1, <3>2
      <4>2. Served(e) \/ GaveUp(e)
        BY <2>4, <4>1 DEF ServedInArrivalOrder, GaveUp
      <4>3. QED
        BY <1>0, <2>2, <3>1, <4>2
    <3>3. CASE x = w
      <4>1. q = r
        BY <1>2, <3>1, <3>3
      <4>0. i \in Nat /\ j \in Nat
        BY <2>1, <4>1, ArrivedLogin
      <4>2. e # w
        BY <2>4, <3>3, <4>0 DEF QueueFollowsArrivals
      <4>3. ~Blocked(e)
        <5>1. SUFFICES ASSUME Blocked(e) PROVE FALSE
          OBVIOUS
        <5>2. PICK a \in DOMAIN waiters[r] : waiters[r][a] = e
          BY <3>1, <4>1, <5>1 DEF QueueInv, QueueIsExact
        <5>3. 1 < a
          BY <1>2, <2>1, <4>2, <5>2, ArrivedLogin
        <5>4. /\ 1 \in DOMAIN waiters[r] /\ a \in DOMAIN waiters[r]
              /\ arrivals[r][j] = waiters[r][1] /\ arrivals[r][i] = waiters[r][a]
          BY <1>2, <2>1, <3>3, <4>1, <5>2
        <5>5. j < i
          <6>1. \A y, z \in DOMAIN waiters[r] : \A g, k \in DOMAIN arrivals[r] :
                   y < z /\ arrivals[r][g] = waiters[r][y] /\ arrivals[r][k] = waiters[r][z] => g < k
            BY <2>1 DEF QueueFollowsArrivals
          <6>2. i \in DOMAIN arrivals[r] /\ j \in DOMAIN arrivals[r]
            BY <4>1
          <6>3. QED
            BY <5>3, <5>4, <6>1, <6>2
        <5>6. QED
          BY <2>4, <4>0, <5>5
      <4>4. pc[e] \notin {"idle", "notify", "enter"}
        BY DEF QueueFollowsArrivals
      <4>5. CASE pc[e] = "waiting"
        BY <2>2, <3>1, <4>3, <4>5 DEF Blocked, Served
      <4>6. CASE pc[e] \in {"received", "done"}
        BY <2>2, <3>1, <4>6 DEF GotIsTaken, Served
      <4>7. CASE pc[e] \in {"expired", "failed"}
        BY <1>0, <3>1, <4>7 DEF GaveUp
      <4>8. pc[e] \in LoginStates
        BY <3>1 DEF TypeOK
      <4>9. QED
        BY <4>4, <4>5, <4>6, <4>7, <4>8 DEF LoginStates
    <3>4. QED
      BY <3>2, <3>3
  <2>5. QED
    BY <2>4 DEF ServedInArrivalOrder, GaveUp
<1>3. QED
  BY <1>1, <1>2, DeliverEffect

\* A login that queues up goes behind everybody, and has no code yet.
LEMMA QueueUpInOrder ==
  ASSUME TypeOK, QueueInv, GotIsTaken, QueueFollowsArrivals, ServedInArrivalOrder,
         NEW l \in Logins, pc[l] = "enter", QueueUp(l), UNCHANGED chan
  PROVE  ServedInArrivalOrder'
<1> USE InputAssumption
<1> DEFINE r == RunOf[l]
           n == Len(arrivals[r])
<1>1. /\ r \in Runs /\ arrivals[r] \in Seq(Logins) /\ UNCHANGED got
      /\ arrivals'[r] = Append(arrivals[r], l)
      /\ \A q \in Runs \ {r} : arrivals'[q] = arrivals[q]
      /\ \A m \in Logins \ {l} : pc'[m] = pc[m]
  BY DEF QueueUp, TypeOK
<1>2. /\ n \in Nat /\ DOMAIN arrivals[r] = 1..n /\ DOMAIN arrivals'[r] = 1..(n + 1)
      /\ \A i \in 1..n : arrivals'[r][i] = arrivals[r][i]
      /\ arrivals'[r][n + 1] = l
  BY <1>1, AppendExtends
<1> HIDE DEF n, r
<1>3. /\ \A m \in Logins : Served(m)' <=> Served(m)
      /\ ~Served(l)
  BY <1>1 DEF Served, GotIsTaken, QueueInv, ChannelMadeInWait
<1>4. ASSUME NEW q \in Runs, NEW i \in DOMAIN arrivals'[q], NEW j \in DOMAIN arrivals'[q],
             i < j, chan[arrivals'[q][j]] # NoCode \/ got[arrivals'[q][j]] # NoCode
      PROVE  \/ chan[arrivals'[q][i]] # NoCode \/ got[arrivals'[q][i]] # NoCode
             \/ pc'[arrivals'[q][i]] \in {"expired", "failed"}
  <2>1. /\ i \in DOMAIN arrivals[q] /\ arrivals'[q][i] = arrivals[q][i]
        /\ j \in DOMAIN arrivals[q] /\ arrivals'[q][j] = arrivals[q][j]
    <3>1. CASE q = r
      <4>1. j # n + 1
        BY <1>2, <1>3, <1>4, <3>1 DEF Served
      <4>2. i \in 1..(n + 1) /\ j \in 1..(n + 1)
        BY <1>2, <3>1
      <4>3. i \in 1..n /\ j \in 1..n
        BY <1>2, <1>4, <4>1, <4>2
      <4>4. QED
        BY <1>2, <3>1, <4>3
    <3>2. CASE q # r
      BY <1>1, <3>2
    <3>3. QED
      BY <3>1, <3>2
  <2> DEFINE e == arrivals[q][i]
             x == arrivals[q][j]
  <2>2. e \in Logins /\ x \in Logins /\ e # l
    BY <2>1, ArrivedLogin DEF QueueFollowsArrivals
  <2>3. Served(x)
    BY <1>4, <2>1 DEF Served
  <2>4. Served(e) \/ GaveUp(e)
    BY <1>4, <2>1, <2>3 DEF ServedInArrivalOrder, GaveUp
  <2>5. QED
    BY <1>1, <2>1, <2>2, <2>4 DEF Served, GaveUp
<1>5. QED
  BY <1>1, <1>4 DEF ServedInArrivalOrder, Served

OrderInv == GotIsTaken /\ QueueFollowsArrivals /\ ServedInArrivalOrder

LEMMA OrderStep == TypeOK /\ QueueInv /\ OrderInv /\ [Next]_vars => ServedInArrivalOrder'
<1> SUFFICES ASSUME TypeOK, QueueInv, OrderInv, [Next]_vars PROVE ServedInArrivalOrder'
  OBVIOUS
<1> USE InputAssumption
<1>0. GotIsTaken /\ QueueFollowsArrivals /\ ServedInArrivalOrder
  BY DEF OrderInv
<1>1. ASSUME NEW l \in Logins, Start(l) \/ NotifyDropped(l) \/ Timeout(l) \/ Leave(l)
      PROVE  ServedInArrivalOrder'
  <2>1. UNCHANGED <<chan, got, arrivals>> /\ \A m \in Logins : GaveUp(m) => GaveUp(m)'
    BY <1>1 DEF Start, MayStart, NotifyDropped, Timeout, Leave, LeaveState, brokerVars, GaveUp, TypeOK
  <2>2. QED
    BY <1>0, <2>1, OrderStable DEF Served
<1>2. ASSUME NEW l \in Logins, Notify(l) PROVE ServedInArrivalOrder'
  <2>1. /\ UNCHANGED <<got, arrivals>>
        /\ \A m \in Logins : pc'[m] = pc[m] \/ (pc[m] = "notify" /\ pc'[m] = "enter")
    BY <1>2 DEF Notify, TypeOK
  <2>2. CASE Deliver(RunOf[l], <<l, 1>>)
    BY <1>0, <2>1, <2>2, FirstHandIn, HandOverInOrder
  <2>3. CASE UNCHANGED brokerVars
    BY <1>0, <2>1, <2>3, OrderStable DEF brokerVars, Served, GaveUp
  <2>4. QED
    BY <1>2, <2>2, <2>3 DEF Notify
<1>3. ASSUME NEW l \in Logins, EnterWait(l) PROVE ServedInArrivalOrder'
  <2>1. CASE QueueUp(l)
    BY <1>0, <1>3, <2>1, QueueUpInOrder DEF EnterWait
  <2>2. CASE TakeBuffered(l)
    <3>1. /\ UNCHANGED <<chan, arrivals>> /\ pc[l] = "enter"
          /\ \A m \in Logins \ {l} : pc'[m] = pc[m] /\ got'[m] = got[m]
      BY <1>3, <2>2 DEF EnterWait, TakeBuffered, TypeOK
    <3>2. ASSUME NEW r \in Runs, NEW i \in DOMAIN arrivals[r]
          PROVE  arrivals[r][i] \in Logins \ {l}
      BY <1>0, <3>1, ArrivedLogin DEF QueueFollowsArrivals
    <3>3. \A m \in Logins \ {l} : /\ Served(m)' <=> Served(m)
                                  /\ GaveUp(m) <=> GaveUp(m)'
      BY <3>1 DEF Served, GaveUp
    <3>4. ASSUME NEW r \in Runs, NEW i \in DOMAIN arrivals[r], NEW j \in DOMAIN arrivals[r],
                 i < j, Served(arrivals[r][j])'
          PROVE  Served(arrivals[r][i])' \/ GaveUp(arrivals[r][i])'
      <4>1. Served(arrivals[r][j])
        BY <3>1, <3>2, <3>3, <3>4
      <4>2. Served(arrivals[r][i]) \/ GaveUp(arrivals[r][i])
        BY <1>0, <3>4, <4>1 DEF ServedInArrivalOrder, GaveUp
      <4>3. QED
        BY <3>1, <3>2, <3>3, <4>2
    <3>5. QED
      BY <3>1, <3>4 DEF ServedInArrivalOrder, GaveUp, Served
  <2>3. QED
    BY <1>3, <2>1, <2>2 DEF EnterWait
<1>4. ASSUME NEW l \in Logins, Receive(l) PROVE ServedInArrivalOrder'
  <2>1. /\ UNCHANGED arrivals /\ Served(l) /\ pc[l] = "waiting"
        /\ got'[l] # NoCode
        /\ \A m \in Logins \ {l} : pc'[m] = pc[m] /\ got'[m] = got[m] /\ chan'[m] = chan[m]
    BY <1>4 DEF Receive, Served, TypeOK
  <2>2. QED
    BY <1>0, <2>1, OrderStable DEF Served, GaveUp
<1>5. ASSUME NEW h \in HandIns, HandleCode(h) PROVE ServedInArrivalOrder'
  <2>1. RunOf[h[1]] \in Runs /\ UNCHANGED <<pc, got, arrivals>> /\ Deliver(RunOf[h[1]], h)
    BY <1>5, HandInParts DEF HandleCode
  <2>2. QED
    BY <1>0, <2>1, HandOverInOrder
<1>6. CASE UiStep \/ UNCHANGED vars
  <2>1. UNCHANGED <<pc, chan, got, arrivals>>
    BY <1>6, UiStepIsQuiet DEF brokerVars, vars
  <2>2. QED
    BY <1>0, <2>1, OrderStable DEF Served, GaveUp
<1>7. QED
  BY <1>1, <1>2, <1>3, <1>4, <1>5, <1>6, StepCases DEF LoginStep

-----------------------------------------------------------------------------
(* Runs whose logins follow one another.                                   *)

LEMMA OverlapFixed ==
  ASSUME [Next]_vars
  PROVE  UNCHANGED <<mock, overlap>>
BY UiStepIsQuiet, StepCases
   DEF LoginStep, Start, Notify, NotifyDropped, EnterWait, Receive, Timeout, Leave, HandleCode, vars

LEMMA OneUnderwayStep == TypeOK /\ OneUnderway /\ [Next]_vars => OneUnderway'
<1> SUFFICES ASSUME TypeOK, OneUnderway, [Next]_vars PROVE OneUnderway'
  OBVIOUS
<1> USE InputAssumption
<1>0. overlap' = overlap
  BY OverlapFixed
<1>1. ASSUME \A m \in Logins : pc[m] \in {"idle", "done", "failed"} =>
                                  pc'[m] \in {"idle", "done", "failed"}
      PROVE  OneUnderway'
  BY <1>0, <1>1 DEF OneUnderway, Underway
<1>2. ASSUME NEW l \in Logins, Start(l) PROVE OneUnderway'
  <2> DEFINE r == RunOf[l]
  <2>1. /\ Underway(r) = {} \/ r \in overlap
        /\ pc[l] = "idle" /\ pc'[l] = "notify"
        /\ \A m \in Logins \ {l} : pc'[m] = pc[m]
    BY <1>2 DEF Start, MayStart, TypeOK
  <2>2. \A m \in Logins : RunOf[m] # r => (m \in Underway(RunOf[m])' => m \in Underway(RunOf[m]))
    BY <2>1 DEF Underway
  <2>3. CASE Underway(r) = {}
    <3>1. \A m \in Logins \ {l} : RunOf[m] = r => pc'[m] \in {"idle", "done", "failed"}
      BY <2>1, <2>3 DEF Underway
    <3>2. QED
      BY <1>0, <2>2, <3>1 DEF OneUnderway, Underway
  <2>4. CASE r \in overlap
    BY <1>0, <2>2, <2>4 DEF OneUnderway
  <2>5. QED
    BY <2>1, <2>3, <2>4
<1>3. ASSUME NEW l \in Logins,
             \/ Notify(l) \/ NotifyDropped(l) \/ EnterWait(l)
             \/ Receive(l) \/ Timeout(l) \/ Leave(l)
      PROVE  OneUnderway'
  BY <1>1, <1>3 DEF Notify, NotifyDropped, EnterWait, TakeBuffered, QueueUp, Receive, Timeout, Leave,
                    LeaveState, TypeOK
<1>4. CASE UiStep \/ \E h \in HandIns : HandleCode(h)
  BY <1>1, <1>4, UiStepIsQuiet DEF HandleCode
<1>5. CASE UNCHANGED vars
  BY <1>1, <1>5 DEF vars
<1>6. QED
  BY <1>2, <1>3, <1>4, <1>5, StepCases DEF LoginStep

LEMMA MockStep ==
  TypeOK /\ QueueInv /\ PromptedOnce /\ OneUnderway /\ MockCodeIsBuffered /\ [Next]_vars
    => MockCodeIsBuffered'
<1> SUFFICES ASSUME TypeOK, QueueInv, PromptedOnce, OneUnderway, MockCodeIsBuffered, [Next]_vars
             PROVE  MockCodeIsBuffered'
  OBVIOUS
<1> USE InputAssumption
<1>1. mock' = mock /\ overlap' = overlap
  BY OverlapFixed
<1>2. CASE ~mock
  BY <1>1, <1>2 DEF MockCodeIsBuffered
<1>3. CASE mock
  <2> DEFINE Ok(m) == /\ pc'[m] \notin {"waiting", "received", "expired", "failed"}
                      /\ pc'[m] = "enter" => pending'[RunOf[m]] = <<m, 1>>
  <2>1. SUFFICES ASSUME NEW m \in Logins, RunOf[m] \notin overlap PROVE Ok(m)
    BY <1>1, <1>3 DEF MockCodeIsBuffered
  <2>2. /\ pc[m] \notin {"waiting", "received", "expired", "failed"}
        /\ pc[m] = "enter" => pending[RunOf[m]] = <<m, 1>>
    BY <1>3, <2>1 DEF MockCodeIsBuffered
  <2>3. ASSUME NEW l \in Logins, Start(l) \/ NotifyDropped(l) PROVE Ok(m)
    BY <1>3, <2>2, <2>3 DEF Start, MayStart, NotifyDropped, brokerVars, TypeOK
  <2>4. ASSUME NEW l \in Logins, Notify(l) PROVE Ok(m)
    <3> DEFINE r == RunOf[l]
    <3>1. /\ pc[l] = "notify" /\ pc'[l] = "enter" /\ Deliver(r, <<l, 1>>) /\ r \in Runs
          /\ \A x \in Logins \ {l} : pc'[x] = pc[x]
      BY <1>3, <2>4 DEF Notify, TypeOK
    <3>2. \/ pending' = [pending EXCEPT ![r] = <<l, 1>>]
          \/ /\ UNCHANGED pending
             /\ \E w \in Logins : RunOf[w] = r /\ pc[w] \in {"waiting", "expired"}
      BY <3>1, FirstHandIn, DeliverEffect
    <3>3. CASE m = l
      <4>1. pending' = [pending EXCEPT ![r] = <<l, 1>>]
        BY <1>3, <2>1, <3>2, <3>3 DEF MockCodeIsBuffered
      <4>2. QED
        BY <3>1, <3>3, <4>1 DEF TypeOK
    <3>4. CASE m # l
      <4>1. pc'[m] = pc[m]
        BY <3>1, <3>4
      <4>2. CASE pc[m] = "enter"
        <5>1. RunOf[m] # r
          BY <2>1, <3>1, <3>4, <4>2 DEF OneUnderway, Underway
        <5>2. pending'[RunOf[m]] = pending[RunOf[m]]
          BY <3>2, <5>1 DEF TypeOK
        <5>3. QED
          BY <2>2, <4>1, <4>2, <5>2
      <4>3. CASE pc[m] # "enter"
        BY <2>2, <4>1, <4>3
      <4>4. QED
        BY <4>2, <4>3
    <3>5. QED
      BY <3>3, <3>4
  <2>5. ASSUME NEW l \in Logins, EnterWait(l) PROVE Ok(m)
    <3> DEFINE r == RunOf[l]
    <3>1. /\ pc[l] = "enter" /\ r \in Runs
          /\ \A x \in Logins \ {l} : pc'[x] = pc[x]
      BY <2>5 DEF EnterWait, TakeBuffered, QueueUp, TypeOK
    <3>2. CASE m = l
      <4>1. pending[r] # NoCode
        BY <2>2, <3>1, <3>2, FirstHandIn, HandInParts
      <4>2. TakeBuffered(l)
        BY <2>5, <4>1 DEF EnterWait
      <4>3. QED
        BY <3>2, <4>2 DEF TakeBuffered, TypeOK
    <3>3. CASE m # l
      <4>1. pc[m] = "enter" => RunOf[m] # r
        BY <2>1, <3>1, <3>3 DEF OneUnderway, Underway
      <4>2. \A q \in Runs \ {r} : pending'[q] = pending[q]
        BY <2>5 DEF EnterWait, QueueUp, TypeOK
      <4>3. QED
        BY <2>2, <3>1, <3>3, <4>1, <4>2
    <3>4. QED
      BY <3>2, <3>3
  <2>6. ASSUME NEW l \in Logins, Receive(l) \/ Timeout(l) \/ Leave(l) PROVE Ok(m)
    <3>1. /\ UNCHANGED pending /\ pc[l] \in {"waiting", "received", "expired"}
          /\ \A x \in Logins \ {l} : pc'[x] = pc[x]
      BY <2>6 DEF Receive, Timeout, Leave, LeaveState, brokerVars, TypeOK
    <3>2. QED
      BY <2>2, <3>1
  <2>7. ASSUME NEW h \in HandIns, HandleCode(h) PROVE Ok(m)
    BY <1>3, <2>7 DEF HandleCode, PromptedOnce
  <2>8. CASE UiStep
    BY <2>2, <2>8, UiStepIsQuiet DEF brokerVars
  <2>9. CASE UNCHANGED vars
    BY <2>2, <2>9 DEF vars, brokerVars
  <2>10. QED
    BY <2>3, <2>4, <2>5, <2>6, <2>7, <2>8, <2>9, StepCases DEF LoginStep
<1>4. QED
  BY <1>2, <1>3

\* A login that takes the code of another one in such a run: that one is over, and
\* gave up, or was answered twice, or the chain of stray codes goes back further.
LEMMA StrayTaken ==
  ASSUME TypeOK, GotIsTaken, OneUnderway, StrayCodeIsLate, CodesWereSent, PostsAreNumbered,
         NEW l \in Logins, NEW h \in HandIns, RunOf[l] \notin overlap,
         h[1] # l, h \in sent, RunOf[h[1]] = RunOf[l], pc[l] \in {"enter", "waiting"},
         \A m \in Logins : got[m] # h
  PROVE  /\ \/ pc[h[1]] = "failed"
            \/ pc[h[1]] = "done" /\ got[h[1]][1] # h[1]
            \/ posts[h[1]] > 1
         /\ \E m \in Logins : RunOf[m] = RunOf[l] /\ (pc[m] = "failed" \/ posts[m] > 1)
<1> DEFINE c == h[1]
<1>0. c \in Logins /\ h[2] \in Nat \ {0}
  BY HandInParts
<1>1. c \notin Underway(RunOf[c])
  BY <1>0 DEF OneUnderway, Underway
<1>2. pc[c] \in {"done", "failed"}
  BY <1>0, <1>1 DEF Underway, CodesWereSent
<1>3. CASE pc[c] = "done"
  <2> DEFINE g == got[c]
  <2>1. g # NoCode /\ g # h
    BY <1>0, <1>3 DEF GotIsTaken
  <2>2. g \in sent /\ g \in HandIns /\ g[2] \in Nat \ {0}
    BY <1>0, <2>1, HandInParts DEF CodesWereSent, TypeOK
  <2>3. CASE g[1] = c
    <3>1. g[2] # h[2]
      BY <2>1, <2>2, <2>3 DEF HandIns
    <3>2. g[2] <= posts[c] /\ h[2] <= posts[c] /\ posts[c] \in Nat
      BY <1>0, <2>2, <2>3 DEF PostsAreNumbered, TypeOK
    <3>3. posts[c] > 1
      BY <1>0, <2>2, <3>1, <3>2
    <3>4. QED
      BY <1>0, <3>3
  <2>4. CASE g[1] # c
    BY <1>0, <1>3, <2>1, <2>4 DEF StrayCodeIsLate
  <2>5. QED
    BY <2>3, <2>4
<1>4. QED
  BY <1>0, <1>2, <1>3

LEMMA StrayStep ==
  TypeOK /\ CodesInv /\ GotIsTaken /\ OneUnderway /\ StrayCodeIsLate /\ [Next]_vars
    => StrayCodeIsLate'
<1> SUFFICES ASSUME TypeOK, CodesInv, GotIsTaken, OneUnderway, StrayCodeIsLate, [Next]_vars
             PROVE  StrayCodeIsLate'
  OBVIOUS
<1> USE InputAssumption
<1>0. CodesWereSent /\ CodesInOnePlace /\ PostsAreNumbered /\ overlap' = overlap
  BY OverlapFixed DEF CodesInv
<1>1. \A m \in Logins : /\ pc[m] = "failed" => pc'[m] = "failed"
                        /\ pc[m] = "done" => pc'[m] = "done" /\ got'[m] = got[m]
  <2>1. ASSUME NEW l \in Logins, LoginStep(l) \/ NotifyDropped(l)
        PROVE  \A m \in Logins : /\ pc[m] = "failed" => pc'[m] = "failed"
                                 /\ pc[m] = "done" => pc'[m] = "done" /\ got'[m] = got[m]
    BY <2>1 DEF LoginStep, Start, MayStart, Notify, NotifyDropped, EnterWait, TakeBuffered,
                QueueUp, Receive, Timeout, Leave, LeaveState, TypeOK
  <2>2. CASE \/ \E h \in HandIns : HandleCode(h)
             \/ UiStep
             \/ UNCHANGED vars
    BY <2>2, UiStepIsQuiet DEF HandleCode, vars
  <2>3. QED
    BY <2>1, <2>2, StepCases
<1>2. \A m \in Logins : posts[m] > 1 => posts'[m] > 1
  <2>1. ASSUME NEW l \in Logins, Notify(l) PROVE \A m \in Logins : posts[m] > 1 => posts'[m] > 1
    <3>1. ~(posts[l] > 1)
      <4>1. ~(posts[l] > 0) /\ posts[l] \in Nat
        BY <1>0, <2>1 DEF Notify, PostsAreNumbered, TypeOK
      <4>2. QED
        BY <4>1
    <3>2. \A m \in Logins \ {l} : posts'[m] = posts[m]
      BY <2>1 DEF Notify, TypeOK
    <3>3. QED
      BY <3>1, <3>2
  <2>2. ASSUME NEW t \in Tabs, Submit(t) PROVE \A m \in Logins : posts[m] > 1 => posts'[m] > 1
    <3>1. /\ modal[t] \in Logins /\ posts[modal[t]] \in Nat
          /\ posts' = [posts EXCEPT ![modal[t]] = posts[modal[t]] + 1]
      BY <2>2 DEF Submit, TypeOK
    <3>2. QED
      BY <3>1 DEF TypeOK
  <2>3. \/ posts' = posts
        \/ \E l \in Logins : Notify(l)
        \/ \E t \in Tabs : Submit(t)
    BY StepCases DEF LoginStep, UiStep, Start, NotifyDropped, EnterWait, Receive, Timeout, Leave,
       HandleCode, LosePrompt, ShowPrompt, CloseAfterPost, Unanswered, CancelPrompt, uiVars, vars
  <2>4. QED
    BY <2>1, <2>2, <2>3
<1>3. ASSUME NEW l \in Logins, RunOf[l] \notin overlap, got'[l] # NoCode, got'[l][1] # l
      PROVE  LET c == got'[l][1] IN
             /\ RunOf[c] = RunOf[l]
             /\ \/ pc'[c] = "failed"
                \/ pc'[c] = "done" /\ got'[c][1] # c
                \/ posts'[c] > 1
             /\ \E m \in Logins : RunOf[m] = RunOf[l] /\ (pc'[m] = "failed" \/ posts'[m] > 1)
  <2> DEFINE h == got'[l]
             c == h[1]
  <2>1. /\ h \in HandIns /\ RunOf[c] = RunOf[l]
        /\ \/ pc[c] = "failed"
           \/ pc[c] = "done" /\ got[c][1] # c
           \/ posts[c] > 1
        /\ \E m \in Logins : RunOf[m] = RunOf[l] /\ (pc[m] = "failed" \/ posts[m] > 1)
    <3>1. CASE h = got[l]
      <4>1. got[l] \in HandIns
        BY <1>3, <3>1 DEF TypeOK, Codes
      <4>2. QED
        BY <1>3, <3>1, <4>1 DEF StrayCodeIsLate
    <3>2. CASE h # got[l]
      <4>1. \/ pc[l] = "enter" /\ h = pending[RunOf[l]]
            \/ pc[l] = "waiting" /\ h = chan[l]
        <5>1. ASSUME NEW k \in Logins, EnterWait(k) PROVE pc[l] = "enter" /\ h = pending[RunOf[l]]
          BY <3>2, <5>1 DEF EnterWait, TakeBuffered, QueueUp, TypeOK
        <5>2. ASSUME NEW k \in Logins, Receive(k) PROVE pc[l] = "waiting" /\ h = chan[l]
          BY <3>2, <5>2 DEF Receive, TypeOK
        <5>3. ASSUME NEW k \in Logins,
                     Start(k) \/ Notify(k) \/ NotifyDropped(k) \/ Timeout(k) \/ Leave(k)
              PROVE  FALSE
          BY <3>2, <5>3 DEF Start, Notify, NotifyDropped, Timeout, Leave
        <5>4. ~UiStep /\ ~(\E g \in HandIns : HandleCode(g))
          BY <3>2, UiStepIsQuiet DEF HandleCode
        <5>5. ~UNCHANGED vars
          BY <3>2 DEF vars
        <5>6. QED
          BY <5>1, <5>2, <5>3, <5>4, <5>5, StepCases DEF LoginStep
      <4>2. RunOf[l] \in Runs /\ h # NoCode /\ c # l
        BY <1>3
      <4>3. h \in HandIns
        BY <4>1, <4>2 DEF TypeOK, Codes
      <4>4. h \in sent /\ RunOf[c] = RunOf[l]
        BY <1>0, <4>1, <4>2 DEF CodesWereSent
      <4>5. ASSUME NEW m \in Logins PROVE got[m] # h
        <5>1. CASE pc[l] = "waiting" /\ h = chan[l]
          BY <1>0, <4>2, <5>1 DEF CodesInOnePlace
        <5>2. CASE h = pending[RunOf[l]]
          <6>1. SUFFICES ASSUME got[m] = h PROVE FALSE
            OBVIOUS
          <6>2. RunOf[c] = RunOf[m]
            BY <1>0, <4>2, <6>1 DEF CodesWereSent
          <6>3. QED
            BY <1>0, <4>2, <4>4, <5>2, <6>1, <6>2 DEF CodesInOnePlace
        <5>3. QED
          BY <4>1, <5>1, <5>2
      <4>6. pc[l] \in {"enter", "waiting"} /\ h[1] # l /\ RunOf[h[1]] = RunOf[l]
        BY <4>1, <4>2, <4>4
      <4> HIDE DEF h
      <4>7. QED
        BY <1>0, <1>3, <4>3, <4>4, <4>5, <4>6, StrayTaken
    <3>3. QED
      BY <3>1, <3>2
  <2> HIDE DEF h
  <2>2. c \in Logins
    BY <2>1, HandInParts
  <2> HIDE DEF c
  <2>3. /\ \/ pc'[c] = "failed"
           \/ pc'[c] = "done" /\ got'[c][1] # c
           \/ posts'[c] > 1
        /\ \E m \in Logins : RunOf[m] = RunOf[l] /\ (pc'[m] = "failed" \/ posts'[m] > 1)
    BY <1>1, <1>2, <2>1, <2>2
  <2>4. QED
    BY <2>1, <2>3 DEF c, h
<1>4. QED
  BY <1>0, <1>3 DEF StrayCodeIsLate

-----------------------------------------------------------------------------
(* The broker implements CodeDesk.                                         *)

\* The codes a login of run r can still be given, and the logins not over yet:
\* what InputBroker substitutes for available[r] and open.
AvailableIn(r) ==
  ({pending[r]} \cup {chan[l] : l \in {m \in Logins : RunOf[m] = r /\ pc[m] = "waiting"}})
    \ {NoCode}

OpenLogins == {l \in Logins : pc[l] \in {"idle", "notify", "enter", "waiting"}}

\* A step that changes nothing the desk shows is a stutter of it.
LEMMA DeskStutters ==
  ASSUME UNCHANGED <<sent, got, unheard>>, OpenLogins' = OpenLogins,
         \A r \in Runs : AvailableIn(r)' = AvailableIn(r)
  PROVE  UNCHANGED Desk!vars
<1>1. [r \in Runs |-> AvailableIn(r)]' = [r \in Runs |-> AvailableIn(r)]
  OBVIOUS
<1>2. QED
  BY <1>1 DEF Desk!vars, AvailableIn, OpenLogins

\* Delivering a fresh hand-in makes it: at most that one becomes available.
LEMMA DeliverHandsIn ==
  ASSUME TypeOK, QueueInv, PostsAreNumbered, NEW h \in HandIns, h \notin sent,
         h[2] <= posts'[h[1]] /\ \A l \in Logins : posts'[l] > 1 => l \in unheard,
         \A g \in sent : g[1] = h[1] => g[2] <= posts'[g[1]],
         Deliver(RunOf[h[1]], h),
         sent' = sent \cup {h}, UNCHANGED <<got, unheard>>,
         posts'[h[1]] \in Nat,
         \A m \in Logins : pc'[m] = pc[m] \/ (pc[m] = "notify" /\ pc'[m] = "enter")
  PROVE  Desk!HandIn(h)
<1> USE InputAssumption
<1> DEFINE r == RunOf[h[1]]
<1>0. \A g \in sent : g[1] = h[1] => h[1] \in unheard
  <2>1. SUFFICES ASSUME NEW g \in sent, g[1] = h[1] PROVE h[1] \in unheard
    OBVIOUS
  <2>2. g \in HandIns /\ g[2] \in Nat \ {0} /\ h[2] \in Nat \ {0} /\ h[1] \in Logins
    BY HandInParts DEF TypeOK
  <2>3. g[2] # h[2]
    BY <2>1, <2>2 DEF HandIns
  <2>4. g[2] <= posts'[h[1]] /\ h[2] <= posts'[h[1]]
    BY <2>1
  <2>5. posts'[h[1]] > 1
    BY <2>2, <2>3, <2>4
  <2>6. QED
    BY <2>2, <2>5
<1>1. OpenLogins' = OpenLogins
  BY DEF OpenLogins
<1>2. /\ r \in Runs
      /\ \A q \in Runs \ {r} : pending'[q] = pending[q]
      /\ pending'[r] \in {pending[r], h}
      /\ \A m \in Logins : chan'[m] = chan[m] \/ (RunOf[m] = r /\ chan'[m] = h)
  BY SMTT(30), DeliverEffect, HandInParts DEF TypeOK
<1>3. \A q \in Runs \ {r} : AvailableIn(q)' = AvailableIn(q)
  BY <1>2 DEF AvailableIn
<1>4. AvailableIn(r)' \in SUBSET (AvailableIn(r) \cup {h})
  BY <1>2 DEF AvailableIn
<1>5. [q \in Runs |-> AvailableIn(q)]' =
        [[q \in Runs |-> AvailableIn(q)] EXCEPT ![r] = AvailableIn(r)']
  BY <1>2, <1>3
<1>6. [q \in Runs |-> AvailableIn(q)][r] = AvailableIn(r)
  BY <1>2
<1>7. QED
  BY <1>0, <1>1, <1>4, <1>5, <1>6 DEF Desk!HandIn, AvailableIn, OpenLogins

\* A login that goes on with an available code, and takes it away from the desk.
LEMMA TakeEnters ==
  ASSUME NEW l \in Logins, UNCHANGED <<sent, unheard>>,
         pc[l] \in {"enter", "waiting"}, OpenLogins' = OpenLogins \ {l},
         NEW c \in AvailableIn(RunOf[l]), got' = [got EXCEPT ![l] = c],
         AvailableIn(RunOf[l])' = AvailableIn(RunOf[l]) \ {c},
         \A q \in Runs \ {RunOf[l]} : AvailableIn(q)' = AvailableIn(q)
  PROVE  Desk!Enter(l)
<1> USE InputAssumption
<1> DEFINE r == RunOf[l]
<1>1. l \in OpenLogins
  BY DEF OpenLogins
<1>2. [q \in Runs |-> AvailableIn(q)]' =
        [[q \in Runs |-> AvailableIn(q)] EXCEPT ![r] = @ \ {c}]
  OBVIOUS
<1>3. c \in [q \in Runs |-> AvailableIn(q)][r]
  OBVIOUS
<1>4. QED
  BY <1>1, <1>2, <1>3 DEF Desk!Enter, AvailableIn, OpenLogins

\* The timer of a login fires: a code already in its channel is lost.
LEMMA TimeoutExpires ==
  ASSUME TypeOK, NEW l \in Logins, Timeout(l)
  PROVE  Desk!Expire(l)
<1> USE InputAssumption
<1> DEFINE r == RunOf[l]
<1>1. /\ UNCHANGED <<pending, chan, sent, got, unheard>> /\ r \in Runs
      /\ pc[l] = "waiting" /\ pc'[l] = "expired"
      /\ \A m \in Logins \ {l} : pc'[m] = pc[m]
  BY DEF Timeout, brokerVars, uiVars, TypeOK
<1>2. l \in OpenLogins /\ OpenLogins' = OpenLogins \ {l}
  BY <1>1 DEF OpenLogins
<1>3. AvailableIn(r)' \in SUBSET AvailableIn(r)
  BY <1>1 DEF AvailableIn
<1>4. \A q \in Runs \ {r} : AvailableIn(q)' = AvailableIn(q)
  BY <1>1 DEF AvailableIn
<1>5. [q \in Runs |-> AvailableIn(q)]' =
        [[q \in Runs |-> AvailableIn(q)] EXCEPT ![r] = AvailableIn(r)']
  BY <1>1, <1>4
<1>6. [q \in Runs |-> AvailableIn(q)][r] = AvailableIn(r)
  BY <1>1
<1>7. QED
  BY <1>1, <1>2, <1>3, <1>5, <1>6 DEF Desk!Expire, AvailableIn, OpenLogins

LEMMA DeskInit == Init => Desk!Init
<1> SUFFICES ASSUME Init PROVE Desk!Init
  OBVIOUS
<1>1. \A r \in Runs : AvailableIn(r) = {}
  BY DEF Init, AvailableIn
<1>2. OpenLogins = Logins
  BY DEF Init, OpenLogins
<1>3. [r \in Runs |-> AvailableIn(r)] = [r \in Runs |-> {}]
  BY <1>1
<1>4. sent = {} /\ unheard = {} /\ got = [l \in Logins |-> NoCode]
  BY DEF Init
<1>5. QED
  BY <1>2, <1>3, <1>4 DEF Desk!Init, AvailableIn, OpenLogins

LEMMA DeskStep ==
  TypeOK /\ QueueInv /\ CodesInv /\ [Next]_vars => [Desk!Next]_Desk!vars
<1> SUFFICES ASSUME TypeOK, QueueInv, CodesInv, [Next]_vars PROVE [Desk!Next]_Desk!vars
  OBVIOUS
<1> USE InputAssumption
<1>0. CodesWereSent /\ CodesInOnePlace /\ PostsAreNumbered /\ PromptedOnce
  BY DEF CodesInv
<1>1. ASSUME NEW l \in Logins, Start(l) \/ NotifyDropped(l) \/ Leave(l) PROVE UNCHANGED Desk!vars
  <2>1. /\ UNCHANGED <<pending, chan, sent, got, unheard>>
        /\ \A m \in Logins \ {l} : pc'[m] = pc[m]
        /\ \/ pc[l] = "idle" /\ pc'[l] = "notify"
           \/ pc[l] = "notify" /\ pc'[l] = "enter"
           \/ pc[l] \in {"received", "expired"} /\ pc'[l] \in {"done", "failed"}
    BY <1>1 DEF Start, MayStart, NotifyDropped, Leave, LeaveState, brokerVars, uiVars, TypeOK
  <2>2. OpenLogins' = OpenLogins
    BY <2>1 DEF OpenLogins
  <2>3. \A r \in Runs : AvailableIn(r)' = AvailableIn(r)
    BY <2>1 DEF AvailableIn
  <2>4. QED
    BY <2>1, <2>2, <2>3, DeskStutters
<1>2. ASSUME NEW l \in Logins, Notify(l) PROVE [Desk!Next]_Desk!vars
  <2>1. /\ UNCHANGED <<got, unheard>> /\ pc[l] = "notify" /\ pc'[l] = "enter"
        /\ \A m \in Logins \ {l} : pc'[m] = pc[m]
    BY <1>2 DEF Notify, TypeOK
  <2>2. CASE mock
    <3> DEFINE f == <<l, 1>>
    <3>1. f \in HandIns /\ f[1] = l /\ f[2] = 1
      BY FirstHandIn
    <3>2. /\ Deliver(RunOf[l], f) /\ sent' = sent \cup {f}
          /\ posts'[l] = 1 /\ \A m \in Logins \ {l} : posts'[m] = posts[m]
      BY <1>2, <2>2 DEF Notify, TypeOK
    <3>3. \A h \in sent : h[1] # l
      BY <1>0, <2>1, HandInParts DEF CodesWereSent, TypeOK
    <3>4. f \notin sent
      BY <3>1, <3>3
    <3>5. \A m \in Logins : posts'[m] > 1 => m \in unheard
      BY <1>0, <3>2 DEF PostsAreNumbered
    <3> HIDE DEF f
    <3>6. Desk!HandIn(f)
      BY <1>0, <2>1, <3>1, <3>2, <3>3, <3>4, <3>5, DeliverHandsIn
    <3>7. QED
      BY <3>1, <3>6 DEF Desk!Next
  <2>3. CASE ~mock
    <3>1. UNCHANGED <<pending, chan, sent>>
      BY <1>2, <2>3 DEF Notify, brokerVars
    <3>2. OpenLogins' = OpenLogins
      BY <2>1 DEF OpenLogins
    <3>3. \A r \in Runs : AvailableIn(r)' = AvailableIn(r)
      BY <2>1, <3>1 DEF AvailableIn
    <3>4. QED
      BY <2>1, <3>1, <3>2, <3>3, DeskStutters
  <2>4. QED
    BY <2>2, <2>3
<1>3. ASSUME NEW l \in Logins, EnterWait(l) PROVE [Desk!Next]_Desk!vars
  <2> DEFINE r == RunOf[l]
  <2>1. /\ UNCHANGED <<chan, sent, unheard>> /\ pc[l] = "enter" /\ r \in Runs
        /\ \A m \in Logins \ {l} : pc'[m] = pc[m]
    BY <1>3 DEF EnterWait, TakeBuffered, QueueUp, uiVars, TypeOK
  <2>2. CASE pending[r] # NoCode /\ TakeBuffered(l) /\ pending' = [pending EXCEPT ![r] = NoCode]
    <3>1. /\ pc'[l] = "done" /\ got' = [got EXCEPT ![l] = pending[r]]
          /\ pending'[r] = NoCode /\ \A q \in Runs \ {r} : pending'[q] = pending[q]
      BY <2>2 DEF TakeBuffered, TypeOK
    <3>2. OpenLogins' = OpenLogins \ {l}
      BY <2>1, <3>1 DEF OpenLogins
    <3>3. \A m \in Logins : RunOf[m] = r => chan[m] # pending[r]
      BY <1>0, <2>2 DEF CodesInOnePlace
    <3>4. /\ pending[r] \in AvailableIn(r)
          /\ AvailableIn(r)' = AvailableIn(r) \ {pending[r]}
          /\ \A q \in Runs \ {r} : AvailableIn(q)' = AvailableIn(q)
      BY <2>1, <2>2, <3>1, <3>3 DEF AvailableIn
    <3>5. Desk!Enter(l)
      BY <2>1, <3>1, <3>2, <3>4, TakeEnters
    <3>6. QED
      BY <3>5 DEF Desk!Next
  <2>3. CASE QueueUp(l)
    <3>1. pc'[l] = "waiting" /\ UNCHANGED <<pending, got>>
      BY <2>3 DEF QueueUp, TypeOK
    <3>2. chan[l] = NoCode
      BY <2>1 DEF QueueInv, ChannelMadeInWait
    <3>3. OpenLogins' = OpenLogins
      BY <2>1, <3>1 DEF OpenLogins
    <3>4. \A q \in Runs : AvailableIn(q)' = AvailableIn(q)
      BY <2>1, <3>1, <3>2 DEF AvailableIn
    <3>5. QED
      BY <2>1, <3>1, <3>3, <3>4, DeskStutters
  <2>4. QED
    BY <1>3, <2>2, <2>3 DEF EnterWait
<1>4. ASSUME NEW l \in Logins, Receive(l) PROVE Desk!Enter(l)
  <2> DEFINE r == RunOf[l]
             c == chan[l]
  <2>1. /\ UNCHANGED <<pending, sent, unheard>> /\ pc[l] = "waiting" /\ c # NoCode /\ r \in Runs
        /\ pc'[l] = "received" /\ chan'[l] = NoCode /\ got' = [got EXCEPT ![l] = c]
        /\ \A m \in Logins \ {l} : pc'[m] = pc[m] /\ chan'[m] = chan[m]
    BY <1>4 DEF Receive, uiVars, TypeOK
  <2>2. OpenLogins' = OpenLogins \ {l}
    BY <2>1 DEF OpenLogins
  <2>3. pending[r] # c /\ \A m \in Logins \ {l} : chan[m] # c
    BY <1>0, <2>1 DEF CodesInOnePlace
  <2> HIDE DEF c
  <2>4. /\ c \in AvailableIn(r)
        /\ AvailableIn(r)' = AvailableIn(r) \ {c}
        /\ \A q \in Runs \ {r} : AvailableIn(q)' = AvailableIn(q)
    <3>1. c \in AvailableIn(r)
      BY <2>1 DEF AvailableIn, c
    <3>2. AvailableIn(r)' = AvailableIn(r) \ {c}
      BY <2>1, <2>3 DEF AvailableIn, c
    <3>3. \A q \in Runs \ {r} : AvailableIn(q)' = AvailableIn(q)
      BY <2>1 DEF AvailableIn
    <3>4. QED
      BY <3>1, <3>2, <3>3
  <2>5. QED
    BY <2>1, <2>2, <2>4, TakeEnters
<1>5. ASSUME NEW h \in HandIns, HandleCode(h) PROVE Desk!HandIn(h)
  <2>1. /\ h \in flight /\ sent' = sent \cup {h}
        /\ UNCHANGED <<pc, got, posts, unheard>> /\ Deliver(RunOf[h[1]], h)
    BY <1>5 DEF HandleCode
  <2>2. h[1] \in Logins /\ posts'[h[1]] \in Nat
    BY <2>1, HandInParts DEF TypeOK
  <2>3. /\ h \notin sent /\ h[2] <= posts'[h[1]]
        /\ \A l \in Logins : posts'[l] > 1 => l \in unheard
        /\ \A g \in sent : g[2] <= posts'[g[1]]
    BY <1>0, <2>1 DEF PostsAreNumbered
  <2>4. QED
    BY <1>0, <2>1, <2>2, <2>3, DeliverHandsIn
<1>6. ASSUME NEW t \in Tabs, Unanswered(t) PROVE \E c \in Logins : Desk!NoAnswer(c)
  <2>1. /\ UNCHANGED <<pc, brokerVars, got, sent>> /\ posting[t] # NoCode
        /\ unheard' = unheard \cup {posting[t][1]}
    BY <1>6 DEF Unanswered
  <2>2. posting[t][1] \in Logins
    BY <2>1, HandInParts DEF TypeOK, Codes
  <2>3. OpenLogins' = OpenLogins /\ \A r \in Runs : AvailableIn(r)' = AvailableIn(r)
    BY <2>1 DEF OpenLogins, AvailableIn, brokerVars
  <2>4. [r \in Runs |-> AvailableIn(r)]' = [r \in Runs |-> AvailableIn(r)]
    BY <2>3
  <2>5. Desk!NoAnswer(posting[t][1])
    BY <2>1, <2>3, <2>4 DEF Desk!NoAnswer, AvailableIn, OpenLogins
  <2>6. QED
    BY <2>2, <2>5
<1>7. CASE \/ LosePrompt
           \/ \E t \in Tabs : ShowPrompt(t) \/ Submit(t) \/ CloseAfterPost(t) \/ CancelPrompt(t)
           \/ UNCHANGED vars
  <2>1. UNCHANGED <<pc, brokerVars, got, sent, unheard>>
    BY <1>7 DEF LosePrompt, ShowPrompt, Submit, CloseAfterPost, CancelPrompt, vars, uiVars
  <2>2. OpenLogins' = OpenLogins /\ \A r \in Runs : AvailableIn(r)' = AvailableIn(r)
    BY <2>1 DEF OpenLogins, AvailableIn, brokerVars
  <2>3. UNCHANGED Desk!vars
    BY <2>1, <2>2, DeskStutters
  <2>4. QED
    BY <2>3
<1>8. ASSUME NEW l \in Logins, Timeout(l) PROVE Desk!Expire(l)
  BY <1>8, TimeoutExpires
<1>9. QED
  BY <1>1, <1>2, <1>3, <1>4, <1>5, <1>6, <1>7, <1>8, StepCases DEF LoginStep, UiStep, Desk!Next

-----------------------------------------------------------------------------
(* The theorems.                                                           *)

CodeInv == CodesInv /\ OrderInv /\ OneUnderway /\ MockCodeIsBuffered /\ StrayCodeIsLate

LEMMA InitCodes == Init => CodeInv
<1> SUFFICES ASSUME Init PROVE CodeInv
  OBVIOUS
<1>1. DOMAIN <<>> = {}
  BY EmptySeq
<1>2. CodesInv
  BY <1>1, InputAssumption DEF Init, CodesInv, CodesWereSent, CodesInOnePlace, PostsAreNumbered, PromptedOnce
<1>3. OrderInv
  BY <1>1, InputAssumption DEF Init, OrderInv, GotIsTaken, QueueFollowsArrivals, ServedInArrivalOrder
<1>4. OneUnderway /\ MockCodeIsBuffered /\ StrayCodeIsLate
  BY DEF Init, OneUnderway, Underway, MockCodeIsBuffered, StrayCodeIsLate
<1>5. QED
  BY <1>2, <1>3, <1>4 DEF CodeInv

LEMMA CodesInductive == Spec => []CodeInv
<1>1. TypeOK /\ QueueInv /\ CodeInv /\ [Next]_vars => CodeInv'
  <2> SUFFICES ASSUME TypeOK, QueueInv, CodeInv, [Next]_vars PROVE CodeInv'
    OBVIOUS
  <2>1. CodesInv /\ OrderInv /\ OneUnderway /\ MockCodeIsBuffered /\ StrayCodeIsLate
    BY DEF CodeInv
  <2>2. CodesInv'
    BY <2>1, CodesStep, NumbersStep, PromptStep DEF CodesInv
  <2>3. OrderInv'
    BY <2>1, GotStep, FollowsStep, OrderStep DEF OrderInv
  <2>4. OneUnderway' /\ MockCodeIsBuffered' /\ StrayCodeIsLate'
    BY <2>1, OneUnderwayStep, MockStep, StrayStep DEF CodesInv, OrderInv
  <2>5. QED
    BY <2>2, <2>3, <2>4 DEF CodeInv
<1>2. QED
  BY <1>1, InitCodes, Inductive, PTL DEF Spec

\* "Waiters are served strictly in arrival order": whatever times out or
\* leaves in between, no login is passed by one that queued after it.
THEOREM ArrivalOrder == Spec => []ServedInArrivalOrder
<1>1. CodeInv => ServedInArrivalOrder
  BY DEF CodeInv, OrderInv
<1>2. QED
  BY <1>1, CodesInductive, PTL

\* In a run whose logins follow one another, a code that is not one's own is that of
\* an earlier login, and goes back to one that was answered too late or twice, however
\* often codes are posted and whatever POST gets no answer.
THEOREM StrayCodes == Spec => []StrayCodeIsLate
<1>1. CodeInv => StrayCodeIsLate
  BY DEF CodeInv
<1>2. QED
  BY <1>1, CodesInductive, PTL

\* With the embedded mock, a login of such a run finds its code and never waits.
THEOREM MockIsImmediate == Spec => []SequentialMockNeverWaits
<1>1. CodeInv => SequentialMockNeverWaits
  BY DEF CodeInv, MockCodeIsBuffered, SequentialMockNeverWaits
<1>2. QED
  BY <1>1, CodesInductive, PTL

\* The broker implements the verification desk: each time a code is posted it is
\* entered at most once, by a login of the run it was posted for, and only after it
\* was posted; and it is posted again only after a POST without an answer.
THEOREM ImplementsCodeDesk == Spec => EachPostCountsOnce
<1>1. Init => Desk!Init
  BY DeskInit
<1>2. TypeOK /\ QueueInv /\ CodeInv /\ [Next]_vars => [Desk!Next]_Desk!vars
  BY DeskStep DEF CodeInv
<1>3. QED
  BY <1>1, <1>2, Inductive, CodesInductive, PTL DEF Spec, EachPostCountsOnce, Desk!Spec

=============================================================================
