-------------------------- MODULE InputBrokerProofs --------------------------
(***************************************************************************)
(* Safety of the verification-code broker for every set of runs, logins    *)
(* and tabs.  The inductive invariant is the conjunction of the type       *)
(* invariant, the two queue invariants the runs check, and the fact that a *)
(* channel is empty until its login queues up.                             *)
(***************************************************************************)
EXTENDS InputBroker, SequenceTheorems, TLAPS

\* A login's channel holds a code only once the login has queued up.
ChannelMadeInWait ==
  \A l \in Logins : chan[l] # NoCode => pc[l] \in {"waiting", "expired", "failed"}

-----------------------------------------------------------------------------

\* Removing one element of a sequence shifts the later ones down by one.
LEMMA RemoveAtShifts ==
  ASSUME NEW S, NEW s \in Seq(S), NEW i \in 1..Len(s)
  PROVE  /\ RemoveAt(s, i) \in Seq(S)
         /\ Len(RemoveAt(s, i)) = Len(s) - 1
         /\ \A j \in 1..(Len(s) - 1) :
               RemoveAt(s, i)[j] = IF j < i THEN s[j] ELSE s[j + 1]
<1>0. Len(s) \in Nat /\ DOMAIN s = 1..Len(s) /\ \A j \in 1..Len(s) : s[j] \in S
  BY LenProperties, ElementOfSeq
<1> DEFINE before == SubSeq(s, 1, i - 1)
           after  == SubSeq(s, i + 1, Len(s))
<1>1. /\ before \in Seq(S)
      /\ Len(before) = i - 1
      /\ \A j \in 1..(i - 1) : before[j] = s[j]
  <2>1. \A j \in 1..(i - 1) : s[j] \in S
    BY <1>0
  <2>2. /\ before \in Seq(S)
        /\ Len(before) = IF 1 <= i - 1 THEN (i - 1) - 1 + 1 ELSE 0
        /\ \A j \in 1..((i - 1) - 1 + 1) : before[j] = s[1 + j - 1]
    BY <2>1, <1>0, SubSeqProperties
  <2>3. QED
    BY <2>2, <1>0
<1>2. /\ after \in Seq(S)
      /\ Len(after) = Len(s) - i
      /\ \A j \in 1..(Len(s) - i) : after[j] = s[i + j]
  <2>1. \A j \in (i + 1)..Len(s) : s[j] \in S
    BY <1>0
  <2>2. /\ after \in Seq(S)
        /\ Len(after) = IF i + 1 <= Len(s) THEN Len(s) - (i + 1) + 1 ELSE 0
        /\ \A j \in 1..(Len(s) - (i + 1) + 1) : after[j] = s[(i + 1) + j - 1]
    BY <2>1, <1>0, SubSeqProperties
  <2> DEFINE n == Len(s)
  <2>6. n \in Nat /\ i \in Nat /\ i <= n
    BY <1>0
  <2> HIDE DEF n
  <2>7. n - (i + 1) + 1 = n - i /\ (~(i + 1 <= n) => n - i = 0)
    BY <2>6
  <2>3. Len(s) - (i + 1) + 1 = Len(s) - i /\ (~(i + 1 <= Len(s)) => Len(s) - i = 0)
    BY <2>7 DEF n
  <2>4. ASSUME NEW j \in 1..(Len(s) - i)
        PROVE  (i + 1) + j - 1 = i + j
    BY <1>0
  <2> HIDE DEF after
  <2>5. QED
    BY <2>2, <2>3, <2>4
<1> HIDE DEF before, after
<1>3. /\ before \o after \in Seq(S)
      /\ Len(before \o after) = Len(s) - 1
      /\ \A j \in 1..(Len(s) - 1) :
            (before \o after)[j] = IF j <= i - 1 THEN before[j] ELSE after[j - (i - 1)]
  <2>1. /\ before \o after \in Seq(S)
        /\ Len(before \o after) = Len(before) + Len(after)
        /\ \A j \in 1..(Len(before) + Len(after)) :
              (before \o after)[j] = IF j <= Len(before) THEN before[j] ELSE after[j - Len(before)]
    BY <1>1, <1>2, ConcatProperties
  <2>2. Len(before) + Len(after) = Len(s) - 1
    BY <1>0, <1>1, <1>2
  <2>3. QED
    BY <2>1, <2>2, <1>1
<1>4. RemoveAt(s, i) = before \o after
  BY DEF RemoveAt, before, after
<1>5. ASSUME NEW j \in 1..(Len(s) - 1)
      PROVE  (before \o after)[j] = IF j < i THEN s[j] ELSE s[j + 1]
  <2>1. CASE j < i
    BY <2>1, <1>0, <1>1, <1>3
  <2>2. CASE ~(j < i)
    <3>1. j - (i - 1) \in 1..(Len(s) - i) /\ i + (j - (i - 1)) = j + 1
      BY <2>2, <1>0
    <3>2. (before \o after)[j] = after[j - (i - 1)]
      BY <2>2, <1>0, <1>3
    <3>3. QED
      BY <3>1, <3>2, <2>2, <1>2
  <2>3. QED
    BY <2>1, <2>2
<1>6. \A j \in 1..(Len(s) - 1) :
         RemoveAt(s, i)[j] = IF j < i THEN s[j] ELSE s[j + 1]
  BY <1>4, <1>5
<1>7. QED
  BY <1>3, <1>4, <1>6

\* What the broker's queue operations do to a sequence, index by index.
LEMMA TailShifts ==
  ASSUME NEW S, NEW s \in Seq(S), s # <<>>
  PROVE  /\ Tail(s) \in Seq(S)
         /\ Head(s) \in S /\ Head(s) = s[1]
         /\ Len(s) \in Nat /\ Len(s) >= 1
         /\ DOMAIN s = 1..Len(s)
         /\ DOMAIN Tail(s) = 1..(Len(s) - 1)
         /\ \A i \in 1..(Len(s) - 1) : Tail(s)[i] = s[i + 1]
<1>1. /\ Head(s) \in S /\ Tail(s) \in Seq(S) /\ Len(Tail(s)) = Len(s) - 1
      /\ \A i \in 1..Len(Tail(s)) : Tail(s)[i] = s[i + 1]
  BY HeadTailProperties
<1>2. Len(s) \in Nat /\ DOMAIN s = 1..Len(s) /\ DOMAIN Tail(s) = 1..Len(Tail(s))
  BY <1>1, LenProperties
<1>3. Len(s) >= 1 /\ Head(s) = s[1]
  BY <1>2, EmptySeq
<1>4. QED
  BY <1>1, <1>2, <1>3

LEMMA AppendExtends ==
  ASSUME NEW S, NEW s \in Seq(S), NEW e \in S
  PROVE  /\ Append(s, e) \in Seq(S)
         /\ Len(s) \in Nat
         /\ DOMAIN s = 1..Len(s)
         /\ DOMAIN Append(s, e) = 1..(Len(s) + 1)
         /\ \A i \in 1..Len(s) : Append(s, e)[i] = s[i]
         /\ Append(s, e)[Len(s) + 1] = e
<1>1. /\ Append(s, e) \in Seq(S)
      /\ Len(Append(s, e)) = Len(s) + 1
      /\ \A i \in 1..Len(s) : Append(s, e)[i] = s[i]
      /\ Append(s, e)[Len(s) + 1] = e
  BY AppendProperties
<1>2. Len(s) \in Nat /\ DOMAIN s = 1..Len(s)
      /\ DOMAIN Append(s, e) = 1..Len(Append(s, e))
  BY <1>1, LenProperties
<1>3. QED
  BY <1>1, <1>2

-----------------------------------------------------------------------------
(* Type correctness.                                                       *)

LEMMA FirstHandIn ==
  ASSUME NEW l \in Logins
  PROVE  <<l, 1>> \in HandIns /\ RunOf[l] \in Runs /\ 1 \in 0..MaxPosts
BY InputAssumption DEF HandIns

LEMMA HandInParts ==
  ASSUME NEW h \in HandIns
  PROVE  h[1] \in Logins /\ RunOf[h[1]] \in Runs /\ h[2] \in 1..MaxPosts /\ h # NoCode
BY InputAssumption, NoCodeAssumption DEF HandIns

LEMMA DeliverTypes ==
  ASSUME TypeOK, NEW r \in Runs, NEW h \in HandIns, Deliver(r, h)
  PROVE  /\ waiters' \in [Runs -> Seq(Logins)]
         /\ pending' \in [Runs -> Codes]
         /\ chan' \in [Logins -> Codes]
<1>1. CASE BufferCode(r, h)
  BY <1>1 DEF BufferCode, TypeOK, Codes
<1>2. CASE HandOver(r, h)
  <2>1. waiters[r] \in Seq(Logins) /\ waiters[r] # <<>>
    BY <1>2 DEF HandOver, TypeOK
  <2>2. Tail(waiters[r]) \in Seq(Logins)
    BY <2>1, TailShifts
  <2>3. waiters' \in [Runs -> Seq(Logins)]
    BY <1>2, <2>2 DEF HandOver, TypeOK
  <2>4. QED
    BY <1>2, <2>3 DEF HandOver, TypeOK, Codes
<1>3. QED
  BY <1>1, <1>2 DEF Deliver

LEMMA TypeStep == TypeOK /\ [Next]_vars => TypeOK'
<1> SUFFICES ASSUME TypeOK, [Next]_vars PROVE TypeOK'
  OBVIOUS
<1> USE InputAssumption
<1>1. ASSUME NEW l \in Logins, Start(l) PROVE TypeOK'
  BY <1>1 DEF TypeOK, LoginStates, Start, brokerVars, uiVars
<1>2. ASSUME NEW l \in Logins, Notify(l) PROVE TypeOK'
  <2>1. CASE mock
    <3>1. Deliver(RunOf[l], <<l, 1>>)
      BY <1>2, <2>1 DEF Notify
    <3>2. <<l, 1>> \in HandIns /\ RunOf[l] \in Runs /\ 1 \in 0..MaxPosts
      BY FirstHandIn
    <3>3. /\ waiters' \in [Runs -> Seq(Logins)]
          /\ pending' \in [Runs -> Codes]
          /\ chan' \in [Logins -> Codes]
      BY <3>1, <3>2, DeliverTypes
    <3>4. QED
      BY <1>2, <2>1, <3>2, <3>3 DEF TypeOK, LoginStates, Notify
  <2>2. CASE ~mock
    <3>1. feed' = Append(feed, l) /\ UNCHANGED <<brokerVars, posts, sent>>
      BY <1>2, <2>2 DEF Notify
    <3>2. feed' \in Seq(Logins)
      BY <3>1, AppendExtends DEF TypeOK
    <3>3. QED
      BY <1>2, <3>1, <3>2 DEF TypeOK, LoginStates, Notify, brokerVars
  <2>3. QED
    BY <2>1, <2>2
<1>3. ASSUME NEW l \in Logins, EnterWait(l) PROVE TypeOK'
  <2>1. CASE TakeBuffered(l) /\ pending' = [pending EXCEPT ![RunOf[l]] = NoCode]
    BY <1>3, <2>1 DEF TypeOK, LoginStates, EnterWait, TakeBuffered, Codes, uiVars
  <2>2. CASE QueueUp(l)
    <3>1. /\ waiters[RunOf[l]] \in Seq(Logins)
          /\ arrivals[RunOf[l]] \in Seq(Logins)
      BY DEF TypeOK
    <3>2. /\ Append(waiters[RunOf[l]], l) \in Seq(Logins)
          /\ Append(arrivals[RunOf[l]], l) \in Seq(Logins)
      BY <3>1, AppendExtends
    <3>3. QED
      BY <1>3, <2>2, <3>2 DEF TypeOK, LoginStates, EnterWait, QueueUp, uiVars
  <2>3. QED
    BY <1>3, <2>1, <2>2 DEF EnterWait
<1>4. ASSUME NEW l \in Logins, Receive(l) PROVE TypeOK'
  BY <1>4 DEF TypeOK, LoginStates, Receive, Codes, uiVars
<1>5. ASSUME NEW l \in Logins, Timeout(l) PROVE TypeOK'
  BY <1>5 DEF TypeOK, LoginStates, Timeout, brokerVars, uiVars
<1>6. ASSUME NEW l \in Logins, Leave(l) PROVE TypeOK'
  <2>1. pc' \in [Logins -> LoginStates]
    BY <1>6 DEF TypeOK, LoginStates, Leave, LeaveState
  <2>2. waiters' \in [Runs -> Seq(Logins)]
    <3>1. CASE UNCHANGED waiters
      BY <3>1 DEF TypeOK
    <3>2. ASSUME NEW i \in DOMAIN waiters[RunOf[l]],
                 waiters' = [waiters EXCEPT ![RunOf[l]] = RemoveAt(@, i)]
          PROVE  waiters' \in [Runs -> Seq(Logins)]
      <4>1. waiters[RunOf[l]] \in Seq(Logins)
        BY DEF TypeOK
      <4>2. i \in 1..Len(waiters[RunOf[l]])
        BY <4>1, LenProperties
      <4>3. RemoveAt(waiters[RunOf[l]], i) \in Seq(Logins)
        BY <4>1, <4>2, RemoveAtShifts
      <4>4. QED
        BY <3>2, <4>3 DEF TypeOK
    <3>3. QED
      BY <1>6, <3>1, <3>2 DEF Leave
  <2>3. QED
    BY <1>6, <2>1, <2>2 DEF TypeOK, Leave, uiVars
<1>7. ASSUME NEW l \in Logins, NotifyDropped(l) PROVE TypeOK'
  BY <1>7 DEF TypeOK, LoginStates, NotifyDropped, brokerVars
<1>8. ASSUME NEW t \in Tabs, ShowPrompt(t) PROVE TypeOK'
  BY <1>8, TailShifts DEF TypeOK, ShowPrompt, brokerVars
<1>9. CASE LosePrompt
  BY <1>9, TailShifts DEF TypeOK, LosePrompt, brokerVars
<1>10. ASSUME NEW t \in Tabs, Submit(t) PROVE TypeOK'
  <2>1. /\ modal[t] \in Logins /\ posts[modal[t]] + 1 \in 1..MaxPosts
        /\ posts[modal[t]] + 1 \in 0..MaxPosts
    BY <1>10 DEF TypeOK, Submit
  <2> DEFINE h == <<modal[t], posts[modal[t]] + 1>>
  <2>2. h \in HandIns /\ h[2] = posts[modal[t]] + 1
    BY <2>1 DEF HandIns
  <2>3. /\ posting' = [posting EXCEPT ![t] = h]
        /\ flight' = flight \cup {h}
        /\ posts' = [posts EXCEPT ![modal[t]] = h[2]]
    BY <1>10 DEF Submit
  <2> HIDE DEF h
  <2>4. /\ posting' \in [Tabs -> Codes] /\ flight' \subseteq HandIns
        /\ posts' \in [Logins -> 0..MaxPosts]
    BY <2>1, <2>2, <2>3 DEF TypeOK, Codes
  <2>5. QED
    BY <1>10, <2>4 DEF TypeOK, Submit, brokerVars
<1>11. ASSUME NEW h \in HandIns, HandleCode(h) PROVE TypeOK'
  <2>1. RunOf[h[1]] \in Runs /\ Deliver(RunOf[h[1]], h)
    BY <1>11, HandInParts DEF HandleCode
  <2>2. /\ waiters' \in [Runs -> Seq(Logins)]
        /\ pending' \in [Runs -> Codes]
        /\ chan' \in [Logins -> Codes]
    BY <2>1, DeliverTypes
  <2>3. QED
    BY <1>11, <2>2 DEF TypeOK, HandleCode
<1>12. ASSUME NEW t \in Tabs, CloseAfterPost(t) PROVE TypeOK'
  BY <1>12 DEF TypeOK, CloseAfterPost, brokerVars, Codes
<1>13. ASSUME NEW t \in Tabs, Unanswered(t) PROVE TypeOK'
  <2>1. posting[t][1] \in Logins
    BY <1>13, HandInParts DEF TypeOK, Unanswered, Codes
  <2>2. QED
    BY <1>13, <2>1 DEF TypeOK, Unanswered, brokerVars, Codes
<1>14. ASSUME NEW t \in Tabs, CancelPrompt(t) PROVE TypeOK'
  BY <1>14 DEF TypeOK, CancelPrompt, brokerVars
<1>15. CASE UNCHANGED vars
  BY <1>15 DEF TypeOK, vars, brokerVars, uiVars
<1>16. QED
  BY <1>1, <1>2, <1>3, <1>4, <1>5, <1>6, <1>7, <1>8, <1>9, <1>10, <1>11, <1>12, <1>13,
     <1>14, <1>15
     DEF Next, LoginStep, AnswerStep

-----------------------------------------------------------------------------
(* The queue invariants.                                                   *)

QueueInv == BufferOnlyWhenNobodyWaits /\ QueueIsExact /\ ChannelMadeInWait

\* Steps that leave the broker alone and move no login into or out of the
\* part of Wait the queue is about.
LEMMA OutsideWait ==
  ASSUME QueueInv, UNCHANGED brokerVars,
         \A m \in Logins : \/ pc'[m] = pc[m]
                           \/ pc[m] \in {"idle", "notify", "enter"} /\ pc'[m] # "waiting"
                           \/ pc[m] = "waiting" /\ pc'[m] = "expired",
         TypeOK
  PROVE  QueueInv'
<1>1. BufferOnlyWhenNobodyWaits'
  BY DEF QueueInv, BufferOnlyWhenNobodyWaits, brokerVars
<1>2. ChannelMadeInWait'
  BY DEF QueueInv, ChannelMadeInWait, brokerVars
<1>3. ASSUME NEW r \in Runs, NEW i \in DOMAIN waiters[r]
      PROVE  /\ RunOf[waiters[r][i]] = r
             /\ pc'[waiters[r][i]] \in {"waiting", "expired"}
             /\ chan[waiters[r][i]] = NoCode
             /\ \A j \in DOMAIN waiters[r] : waiters[r][j] = waiters[r][i] => j = i
  <2>1. waiters[r][i] \in Logins
    BY ElementOfSeq, LenProperties DEF TypeOK
  <2>2. QED
    BY <2>1 DEF QueueInv, QueueIsExact
<1>4. \A l \in Logins : Blocked(l)' => Blocked(l)
  BY DEF Blocked, brokerVars
<1>5. QueueIsExact'
  BY <1>3, <1>4 DEF QueueInv, QueueIsExact, brokerVars
<1>6. QED
  BY <1>1, <1>2, <1>5 DEF QueueInv

\* Deliver keeps the queue exact, whoever calls it.
LEMMA DeliverKeepsQueue ==
  ASSUME TypeOK, QueueInv, NEW r \in Runs, NEW h \in HandIns, Deliver(r, h),
         \A m \in Logins : pc'[m] = pc[m] \/ (pc[m] = "notify" /\ pc'[m] = "enter")
  PROVE  QueueInv'
<1> USE InputAssumption
<1>1. CASE BufferCode(r, h)
  <2>1. BufferOnlyWhenNobodyWaits'
    BY <1>1 DEF QueueInv, BufferOnlyWhenNobodyWaits, BufferCode, TypeOK
  <2>2. ChannelMadeInWait'
    BY <1>1 DEF QueueInv, ChannelMadeInWait, BufferCode
  <2>3. ASSUME NEW q \in Runs, NEW i \in DOMAIN waiters[q]
        PROVE  /\ RunOf[waiters[q][i]] = q
               /\ pc'[waiters[q][i]] \in {"waiting", "expired"}
               /\ chan[waiters[q][i]] = NoCode
               /\ \A j \in DOMAIN waiters[q] : waiters[q][j] = waiters[q][i] => j = i
    <3>1. waiters[q][i] \in Logins
      BY ElementOfSeq, LenProperties DEF TypeOK
    <3>2. QED
      BY <3>1 DEF QueueInv, QueueIsExact
  <2>4. \A l \in Logins : Blocked(l)' => Blocked(l)
    BY <1>1 DEF Blocked, BufferCode
  <2>5. QueueIsExact'
    BY <1>1, <2>3, <2>4 DEF QueueInv, QueueIsExact, BufferCode
  <2>6. QED
    BY <2>1, <2>2, <2>5 DEF QueueInv
<1>2. CASE HandOver(r, h)
  <2> DEFINE w == Head(waiters[r])
  <2>1. /\ waiters[r] \in Seq(Logins) /\ waiters[r] # <<>>
        /\ waiters'[r] = Tail(waiters[r])
        /\ \A q \in Runs \ {r} : waiters'[q] = waiters[q]
        /\ pending' = pending
    BY <1>2 DEF HandOver, TypeOK
  <2>2. /\ w \in Logins /\ w = waiters[r][1]
        /\ Len(waiters[r]) \in Nat /\ Len(waiters[r]) >= 1
        /\ DOMAIN waiters[r] = 1..Len(waiters[r])
        /\ DOMAIN waiters'[r] = 1..(Len(waiters[r]) - 1)
        /\ \A i \in 1..(Len(waiters[r]) - 1) : waiters'[r][i] = waiters[r][i + 1]
    BY <2>1, TailShifts
  <2>3. /\ RunOf[w] = r
        /\ pc[w] \in {"waiting", "expired"}
        /\ chan[w] = NoCode
        /\ \A j \in DOMAIN waiters[r] : waiters[r][j] = w => j = 1
    BY <2>2 DEF QueueInv, QueueIsExact
  <2>4. /\ chan'[w] = h
        /\ \A m \in Logins \ {w} : chan'[m] = chan[m]
    BY <1>2, <2>2, <2>3 DEF HandOver, TypeOK
  <2>5. BufferOnlyWhenNobodyWaits'
    BY <2>1 DEF QueueInv, BufferOnlyWhenNobodyWaits
  <2>6. ChannelMadeInWait'
    BY <2>3, <2>4 DEF QueueInv, ChannelMadeInWait
  <2> HIDE DEF w
  <2>7. ASSUME NEW q \in Runs, NEW i \in DOMAIN waiters'[q]
        PROVE  /\ RunOf[waiters'[q][i]] = q
               /\ pc'[waiters'[q][i]] \in {"waiting", "expired"}
               /\ chan'[waiters'[q][i]] = NoCode
               /\ \A j \in DOMAIN waiters'[q] : waiters'[q][j] = waiters'[q][i] => j = i
    <3>1. CASE q = r
      <4>1. /\ i \in 1..(Len(waiters[r]) - 1)
            /\ i + 1 \in DOMAIN waiters[r] /\ i + 1 # 1
            /\ waiters'[r][i] = waiters[r][i + 1]
        BY <3>1, <2>2
      <4>2. waiters[r][i + 1] \in Logins \ {w}
        BY <4>1, <2>1, <2>2, <2>3, ElementOfSeq
      <4>3. /\ RunOf[waiters[r][i + 1]] = r
            /\ pc[waiters[r][i + 1]] \in {"waiting", "expired"}
            /\ chan[waiters[r][i + 1]] = NoCode
            /\ \A j \in DOMAIN waiters[r] : waiters[r][j] = waiters[r][i + 1] => j = i + 1
        BY <4>1 DEF QueueInv, QueueIsExact
      <4>4. ASSUME NEW j \in DOMAIN waiters'[r], waiters'[r][j] = waiters'[r][i]
            PROVE  j = i
        <5>1. j \in 1..(Len(waiters[r]) - 1) /\ j + 1 \in DOMAIN waiters[r]
              /\ waiters[r][j + 1] = waiters[r][i + 1]
          BY <4>4, <4>1, <2>2
        <5>2. j + 1 = i + 1
          BY <5>1, <4>3
        <5>3. QED
          BY <5>1, <5>2, <4>1
      <4>5. QED
        BY <3>1, <4>1, <4>2, <4>3, <4>4, <2>4
    <3>2. CASE q # r
      <4>1. waiters'[q] = waiters[q] /\ waiters[q][i] \in Logins
        BY <3>2, <2>1, ElementOfSeq, LenProperties DEF TypeOK
      <4>2. /\ RunOf[waiters[q][i]] = q
            /\ pc[waiters[q][i]] \in {"waiting", "expired"}
            /\ chan[waiters[q][i]] = NoCode
            /\ \A j \in DOMAIN waiters[q] : waiters[q][j] = waiters[q][i] => j = i
        BY <4>1 DEF QueueInv, QueueIsExact
      <4>3. QED
        BY <3>2, <4>1, <4>2, <2>3, <2>4
    <3>3. QED
      BY <3>1, <3>2
  <2>8. ASSUME NEW l \in Logins, Blocked(l)'
        PROVE  \E i \in DOMAIN waiters'[RunOf[l]] : waiters'[RunOf[l]][i] = l
    <3>1. l # w /\ Blocked(l)
      BY <2>8, <2>2, <2>4, HandInParts DEF Blocked
    <3>2. PICK i \in DOMAIN waiters[RunOf[l]] : waiters[RunOf[l]][i] = l
      BY <3>1 DEF QueueInv, QueueIsExact
    <3>3. CASE RunOf[l] = r
      <4>1. i \in 1..Len(waiters[r]) /\ i # 1
        BY <3>1, <3>2, <3>3, <2>2
      <4>2. i - 1 \in 1..(Len(waiters[r]) - 1) /\ (i - 1) + 1 = i
        BY <4>1, <2>2
      <4>3. i - 1 \in DOMAIN waiters'[r] /\ waiters'[r][i - 1] = l
        BY <4>2, <3>2, <3>3, <2>2
      <4>4. QED
        BY <4>3, <3>3
    <3>4. CASE RunOf[l] # r
      BY <3>2, <3>4, <2>1
    <3>5. QED
      BY <3>3, <3>4
  <2>9. QueueIsExact'
    BY <2>7, <2>8 DEF QueueIsExact
  <2>10. QED
    BY <2>5, <2>6, <2>9 DEF QueueInv
<1>3. QED
  BY <1>1, <1>2 DEF Deliver

\* What QueueIsExact says of one queued login, with its type.
LEMMA QueuedLogin ==
  ASSUME TypeOK, QueueInv, NEW r \in Runs, NEW i \in DOMAIN waiters[r]
  PROVE  /\ waiters[r][i] \in Logins
         /\ RunOf[waiters[r][i]] = r
         /\ pc[waiters[r][i]] \in {"waiting", "expired"}
         /\ chan[waiters[r][i]] = NoCode
         /\ \A j \in DOMAIN waiters[r] : waiters[r][j] = waiters[r][i] => j = i
BY ElementOfSeq, LenProperties DEF TypeOK, QueueInv, QueueIsExact

\* The first section of Wait keeps the queue exact.
LEMMA EnterWaitKeepsQueue ==
  ASSUME TypeOK, QueueInv, NEW l \in Logins, EnterWait(l)
  PROVE  QueueInv'
<1> USE InputAssumption
<1> DEFINE r == RunOf[l]
<1>1. r \in Runs /\ pc[l] = "enter" /\ chan' = chan /\ waiters[r] \in Seq(Logins)
  BY DEF EnterWait, TypeOK
<1>2. chan[l] = NoCode /\ \A q \in Runs : \A i \in DOMAIN waiters[q] : waiters[q][i] # l
  <2>1. chan[l] = NoCode
    BY <1>1 DEF QueueInv, ChannelMadeInWait
  <2>2. QED
    BY <1>1, <2>1, QueuedLogin
<1>3. \A m \in Logins \ {l} : pc'[m] = pc[m]
  BY DEF EnterWait, QueueUp, TakeBuffered, TypeOK
<1>4. CASE TakeBuffered(l) /\ pending' = [pending EXCEPT ![r] = NoCode]
  <2>1. waiters' = waiters /\ pc'[l] = "done"
    BY <1>4 DEF TakeBuffered, TypeOK
  <2>2. BufferOnlyWhenNobodyWaits'
    BY <1>4, <2>1 DEF QueueInv, BufferOnlyWhenNobodyWaits, TypeOK
  <2>3. ChannelMadeInWait'
    BY <1>1, <1>2, <1>3 DEF QueueInv, ChannelMadeInWait
  <2>4. ASSUME NEW q \in Runs, NEW i \in DOMAIN waiters[q]
        PROVE  /\ RunOf[waiters[q][i]] = q
               /\ pc'[waiters[q][i]] \in {"waiting", "expired"}
               /\ chan[waiters[q][i]] = NoCode
               /\ \A j \in DOMAIN waiters[q] : waiters[q][j] = waiters[q][i] => j = i
    BY <1>2, <1>3, QueuedLogin
  <2>5. \A m \in Logins : Blocked(m)' => Blocked(m)
    BY <1>1, <1>3, <2>1 DEF Blocked
  <2>6. \A m \in Logins : Blocked(m)' =>
           \E i \in DOMAIN waiters[RunOf[m]] : waiters[RunOf[m]][i] = m
    BY <2>5 DEF QueueInv, QueueIsExact
  <2>7. QueueIsExact'
    BY <1>1, <2>1, <2>4, <2>6 DEF QueueIsExact
  <2>8. QED
    BY <2>2, <2>3, <2>7 DEF QueueInv
<1>5. CASE QueueUp(l) /\ pending[r] = NoCode
  <2> DEFINE n == Len(waiters[r])
  <2>1. /\ waiters' = [waiters EXCEPT ![r] = Append(@, l)]
        /\ pending' = pending /\ pc'[l] = "waiting"
    BY <1>5 DEF QueueUp, TypeOK
  <2>2. /\ n \in Nat /\ DOMAIN waiters[r] = 1..n
        /\ waiters'[r] = Append(waiters[r], l)
        /\ DOMAIN waiters'[r] = 1..(n + 1)
        /\ \A i \in 1..n : waiters'[r][i] = waiters[r][i]
        /\ waiters'[r][n + 1] = l
        /\ \A q \in Runs \ {r} : waiters'[q] = waiters[q]
    BY <1>1, <2>1, AppendExtends DEF TypeOK
  <2> HIDE DEF n
  <2>3. BufferOnlyWhenNobodyWaits'
    BY <1>5, <2>1, <2>2 DEF QueueInv, BufferOnlyWhenNobodyWaits
  <2>4. ChannelMadeInWait'
    BY <1>1, <1>2, <1>3 DEF QueueInv, ChannelMadeInWait
  <2>5. ASSUME NEW q \in Runs, NEW i \in DOMAIN waiters'[q]
        PROVE  /\ RunOf[waiters'[q][i]] = q
               /\ pc'[waiters'[q][i]] \in {"waiting", "expired"}
               /\ chan'[waiters'[q][i]] = NoCode
               /\ \A j \in DOMAIN waiters'[q] : waiters'[q][j] = waiters'[q][i] => j = i
    <3>1. CASE q = r /\ i = n + 1
      <4>1. \A j \in 1..n : waiters'[r][j] # l
        BY <1>1, <1>2, <2>2
      <4>2. \A j \in DOMAIN waiters'[r] : waiters'[r][j] = l => j = n + 1
        BY <2>2, <4>1
      <4>3. QED
        BY <3>1, <4>2, <1>1, <1>2, <2>1, <2>2
    <3>2. CASE q = r /\ i # n + 1
      <4>1. i \in DOMAIN waiters[r] /\ waiters'[r][i] = waiters[r][i]
        BY <3>2, <2>2
      <4>2. waiters[r][i] # l
        BY <4>1, <1>1, <1>2
      <4>3. \A j \in DOMAIN waiters'[r] : waiters'[r][j] = waiters'[r][i] => j = i
        <5>1. \A j \in DOMAIN waiters[r] : waiters[r][j] = waiters[r][i] => j = i
          BY <4>1, <1>1, QueuedLogin
        <5>2. QED
          BY <5>1, <4>1, <4>2, <2>2
      <4>4. QED
        BY <3>2, <4>1, <4>2, <4>3, <1>1, <1>3, QueuedLogin
    <3>3. CASE q # r
      <4>1. waiters'[q] = waiters[q] /\ waiters[q][i] # l
        BY <3>3, <2>2, <1>2
      <4>2. QED
        BY <4>1, <1>1, <1>3, QueuedLogin
    <3>4. QED
      BY <3>1, <3>2, <3>3
  <2>6. ASSUME NEW m \in Logins, Blocked(m)'
        PROVE  \E i \in DOMAIN waiters'[RunOf[m]] : waiters'[RunOf[m]][i] = m
    <3>1. CASE m = l
      <4>1. n + 1 \in DOMAIN waiters'[r]
        BY <2>2
      <4>2. QED
        BY <3>1, <4>1, <2>2
    <3>2. CASE m # l
      <4>1. Blocked(m)
        BY <3>2, <2>6, <1>1, <1>3 DEF Blocked
      <4>2. PICK i \in DOMAIN waiters[RunOf[m]] : waiters[RunOf[m]][i] = m
        BY <4>1 DEF QueueInv, QueueIsExact
      <4>3. CASE RunOf[m] = r
        <5>1. i \in 1..n /\ i \in 1..(n + 1)
          BY <4>2, <4>3, <2>2
        <5>2. QED
          BY <5>1, <4>2, <4>3, <2>2
      <4>4. CASE RunOf[m] # r
        BY <4>2, <4>4, <2>2
      <4>5. QED
        BY <4>3, <4>4
    <3>3. QED
      BY <3>1, <3>2
  <2>7. QueueIsExact'
    BY <2>5, <2>6 DEF QueueIsExact
  <2>8. QED
    BY <2>3, <2>4, <2>7 DEF QueueInv
<1>6. QED
  BY <1>4, <1>5 DEF EnterWait

\* The deferred section of Wait keeps the queue exact.
LEMMA LeaveKeepsQueue ==
  ASSUME TypeOK, QueueInv, NEW l \in Logins, Leave(l)
  PROVE  QueueInv'
<1> USE InputAssumption
<1> DEFINE r == RunOf[l]
<1>1. /\ r \in Runs /\ waiters[r] \in Seq(Logins)
      /\ pc[l] \in {"received", "expired"} /\ chan' = chan /\ pending' = pending
  BY DEF Leave, TypeOK
<1>2. /\ pc'[l] = IF pc[l] = "received" THEN "done" ELSE "failed"
      /\ \A m \in Logins \ {l} : pc'[m] = pc[m]
  BY DEF Leave, LeaveState, TypeOK
<1>3. ChannelMadeInWait'
  BY <1>1, <1>2 DEF QueueInv, ChannelMadeInWait
<1>4. \A m \in Logins : Blocked(m)' => m # l /\ Blocked(m)
  BY <1>1, <1>2 DEF Blocked
<1>5. CASE UNCHANGED waiters /\ \A i \in DOMAIN waiters[r] : waiters[r][i] # l
  <2>1. \A q \in Runs : \A i \in DOMAIN waiters[q] : waiters[q][i] # l
    BY <1>5, QueuedLogin
  <2>2. ASSUME NEW q \in Runs, NEW i \in DOMAIN waiters[q]
        PROVE  /\ RunOf[waiters[q][i]] = q
               /\ pc'[waiters[q][i]] \in {"waiting", "expired"}
               /\ chan[waiters[q][i]] = NoCode
               /\ \A j \in DOMAIN waiters[q] : waiters[q][j] = waiters[q][i] => j = i
    BY <2>1, <1>2, QueuedLogin
  <2>3. \A m \in Logins : Blocked(m)' =>
           \E i \in DOMAIN waiters[RunOf[m]] : waiters[RunOf[m]][i] = m
    BY <1>4 DEF QueueInv, QueueIsExact
  <2>4. QueueIsExact'
    BY SMTT(30), <1>1, <1>5, <2>2, <2>3 DEF QueueIsExact
  <2>5. BufferOnlyWhenNobodyWaits'
    BY <1>1, <1>5 DEF QueueInv, BufferOnlyWhenNobodyWaits
  <2>6. QED
    BY <1>3, <2>4, <2>5 DEF QueueInv
<1>6. ASSUME NEW k \in DOMAIN waiters[r], waiters[r][k] = l,
             waiters' = [waiters EXCEPT ![r] = RemoveAt(@, k)]
      PROVE  QueueInv'
  <2> DEFINE n == Len(waiters[r])
  <2>1. n \in Nat /\ DOMAIN waiters[r] = 1..n /\ k \in 1..n
    BY <1>1, <1>6, LenProperties
  <2>2. /\ waiters'[r] = RemoveAt(waiters[r], k)
        /\ \A q \in Runs \ {r} : waiters'[q] = waiters[q]
    BY <1>1, <1>6 DEF TypeOK
  <2>3. /\ RemoveAt(waiters[r], k) \in Seq(Logins)
        /\ Len(RemoveAt(waiters[r], k)) = n - 1
        /\ \A j \in 1..(n - 1) :
              RemoveAt(waiters[r], k)[j] = IF j < k THEN waiters[r][j] ELSE waiters[r][j + 1]
    BY <1>1, <2>1, RemoveAtShifts
  <2>4. /\ DOMAIN waiters'[r] = 1..(n - 1)
        /\ \A j \in 1..(n - 1) :
              waiters'[r][j] = IF j < k THEN waiters[r][j] ELSE waiters[r][j + 1]
    BY <2>2, <2>3, LenProperties
  <2> HIDE DEF n
  <2> DEFINE old(j) == IF j < k THEN j ELSE j + 1
  <2>5. \A j \in 1..(n - 1) : old(j) \in 1..n /\ old(j) # k /\ waiters'[r][j] = waiters[r][old(j)]
    BY <2>1, <2>4
  <2>6. \A i, j \in 1..(n - 1) : old(i) = old(j) => i = j
    BY <2>1
  <2> HIDE DEF old
  <2>7. \A j \in 1..n : waiters[r][j] = l => j = k
    BY <1>1, <1>6, <2>1, QueuedLogin
  <2>8. BufferOnlyWhenNobodyWaits'
    <3>1. waiters[r] # <<>>
      BY <2>1, EmptySeq
    <3>2. pending[r] = NoCode
      BY <1>1, <3>1 DEF QueueInv, BufferOnlyWhenNobodyWaits
    <3>3. QED
      BY <1>1, <2>2, <3>2 DEF QueueInv, BufferOnlyWhenNobodyWaits
  <2>9. ASSUME NEW q \in Runs, NEW i \in DOMAIN waiters'[q]
        PROVE  /\ RunOf[waiters'[q][i]] = q
               /\ pc'[waiters'[q][i]] \in {"waiting", "expired"}
               /\ chan'[waiters'[q][i]] = NoCode
               /\ \A j \in DOMAIN waiters'[q] : waiters'[q][j] = waiters'[q][i] => j = i
    <3>1. CASE q = r
      <4>1. /\ i \in 1..(n - 1) /\ old(i) \in DOMAIN waiters[r] /\ old(i) # k
            /\ waiters'[r][i] = waiters[r][old(i)]
        BY <3>1, <2>1, <2>4, <2>5
      <4>2. waiters[r][old(i)] # l
        BY <4>1, <2>1, <2>7
      <4>3. /\ waiters[r][old(i)] \in Logins
            /\ RunOf[waiters[r][old(i)]] = r
            /\ pc[waiters[r][old(i)]] \in {"waiting", "expired"}
            /\ chan[waiters[r][old(i)]] = NoCode
            /\ \A j \in DOMAIN waiters[r] : waiters[r][j] = waiters[r][old(i)] => j = old(i)
        BY <4>1, <1>1, QueuedLogin
      <4>4. ASSUME NEW j \in DOMAIN waiters'[r], waiters'[r][j] = waiters'[r][i]
            PROVE  j = i
        <5>1. j \in 1..(n - 1) /\ old(j) \in DOMAIN waiters[r]
              /\ waiters[r][old(j)] = waiters[r][old(i)]
          BY <4>4, <4>1, <2>1, <2>4, <2>5
        <5>2. old(j) = old(i)
          BY <5>1, <4>3
        <5>3. QED
          BY <5>1, <5>2, <4>1, <2>6
      <4>5. QED
        BY <3>1, <4>1, <4>2, <4>3, <4>4, <1>1, <1>2
    <3>2. CASE q # r
      <4>1. waiters'[q] = waiters[q] /\ i \in DOMAIN waiters[q]
        BY <3>2, <2>2
      <4>2. waiters[q][i] # l
        BY <3>2, <4>1, QueuedLogin
      <4>3. QED
        BY <4>1, <4>2, <1>1, <1>2, QueuedLogin
    <3>3. QED
      BY <3>1, <3>2
  <2>10. ASSUME NEW m \in Logins, Blocked(m)'
         PROVE  \E i \in DOMAIN waiters'[RunOf[m]] : waiters'[RunOf[m]][i] = m
    <3>1. m # l /\ Blocked(m)
      BY <2>10, <1>4
    <3>2. PICK i \in DOMAIN waiters[RunOf[m]] : waiters[RunOf[m]][i] = m
      BY <3>1 DEF QueueInv, QueueIsExact
    <3>3. CASE RunOf[m] = r
      <4>1. i \in 1..n /\ i # k
        BY <1>6, <3>1, <3>2, <3>3, <2>1
      <4>2. PICK j \in 1..(n - 1) : old(j) = i
        <5>1. CASE i < k
          BY <5>1, <4>1, <2>1 DEF old
        <5>2. CASE i > k
          <6>1. i - 1 \in 1..(n - 1) /\ old(i - 1) = i
            BY <5>2, <4>1, <2>1 DEF old
          <6>2. QED
            BY <6>1
        <5>3. QED
          BY <5>1, <5>2, <4>1, <2>1
      <4>3. j \in DOMAIN waiters'[r] /\ waiters'[r][j] = m
        BY <4>2, <2>4, <2>5, <3>2, <3>3
      <4>4. QED
        BY <4>3, <3>3
    <3>4. CASE RunOf[m] # r
      BY <3>2, <3>4, <2>2
    <3>5. QED
      BY <3>3, <3>4
  <2>11. QueueIsExact'
    BY <2>9, <2>10 DEF QueueIsExact
  <2>12. QED
    BY <1>3, <2>8, <2>11 DEF QueueInv
<1>7. QED
  BY <1>5, <1>6 DEF Leave

LEMMA QueueStep == TypeOK /\ QueueInv /\ [Next]_vars => QueueInv'
<1> SUFFICES ASSUME TypeOK, QueueInv, [Next]_vars PROVE QueueInv'
  OBVIOUS
<1> USE InputAssumption
<1>1. ASSUME NEW l \in Logins, Start(l) PROVE QueueInv'
  <2>1. UNCHANGED brokerVars /\ pc[l] = "idle" /\ pc'[l] = "notify"
        /\ \A m \in Logins \ {l} : pc'[m] = pc[m]
    BY <1>1 DEF Start, MayStart, TypeOK
  <2>2. QED
    BY <2>1, OutsideWait
<1>2. ASSUME NEW l \in Logins, Notify(l) PROVE QueueInv'
  <2>1. /\ RunOf[l] \in Runs
        /\ pc[l] = "notify" /\ pc'[l] = "enter"
        /\ \A m \in Logins \ {l} : pc'[m] = pc[m]
    BY <1>2 DEF Notify, TypeOK
  <2>2. CASE Deliver(RunOf[l], <<l, 1>>)
    BY <2>1, <2>2, FirstHandIn, DeliverKeepsQueue
  <2>3. CASE UNCHANGED brokerVars
    BY <2>1, <2>3, OutsideWait
  <2>4. QED
    BY <1>2, <2>2, <2>3 DEF Notify
<1>3. ASSUME NEW l \in Logins, EnterWait(l) PROVE QueueInv'
  BY <1>3, EnterWaitKeepsQueue
<1>4. ASSUME NEW l \in Logins, Receive(l) PROVE QueueInv'
  <2>1. /\ waiters' = waiters /\ pending' = pending
        /\ pc[l] = "waiting" /\ chan[l] # NoCode
        /\ pc'[l] = "received" /\ chan'[l] = NoCode
        /\ \A m \in Logins \ {l} : pc'[m] = pc[m] /\ chan'[m] = chan[m]
    BY <1>4 DEF Receive, TypeOK
  <2>2. BufferOnlyWhenNobodyWaits'
    BY <2>1 DEF QueueInv, BufferOnlyWhenNobodyWaits
  <2>3. ChannelMadeInWait'
    BY <2>1 DEF QueueInv, ChannelMadeInWait
  <2>4. ASSUME NEW q \in Runs, NEW i \in DOMAIN waiters[q]
        PROVE  /\ RunOf[waiters[q][i]] = q
               /\ pc'[waiters[q][i]] \in {"waiting", "expired"}
               /\ chan'[waiters[q][i]] = NoCode
               /\ \A j \in DOMAIN waiters[q] : waiters[q][j] = waiters[q][i] => j = i
    <3>1. waiters[q][i] # l
      BY <2>1, QueuedLogin
    <3>2. QED
      BY <2>1, <3>1, QueuedLogin
  <2>5. ASSUME NEW m \in Logins, Blocked(m)'
        PROVE  \E i \in DOMAIN waiters[RunOf[m]] : waiters[RunOf[m]][i] = m
    <3>1. Blocked(m)
      BY <2>1, <2>5 DEF Blocked
    <3>2. QED
      BY <3>1 DEF QueueInv, QueueIsExact
  <2>6. QueueIsExact'
    BY <2>1, <2>4, <2>5 DEF QueueIsExact
  <2>7. QED
    BY <2>2, <2>3, <2>6 DEF QueueInv
<1>5. ASSUME NEW l \in Logins, Timeout(l) PROVE QueueInv'
  <2>1. UNCHANGED brokerVars /\ pc[l] = "waiting" /\ pc'[l] = "expired"
        /\ \A m \in Logins \ {l} : pc'[m] = pc[m]
    BY <1>5 DEF Timeout, TypeOK
  <2>2. QED
    BY <2>1, OutsideWait
<1>6. ASSUME NEW l \in Logins, Leave(l) PROVE QueueInv'
  BY <1>6, LeaveKeepsQueue
<1>7. ASSUME NEW h \in HandIns, HandleCode(h) PROVE QueueInv'
  <2>1. RunOf[h[1]] \in Runs /\ pc' = pc /\ Deliver(RunOf[h[1]], h)
    BY <1>7, HandInParts DEF HandleCode
  <2>2. QED
    BY <2>1, DeliverKeepsQueue
<1>8. ASSUME NEW l \in Logins, NotifyDropped(l) PROVE QueueInv'
  <2>1. UNCHANGED brokerVars /\ pc[l] = "notify" /\ pc'[l] = "enter"
        /\ \A m \in Logins \ {l} : pc'[m] = pc[m]
    BY <1>8 DEF NotifyDropped, TypeOK
  <2>2. QED
    BY <2>1, OutsideWait
<1>9. CASE \/ LosePrompt
           \/ \E t \in Tabs : \/ ShowPrompt(t) \/ Submit(t) \/ CloseAfterPost(t)
                             \/ Unanswered(t) \/ CancelPrompt(t)
  <2>1. UNCHANGED brokerVars /\ pc' = pc
    BY <1>9 DEF LosePrompt, ShowPrompt, Submit, CloseAfterPost, Unanswered, CancelPrompt
  <2>2. QED
    BY <2>1, OutsideWait
<1>10. CASE UNCHANGED vars
  <2>1. UNCHANGED brokerVars /\ pc' = pc
    BY <1>10 DEF vars, brokerVars
  <2>2. QED
    BY <2>1, OutsideWait
<1>11. QED
  BY <1>1, <1>2, <1>3, <1>4, <1>5, <1>6, <1>7, <1>8, <1>9, <1>10
     DEF Next, LoginStep, AnswerStep

LEMMA InitInv == Init => TypeOK /\ QueueInv
<1> SUFFICES ASSUME Init PROVE TypeOK /\ QueueInv
  OBVIOUS
<1>1. <<>> \in Seq(Logins) /\ DOMAIN <<>> = {}
  BY EmptySeq
<1>2. TypeOK
  BY <1>1, InputAssumption DEF Init, TypeOK, LoginStates, Codes
<1>3. \A r \in Runs : waiters[r] = <<>>
  BY DEF Init
<1>4. \A l \in Logins : ~Blocked(l) /\ chan[l] = NoCode
  BY DEF Init, Blocked
<1>5. QED
  BY <1>1, <1>2, <1>3, <1>4, InputAssumption
     DEF QueueInv, BufferOnlyWhenNobodyWaits, QueueIsExact, ChannelMadeInWait

-----------------------------------------------------------------------------
(* The theorems.                                                           *)

\* The broker's state, the logins and the UI stay well-typed.
THEOREM TypeCorrect == Spec => []TypeOK
<1>1. Init => TypeOK
  BY InitInv
<1>2. QED
  BY <1>1, TypeStep, PTL DEF Spec

LEMMA Inductive == Spec => [](TypeOK /\ QueueInv)
<1>1. TypeOK /\ QueueInv /\ [Next]_vars => (TypeOK /\ QueueInv)'
  BY TypeStep, QueueStep
<1>2. QED
  BY <1>1, InitInv, PTL DEF Spec

\* No code sits in a run's buffer while a login of that run is queued for one.
THEOREM NoCodeIsWithheld == Spec => []BufferOnlyWhenNobodyWaits
<1>1. TypeOK /\ QueueInv => BufferOnlyWhenNobodyWaits
  BY DEF QueueInv
<1>2. QED
  BY <1>1, Inductive, PTL

\* The queue of a run holds, once each, exactly the logins a code can reach:
\* no blocked login is ever lost from it and no delivered one stays in it.
THEOREM QueueStaysExact == Spec => []QueueIsExact
<1>1. TypeOK /\ QueueInv => QueueIsExact
  BY DEF QueueInv
<1>2. QED
  BY <1>1, Inductive, PTL

=============================================================================
