--------------------------- MODULE SpecImportProofs ---------------------------
(***************************************************************************)
(* Safety of specification imports for any documents, any keys of their    *)
(* scenarios and any number of overlapping requests.                       *)
(***************************************************************************)
EXTENDS SpecImport, SequenceTheorems, TLAPS

\* While nobody deletes, each scenario of the request that ended its deletions last
\* is stored, or that request has still to save it.
NothingIsForgotten ==
  cleared # None =>
    /\ pc[cleared] \in {"filling", "done"}
    /\ doc[cleared] # None /\ ~failed[cleared] /\ (\A p \in Requests : pc[p] # "clearing") =>
         \A k \in KeysFrom(doc[cleared]) :
           items[k] # None \/ (pc[cleared] = "filling" /\ \E i \in DOMAIN todo[cleared] : todo[cleared][i] = k)

IInv == TypeOK /\ NothingIsForgotten

-----------------------------------------------------------------------------

LEMMA TailShifts ==
  ASSUME NEW S, NEW s \in Seq(S), s # <<>>
  PROVE  /\ Tail(s) \in Seq(S) /\ Head(s) \in S /\ Head(s) = s[1]
         /\ \A i \in DOMAIN s : i = 1 \/ (i - 1 \in DOMAIN Tail(s) /\ Tail(s)[i - 1] = s[i])
<1>1. /\ Head(s) \in S /\ Tail(s) \in Seq(S) /\ Len(Tail(s)) = Len(s) - 1
      /\ \A i \in 1..Len(Tail(s)) : Tail(s)[i] = s[i + 1]
  BY HeadTailProperties
<1>2. Len(s) \in Nat /\ DOMAIN s = 1..Len(s) /\ Head(s) = s[1] /\ DOMAIN Tail(s) = 1..Len(Tail(s))
  BY <1>1, LenProperties
<1>3. ASSUME NEW i \in DOMAIN s, i # 1
      PROVE  i - 1 \in DOMAIN Tail(s) /\ Tail(s)[i - 1] = s[i]
  BY <1>1, <1>2, <1>3
<1> QED
  BY <1>1, <1>2, <1>3

LEMMA KeysAreCustoms ==
  ASSUME NEW d \in Docs
  PROVE  /\ KeysOf[d] \in Seq(Customs)
         /\ KeysFrom(d) \subseteq Customs
         /\ StepsOf[d] \in StepLists /\ StepsOf[d] # None
<1>1. GeneratedKeys \subseteq Customs
  BY ImportAssumption, LenProperties, ElementOfSeq DEF GeneratedKeys
<1>2. KeysOf[d] \in Seq(GeneratedKeys)
  BY ImportAssumption DEF GeneratedKeys
<1>3. KeysOf[d] \in Seq(Customs)
  BY <1>1, <1>2, SeqMonotonic
<1>4. KeysFrom(d) \subseteq Customs
  BY <1>3, LenProperties, ElementOfSeq DEF KeysFrom
<1>5. StepsOf[d] \in StepLists /\ StepsOf[d] # None
  BY ImportAssumption, StoreAssumption
<1> QED
  BY <1>3, <1>4, <1>5

-----------------------------------------------------------------------------
(* Type correctness.                                                       *)

LEMMA InitType == Init => TypeOK
<1> SUFFICES ASSUME Init PROVE TypeOK
  OBVIOUS
<1>1. <<>> \in Seq(Customs)
  BY EmptySeq
<1>2. StoreTypeOK
  BY DEF Init, StoreInit, StoreTypeOK
<1>3. raw \in Docs \cup {None} /\ meta \in Docs \cup {None}
  BY DEF Init, LoadedRaw, LoadedMeta
<1> QED
  BY <1>1, <1>2, <1>3, ImportAssumption DEF Init, TypeOK, Under

LEMMA SaveTypes ==
  ASSUME StoreTypeOK, NEW k \in Customs, NEW s \in StepLists, Save(k, s), UNCHANGED creating
  PROVE  StoreTypeOK'
BY DEF StoreTypeOK, Save

LEMMA DeleteTypes ==
  ASSUME StoreTypeOK, NEW k \in Customs, Delete(k)
  PROVE  StoreTypeOK'
<1>1. items' = [items EXCEPT ![k] = None] /\ items' \in [Customs -> StepLists \cup {None}]
  BY DEF Delete, StoreTypeOK
<1>2. files' \in [Customs -> StepLists \cup {None}]
  BY DEF Delete, StoreTypeOK
<1> QED
  BY <1>1, <1>2 DEF Delete, StoreTypeOK

LEMMA NextType == TypeOK /\ [Next]_vars => TypeOK'
<1> SUFFICES ASSUME TypeOK, [Next]_vars PROVE TypeOK'
  OBVIOUS
<1> USE ImportAssumption
<1> USE DEF TypeOK, Under
<1>1. CASE UNCHANGED vars
  BY <1>1 DEF vars, storeVars, specVars, requestVars, StoreTypeOK
<1>2. ASSUME NEW q \in Requests, NEW d \in Docs, Import(q, d) PROVE TypeOK'
  <2> USE <1>2 DEF Import, Begin, Goto, storeVars, specVars
  <2>1. StoreTypeOK'
    BY DEF StoreTypeOK
  <2>2. \A p \in Requests :
          pc'[p] \in {"saving", "summing", "replacing", "filling"} => doc'[p] # None
    OBVIOUS
  <2>3. alone' \subseteq Requests
    OBVIOUS
  <2> QED
    BY <2>1, <2>2, <2>3
<1>3. ASSUME NEW q \in Requests, Regenerate(q) PROVE TypeOK'
  <2> USE <1>3 DEF Regenerate, Begin, Goto, storeVars, specVars
  <2>1. StoreTypeOK'
    BY DEF StoreTypeOK
  <2>2. \A p \in Requests :
          pc'[p] \in {"saving", "summing", "replacing", "filling"} => doc'[p] # None
    OBVIOUS
  <2>3. alone' \subseteq Requests
    OBVIOUS
  <2> QED
    BY <2>1, <2>2, <2>3
<1>4. ASSUME NEW q \in Requests, Drop(q) PROVE TypeOK'
  <2> USE <1>4 DEF Drop, Begin, Goto, storeVars, specVars
  <2>1. StoreTypeOK'
    BY DEF StoreTypeOK
  <2>2. \A p \in Requests :
          pc'[p] \in {"saving", "summing", "replacing", "filling"} => doc'[p] # None
    OBVIOUS
  <2>3. alone' \subseteq Requests
    OBVIOUS
  <2> QED
    BY <2>1, <2>2, <2>3
<1>5. ASSUME NEW q \in Requests, WriteDocument(q) PROVE TypeOK'
  <2> USE <1>5 DEF WriteDocument, GiveUp, Goto, storeVars
  <2>1. StoreTypeOK'
    BY DEF StoreTypeOK
  <2>2. document' \in Docs \cup {None} /\ failed' \in [Requests -> BOOLEAN]
    OBVIOUS
  <2>3. \A p \in Requests :
          pc'[p] \in {"saving", "summing", "replacing", "filling"} => doc'[p] # None
    OBVIOUS
  <2> QED
    BY <2>1, <2>2, <2>3
<1>6. ASSUME NEW q \in Requests, WriteSummary(q) PROVE TypeOK'
  <2> USE <1>6 DEF WriteSummary, GiveUp, Goto, storeVars
  <2>1. StoreTypeOK'
    BY DEF StoreTypeOK
  <2>2. summary' \in Docs \cup {None} /\ raw' \in Docs \cup {None} /\ meta' \in Docs \cup {None}
    OBVIOUS
  <2>3. failed' \in [Requests -> BOOLEAN]
    OBVIOUS
  <2>4. \A p \in Requests :
          pc'[p] \in {"saving", "summing", "replacing", "filling"} => doc'[p] # None
    OBVIOUS
  <2> QED
    BY <2>1, <2>2, <2>3, <2>4
<1>7. ASSUME NEW q \in Requests, List(q) PROVE TypeOK'
  <2> USE <1>7 DEF List, Goto, storeVars, specVars
  <2>1. StoreTypeOK'
    BY DEF StoreTypeOK
  <2>2. ListGenerated(q) \in SUBSET Customs
    <3>1. GeneratedKeys \subseteq Customs
      BY LenProperties, ElementOfSeq DEF GeneratedKeys
    <3> QED
      BY <3>1 DEF ListGenerated
  <2>3. listed' \in [Requests -> SUBSET Customs]
    BY <2>2
  <2> QED
    BY <2>1, <2>3
<1>8. ASSUME NEW q \in Requests, DeleteNext(q) PROVE TypeOK'
  <2> USE <1>8 DEF DeleteNext, specVars
  <2>1. PICK k \in Customs : /\ Delete(k) \/ UNCHANGED storeVars
                             /\ listed' = [listed EXCEPT ![q] = @ \ {k}]
    OBVIOUS
  <2>2. StoreTypeOK'
    BY <2>1, DeleteTypes DEF storeVars, StoreTypeOK
  <2>3. listed' \in [Requests -> SUBSET Customs]
    BY <2>1
  <2> QED
    BY <2>2, <2>3
<1>9. ASSUME NEW q \in Requests, Cleared(q) PROVE TypeOK'
  <2> USE <1>9 DEF Cleared, Goto, storeVars, specVars
  <2>1. StoreTypeOK'
    BY DEF StoreTypeOK
  <2>2. todo' \in [Requests -> Seq(Customs)]
    <3>1. doc[q] \in Docs
      OBVIOUS
    <3> QED
      BY <3>1, KeysAreCustoms
  <2> QED
    BY <2>1, <2>2
<1>10. ASSUME NEW q \in Requests, Forget(q) PROVE TypeOK'
  <2> USE <1>10 DEF Forget, GiveUp, Goto, storeVars
  <2>1. StoreTypeOK'
    BY DEF StoreTypeOK
  <2>2. /\ document' \in Docs \cup {None} /\ summary' \in Docs \cup {None}
        /\ raw' \in Docs \cup {None} /\ meta' \in Docs \cup {None}
    OBVIOUS
  <2>3. failed' \in [Requests -> BOOLEAN]
    OBVIOUS
  <2>4. pc' = [pc EXCEPT ![q] = "done"]
    OBVIOUS
  <2> QED
    BY <2>1, <2>2, <2>3, <2>4
<1>11. ASSUME NEW q \in Requests, SaveNext(q) PROVE TypeOK'
  <2> USE <1>11 DEF specVars
  <2>1. doc[q] \in Docs
    BY DEF SaveNext
  <2>2. todo[q] # <<>> => Head(todo[q]) \in Customs /\ Tail(todo[q]) \in Seq(Customs)
    BY TailShifts
  <2>3. StoreTypeOK'
    <3>1. CASE UNCHANGED storeVars
      BY <3>1 DEF storeVars, StoreTypeOK
    <3>2. CASE todo[q] # <<>> /\ Save(Head(todo[q]), StepsOf[doc[q]]) /\ UNCHANGED creating
      BY <2>1, <2>2, <3>2, KeysAreCustoms, SaveTypes
    <3> QED
      BY <3>1, <3>2 DEF SaveNext
  <2>4. todo' \in [Requests -> Seq(Customs)]
    BY <2>2 DEF SaveNext
  <2>5. /\ pc' \in [Requests -> {"idle", "done", "dead"} \cup Under]
        /\ \A p \in Requests :
             pc'[p] \in {"saving", "summing", "replacing", "filling"} => doc'[p] # None
        /\ failed' \in [Requests -> BOOLEAN]
    BY DEF SaveNext, GiveUp, Goto
  <2> QED
    BY <2>3, <2>4, <2>5 DEF SaveNext
<1>12. ASSUME Edit PROVE TypeOK'
  <2> USE <1>12 DEF specVars, requestVars
  <2>1. PICK k \in Customs : Delete(k) \/ \E s \in UserSteps : Put(k, s)
    BY DEF Edit
  <2>2. StoreTypeOK'
    BY <2>1, DeleteTypes, SaveTypes DEF Put
  <2> QED
    BY <2>2 DEF Edit
<1>13. ASSUME Restart PROVE TypeOK'
  <2> USE <1>13 DEF Restart, Reload
  <2>1. StoreTypeOK'
    BY DEF StoreTypeOK
  <2>2. raw' \in Docs \cup {None} /\ meta' \in Docs \cup {None}
    BY DEF LoadedRaw, LoadedMeta
  <2>3. /\ pc' \in [Requests -> {"idle", "done", "dead"} \cup Under]
        /\ \A p \in Requests :
             pc'[p] \in {"saving", "summing", "replacing", "filling"} => doc'[p] # None
    OBVIOUS
  <2> QED
    BY <2>1, <2>2, <2>3
<1> QED
  BY <1>1, <1>2, <1>3, <1>4, <1>5, <1>6, <1>7, <1>8, <1>9, <1>10, <1>11, <1>12, <1>13
  DEF Next, Step

\* Documents, summaries and requests keep their types: in particular a request always
\* has a summary when it is about to save or to list.
THEOREM TypeCorrect == Spec => []TypeOK
<1>1. Init => TypeOK
  BY InitType
<1>2. TypeOK /\ [Next]_vars => TypeOK'
  BY NextType
<1> QED
  BY <1>1, <1>2, PTL DEF Spec

-----------------------------------------------------------------------------
(* The request that ended its deletions last loses nothing.                *)

\* A step of another request that deletes nothing and neither begins nor ends
\* deletions does not matter to the one that ended its deletions last.
LEMMA OthersKeep ==
  ASSUME IInv, NEW q \in Requests, q # cleared, cleared' = cleared,
         \A p \in Requests \ {q} : pc'[p] = pc[p] /\ doc'[p] = doc[p] /\ todo'[p] = todo[p]
                                   /\ failed'[p] = failed[p],
         pc[q] # "clearing", cleared \in Requests \cup {None},
         \A k \in Customs : items[k] # None => items'[k] # None
  PROVE  NothingIsForgotten'
<1> SUFFICES ASSUME cleared # None PROVE NothingIsForgotten'
  BY DEF NothingIsForgotten
<1>1. cleared \in Requests \ {q}
  OBVIOUS
<1>2. pc'[cleared] = pc[cleared] /\ doc'[cleared] = doc[cleared] /\ todo'[cleared] = todo[cleared]
      /\ failed'[cleared] = failed[cleared]
  BY <1>1
<1>3. pc[cleared] \in {"filling", "done"}
  BY DEF IInv, NothingIsForgotten
<1>4. ASSUME doc[cleared] # None, ~failed[cleared], \A p \in Requests : pc'[p] # "clearing",
             NEW k \in KeysFrom(doc[cleared])
      PROVE  items'[k] # None \/ (pc[cleared] = "filling" /\
               \E i \in DOMAIN todo[cleared] : todo[cleared][i] = k)
  <2>1. \A p \in Requests : pc[p] # "clearing"
    BY <1>4
  <2>2. doc[cleared] \in Docs
    BY <1>1, <1>4 DEF IInv, TypeOK
  <2>3. k \in Customs
    BY <2>2, <1>4, KeysAreCustoms
  <2>4. items[k] # None \/ (pc[cleared] = "filling" /\
               \E i \in DOMAIN todo[cleared] : todo[cleared][i] = k)
    BY <1>4, <2>1 DEF IInv, NothingIsForgotten
  <2> QED
    BY <2>3, <2>4
<1> QED
  BY <1>2, <1>3, <1>4 DEF NothingIsForgotten

LEMMA SaveKeepsOthers ==
  ASSUME StoreTypeOK, NEW k \in Customs, NEW s \in StepLists, s # None, Save(k, s)
  PROVE  items'[k] # None /\ \A j \in Customs : items[j] # None => items'[j] # None
BY DEF Save, StoreTypeOK

LEMMA NextForgetsNothing == IInv /\ [Next]_vars => NothingIsForgotten'
<1> SUFFICES ASSUME IInv, [Next]_vars PROVE NothingIsForgotten'
  OBVIOUS
<1>a. TypeOK /\ NothingIsForgotten /\ cleared \in Requests \cup {None}
  BY DEF IInv, TypeOK
<1>b. \A q \in Requests : cleared # None /\ q = cleared => pc[q] \in {"filling", "done"}
  BY <1>a DEF NothingIsForgotten
<1>1. CASE UNCHANGED vars
  BY <1>1, <1>a DEF vars, storeVars, specVars, requestVars, NothingIsForgotten
<1>2. ASSUME NEW q \in Requests, NEW where, where \in {"saving", "replacing", "dropping"}, NEW d,
             d \in Docs \cup {None}, Begin(q, where, d)
      PROVE  NothingIsForgotten'
  <2> USE <1>2 DEF Begin, Goto, storeVars, specVars
  <2>1. CASE q = cleared
    <3>1. cleared = None
      BY <2>1, <1>b
    <3> QED
      BY <3>1 DEF NothingIsForgotten
  <2>2. CASE q # cleared
    <3>1. \A p \in Requests \ {q} : pc'[p] = pc[p] /\ doc'[p] = doc[p] /\ todo'[p] = todo[p]
                                   /\ failed'[p] = failed[p]
      BY <1>a DEF TypeOK
    <3> QED
      BY <2>2, <3>1, <1>a, OthersKeep
  <2> QED
    BY <2>1, <2>2
<1>3. ASSUME NEW q \in Requests, WriteDocument(q) \/ WriteSummary(q) PROVE NothingIsForgotten'
  <2> USE <1>3 DEF WriteDocument, WriteSummary, GiveUp, Goto, storeVars
  <2>1. CASE q = cleared
    <3>1. cleared = None
      BY <2>1, <1>b
    <3> QED
      BY <3>1 DEF NothingIsForgotten
  <2>2. CASE q # cleared
    <3>1. \A p \in Requests \ {q} : pc'[p] = pc[p] /\ doc'[p] = doc[p] /\ todo'[p] = todo[p]
                                   /\ failed'[p] = failed[p]
      BY <1>a DEF TypeOK
    <3>2. cleared' = cleared /\ items' = items /\ pc[q] # "clearing"
      OBVIOUS
    <3> QED
      BY <2>2, <3>1, <3>2, <1>a, OthersKeep
  <2> QED
    BY <2>1, <2>2
<1>4. ASSUME NEW q \in Requests, List(q) PROVE NothingIsForgotten'
  <2>1. cleared' = cleared /\ pc' = [pc EXCEPT ![q] = "clearing"]
    BY <1>4 DEF List, Goto
  <2>2. pc'[q] = "clearing"
    BY <2>1, <1>a DEF TypeOK
  <2>3. cleared # None => pc'[cleared] \in {"filling", "done"}
    <3>1. cleared # None => cleared \in Requests /\ cleared # q
      BY <1>4, <1>a, <1>b DEF List
    <3> QED
      BY <2>1, <3>1, <1>a, <1>b DEF TypeOK
  <2> QED
    BY <2>1, <2>2, <2>3 DEF NothingIsForgotten
<1>5. ASSUME NEW q \in Requests, DeleteNext(q) PROVE NothingIsForgotten'
  <2>1. pc'[q] = "clearing" /\ pc' = pc /\ cleared' = cleared
    BY <1>5 DEF DeleteNext
  <2> QED
    BY <2>1, <1>a DEF NothingIsForgotten
<1>6. ASSUME NEW q \in Requests, Cleared(q) PROVE NothingIsForgotten'
  <2>1. /\ cleared' = q /\ doc' = doc /\ doc[q] # None
        /\ pc'[q] = "filling" /\ todo'[q] = KeysOf[doc[q]]
    BY <1>6, <1>a DEF Cleared, Goto, TypeOK
  <2> QED
    BY <2>1 DEF NothingIsForgotten, KeysFrom
<1>7. ASSUME NEW q \in Requests, Forget(q) PROVE NothingIsForgotten'
  <2>1. cleared' = q /\ doc' = doc /\ doc[q] = None /\ pc'[q] = "done"
    BY <1>7, <1>a DEF Forget, GiveUp, Goto, TypeOK
  <2> QED
    BY <2>1 DEF NothingIsForgotten
<1>8. ASSUME NEW q \in Requests, SaveNext(q) PROVE NothingIsForgotten'
  <2>1. /\ cleared' = cleared /\ doc' = doc /\ doc[q] \in Docs /\ pc[q] = "filling"
        /\ \A p \in Requests \ {q} : pc'[p] = pc[p] /\ todo'[p] = todo[p] /\ failed'[p] = failed[p]
    BY <1>8, <1>a DEF SaveNext, GiveUp, Goto, storeVars, TypeOK
  <2>2. todo[q] \in Seq(Customs)
    BY <1>a DEF TypeOK
  <2>3. todo[q] # <<>> => /\ Head(todo[q]) \in Customs /\ Head(todo[q]) = todo[q][1]
                          /\ \A i \in DOMAIN todo[q] : i = 1 \/
                               (i - 1 \in DOMAIN Tail(todo[q]) /\ Tail(todo[q])[i - 1] = todo[q][i])
    BY <2>2, TailShifts
  <2>4. ASSUME todo[q] # <<>>, Save(Head(todo[q]), StepsOf[doc[q]])
        PROVE  items'[Head(todo[q])] # None /\ \A j \in Customs : items[j] # None => items'[j] # None
    BY <2>1, <2>3, <2>4, <1>a, KeysAreCustoms, SaveKeepsOthers DEF TypeOK
  <2>5. \A j \in Customs : items[j] # None => items'[j] # None
    BY <1>8, <2>4 DEF SaveNext, storeVars
  <2>6. CASE q # cleared
    <3>1. \A p \in Requests \ {q} : doc'[p] = doc[p]
      BY <2>1
    <3> QED
      BY <2>1, <2>5, <2>6, <3>1, <1>a, OthersKeep
  <2>7. CASE q = cleared
    <3> SUFFICES ASSUME q # None PROVE NothingIsForgotten'
      BY <2>1, <2>7 DEF NothingIsForgotten
    <3>1. pc'[q] \in {"filling", "done"}
      BY <1>8, <1>a DEF SaveNext, GiveUp, Goto, TypeOK
    <3>2. ASSUME ~failed'[q], \A p \in Requests : pc'[p] # "clearing", NEW k \in KeysFrom(doc[q])
          PROVE  items'[k] # None \/ (pc'[q] = "filling" /\ \E i \in DOMAIN todo'[q] : todo'[q][i] = k)
      <4>1. \A p \in Requests : pc[p] # "clearing"
        BY <2>1, <3>2
      <4>2. ~failed[q]
        BY <1>8, <3>2, <1>a DEF SaveNext, GiveUp, TypeOK
      <4>3. items[k] # None \/ \E i \in DOMAIN todo[q] : todo[q][i] = k
        BY <4>1, <4>2, <2>1, <2>7, <3>2, <1>a, ImportAssumption DEF NothingIsForgotten
      <4>4. k \in Customs
        BY <2>1, <3>2, KeysAreCustoms
      <4>5. CASE items[k] # None
        BY <4>4, <4>5, <2>5
      <4>6. ASSUME NEW i \in DOMAIN todo[q], todo[q][i] = k
            PROVE  items'[k] # None \/ (pc'[q] = "filling" /\ \E j \in DOMAIN todo'[q] : todo'[q][j] = k)
        <5>1. todo[q] # <<>>
          BY <4>6, EmptySeq, LenProperties, <2>2
        <5>2. CASE Save(Head(todo[q]), StepsOf[doc[q]]) /\ todo' = [todo EXCEPT ![q] = Tail(@)]
                   /\ UNCHANGED pc
          <6>1. pc'[q] = "filling" /\ todo'[q] = Tail(todo[q])
            BY <5>2, <2>1, <1>a DEF TypeOK
          <6>2. CASE i = 1
            BY <5>1, <5>2, <6>2, <2>3, <2>4, <4>6
          <6>3. CASE i # 1
            BY <5>1, <6>1, <6>3, <2>3, <4>6
          <6> QED
            BY <6>2, <6>3
        <5>3. CASE GiveUp(q)
          BY <5>3, <3>2, <1>a DEF GiveUp, TypeOK
        <5> QED
          BY <5>1, <5>2, <5>3, <1>8 DEF SaveNext
      <4> QED
        BY <4>3, <4>5, <4>6
    <3> QED
      BY <2>1, <2>7, <3>1, <3>2 DEF NothingIsForgotten
  <2> QED
    BY <2>6, <2>7
<1>9. CASE Edit \/ Restart
  BY <1>9 DEF Edit, Restart, NothingIsForgotten
<1>10. ASSUME NEW q \in Requests, NEW d \in Docs, Import(q, d) PROVE NothingIsForgotten'
  BY <1>10, <1>2 DEF Import
<1>11. ASSUME NEW q \in Requests, Regenerate(q) PROVE NothingIsForgotten'
  BY <1>11, <1>2, <1>a DEF Regenerate, TypeOK
<1>12. ASSUME NEW q \in Requests, Drop(q) PROVE NothingIsForgotten'
  BY <1>12, <1>2 DEF Drop
<1> QED
  BY <1>1, <1>3, <1>4, <1>5, <1>6, <1>7, <1>8, <1>9, <1>10, <1>11, <1>12 DEF Next, Step

\* However many imports, regenerations and removals overlap, once all have ended the
\* scenarios of the request that ended its deletions last are all there.
THEOREM NothingIsLost == Spec => []LastReplacementIsComplete
<1>1. Init => IInv
  BY InitType DEF Init, IInv, NothingIsForgotten
<1>2. IInv /\ [Next]_vars => IInv'
  BY NextType, NextForgetsNothing DEF IInv
<1>3. IInv => LastReplacementIsComplete
  <2> SUFFICES ASSUME IInv, Busy = {}, cleared # None, doc[cleared] # None, ~failed[cleared],
                      NEW k \in KeysFrom(doc[cleared])
               PROVE  items[k] # None
    BY DEF LastReplacementIsComplete
  <2>1. \A p \in Requests : pc[p] \notin Under
    BY DEF Busy
  <2>2. cleared \in Requests
    BY DEF IInv, TypeOK
  <2> QED
    BY <2>1, <2>2 DEF IInv, NothingIsForgotten, Under
<1> QED
  BY <1>1, <1>2, <1>3, PTL DEF Spec

-----------------------------------------------------------------------------
(* A request nobody disturbs.                                              *)

\* It is the only one under way, nobody changes the summary it works with, what is
\* still there of the old scenarios is on its list, and what is there of the new ones
\* are those it has saved.
Undisturbed ==
  \A q \in alone :
    /\ Busy \subseteq {q}
    /\ pc[q] = "dropping" => doc[q] = None
    /\ pc[q] \in {"replacing", "clearing", "filling"} /\ doc[q] # None => meta = doc[q]
    /\ pc[q] = "clearing" => \A k \in GeneratedKeys : items[k] # None => k \in listed[q]
    /\ pc[q] = "filling" =>
         /\ \A i, j \in DOMAIN todo[q] : todo[q][i] = todo[q][j] => i = j
         /\ \A i \in DOMAIN todo[q] : todo[q][i] \in KeysFrom(doc[q])
         /\ \A k \in GeneratedKeys :
              items[k] = IF k \in KeysFrom(doc[q]) /\ ~\E i \in DOMAIN todo[q] : todo[q][i] = k
                         THEN StepsOf[doc[q]] ELSE None

LEMMA GeneratedAreCustoms == GeneratedKeys \subseteq Customs
BY ImportAssumption, LenProperties, ElementOfSeq DEF GeneratedKeys

\* A request that begins is alone if no other is under way.
LEMMA BeginUndisturbed ==
  ASSUME TypeOK, NEW q \in Requests, NEW where, where \in {"saving", "replacing", "dropping"},
         NEW d, Begin(q, where, d), where = "replacing" => d = meta, where = "dropping" => d = None
  PROVE  Undisturbed'
<1> USE DEF Begin, Goto, specVars
<1>1. CASE Busy = {}
  <2>1. alone' = {q} /\ pc'[q] = where /\ doc'[q] = d /\ meta' = meta
    BY <1>1 DEF TypeOK
  <2>2. Busy' \subseteq {q}
    BY <1>1 DEF Busy, TypeOK
  <2> QED
    BY <2>1, <2>2 DEF Undisturbed
<1>2. CASE Busy # {}
  BY <1>2 DEF Undisturbed
<1> QED
  BY <1>1, <1>2

\* Only a request under way takes a step, so an undisturbed one that is under way
\* takes every step there is.
LEMMA StepsAreBusy ==
  ASSUME NEW q \in Requests, Step(q)
  PROVE  q \in Busy
BY DEF Step, WriteDocument, WriteSummary, List, DeleteNext, Cleared, Forget, SaveNext, Busy, Under

LEMMA DistinctTail ==
  ASSUME NEW S, NEW s \in Seq(S), s # <<>>,
         \A i, j \in DOMAIN s : s[i] = s[j] => i = j
  PROVE  /\ \A i, j \in DOMAIN Tail(s) : Tail(s)[i] = Tail(s)[j] => i = j
         /\ \A k : (\E i \in DOMAIN Tail(s) : Tail(s)[i] = k) <=>
                   (k # Head(s) /\ \E i \in DOMAIN s : s[i] = k)
<1>1. /\ Head(s) = s[1] /\ Tail(s) \in Seq(S) /\ Len(Tail(s)) = Len(s) - 1
      /\ \A i \in 1..Len(Tail(s)) : Tail(s)[i] = s[i + 1]
  BY HeadTailProperties
<1>2. /\ Len(s) \in Nat /\ Len(s) # 0 /\ DOMAIN s = 1..Len(s)
      /\ DOMAIN Tail(s) = 1..(Len(s) - 1)
  BY <1>1, LenProperties, EmptySeq
<1>3. \A i \in DOMAIN Tail(s) : i + 1 \in DOMAIN s /\ Tail(s)[i] = s[i + 1] /\ i + 1 # 1
  BY <1>1, <1>2
<1>4. \A i \in DOMAIN s : i # 1 => i - 1 \in DOMAIN Tail(s) /\ Tail(s)[i - 1] = s[i]
  BY <1>1, <1>2
<1>5. 1 \in DOMAIN s
  BY <1>2
<1>6. ASSUME NEW i \in DOMAIN Tail(s), NEW j \in DOMAIN Tail(s), Tail(s)[i] = Tail(s)[j]
      PROVE  i = j
  <2>1. i + 1 = j + 1
    BY <1>3, <1>6
  <2> QED
    BY <2>1, <1>2
<1>7. ASSUME NEW k, NEW i \in DOMAIN Tail(s), Tail(s)[i] = k
      PROVE  k # Head(s) /\ \E j \in DOMAIN s : s[j] = k
  BY <1>1, <1>3, <1>5, <1>7
<1>8. ASSUME NEW k, k # Head(s), NEW i \in DOMAIN s, s[i] = k
      PROVE  \E j \in DOMAIN Tail(s) : Tail(s)[j] = k
  BY <1>1, <1>4, <1>8
<1> QED
  BY <1>6, <1>7, <1>8

\* What the steps of a request do to an undisturbed one, which can only be itself.
LEMMA StepUndisturbed ==
  ASSUME TypeOK, Undisturbed, NEW q \in Requests, Step(q)
  PROVE  Undisturbed'
<1>1. alone' = alone
  BY DEF Step, WriteDocument, WriteSummary, List, DeleteNext, Cleared, Forget, SaveNext
<1> SUFFICES ASSUME NEW p \in alone
    PROVE /\ Busy' \subseteq {p}
          /\ pc'[p] = "dropping" => doc'[p] = None
          /\ pc'[p] \in {"replacing", "clearing", "filling"} /\ doc'[p] # None => meta' = doc'[p]
          /\ pc'[p] = "clearing" => \A k \in GeneratedKeys : items'[k] # None => k \in listed'[p]
          /\ pc'[p] = "filling" =>
               /\ \A i, j \in DOMAIN todo'[p] : todo'[p][i] = todo'[p][j] => i = j
               /\ \A i \in DOMAIN todo'[p] : todo'[p][i] \in KeysFrom(doc'[p])
               /\ \A k \in GeneratedKeys :
                    items'[k] = IF k \in KeysFrom(doc'[p]) /\ ~\E i \in DOMAIN todo'[p] : todo'[p][i] = k
                                THEN StepsOf[doc'[p]] ELSE None
  BY <1>1 DEF Undisturbed
<1>2. p = q
  BY StepsAreBusy DEF Undisturbed
<1>3. Busy' \subseteq {q}
  <2>1. \A r \in Requests \ {q} : pc'[r] = pc[r]
    BY DEF Step, WriteDocument, WriteSummary, List, DeleteNext, Cleared, Forget, SaveNext,
           GiveUp, Goto, TypeOK
  <2> QED
    BY <2>1, <1>2 DEF Busy, Undisturbed
<1>4. doc' = doc
  BY DEF Step, WriteDocument, WriteSummary, List, DeleteNext, Cleared, Forget, SaveNext
<1>5. CASE WriteDocument(q)
  <2>1. pc'[q] \in {"summing", "done"}
    BY <1>5 DEF WriteDocument, GiveUp, Goto, TypeOK
  <2> QED
    BY <2>1, <1>2, <1>3
<1>6. CASE WriteSummary(q)
  <2>1. pc'[q] = "done" \/ (pc'[q] = "replacing" /\ meta' = doc[q])
    BY <1>6 DEF WriteSummary, GiveUp, Goto, TypeOK
  <2> QED
    BY <2>1, <1>2, <1>3, <1>4
<1>7. CASE List(q)
  <2>1. /\ pc'[q] = "clearing" /\ meta' = meta /\ items' = items
        /\ listed'[q] = {k \in GeneratedKeys : items[k] # None}
        /\ pc[q] \in {"replacing", "dropping"}
    BY <1>7 DEF List, ListGenerated, Goto, specVars, storeVars, TypeOK
  <2>2. doc[q] # None => meta = doc[q]
    BY <2>1, <1>2 DEF Undisturbed
  <2> QED
    BY <2>1, <2>2, <1>2, <1>3, <1>4
<1>8. CASE DeleteNext(q)
  <2>1. PICK k \in Customs : /\ Delete(k) \/ (items[k] = None /\ UNCHANGED storeVars)
                             /\ listed' = [listed EXCEPT ![q] = @ \ {k}]
    BY <1>8 DEF DeleteNext
  <2>2. pc' = pc /\ pc[q] = "clearing" /\ meta' = meta /\ listed'[q] = listed[q] \ {k}
    BY <1>8, <2>1 DEF DeleteNext, specVars, TypeOK
  <2>3. items'[k] = None /\ \A j \in Customs : j # k => items'[j] = items[j]
    BY <2>1 DEF Delete, storeVars, TypeOK, StoreTypeOK
  <2>4. \A j \in GeneratedKeys : items'[j] # None => j \in listed'[q]
    BY <2>2, <2>3, <1>2, GeneratedAreCustoms DEF Undisturbed
  <2>5. doc[q] # None => meta' = doc[q]
    BY <2>2, <1>2 DEF Undisturbed
  <2> QED
    BY <2>2, <2>4, <2>5, <1>2, <1>3, <1>4
<1>9. CASE Cleared(q)
  <2>1. /\ pc'[q] = "filling" /\ meta' = meta /\ items' = items /\ todo'[q] = KeysOf[doc[q]]
        /\ pc[q] = "clearing" /\ listed[q] = {} /\ doc[q] # None /\ doc[q] \in Docs
    BY <1>9 DEF Cleared, Goto, specVars, storeVars, TypeOK
  <2>2. \A k \in GeneratedKeys : items'[k] = None
    BY <2>1, <1>2 DEF Undisturbed
  <2>3. meta' = doc[q]
    BY <2>1, <1>2 DEF Undisturbed
  <2>4. \A i, j \in DOMAIN todo'[q] : todo'[q][i] = todo'[q][j] => i = j
    BY <2>1, ImportAssumption
  <2>5. /\ \A k \in KeysFrom(doc[q]) : \E i \in DOMAIN todo'[q] : todo'[q][i] = k
        /\ \A i \in DOMAIN todo'[q] : todo'[q][i] \in KeysFrom(doc[q])
    BY <2>1 DEF KeysFrom
  <2> QED
    BY <2>1, <2>2, <2>3, <2>4, <2>5, <1>2, <1>3, <1>4
<1>10. CASE Forget(q)
  <2>1. pc'[q] = "done"
    BY <1>10 DEF Forget, GiveUp, Goto, TypeOK
  <2> QED
    BY <2>1, <1>2, <1>3
<1>11. CASE SaveNext(q)
  <2>1. /\ meta' = meta /\ pc[q] = "filling" /\ doc[q] \in Docs /\ doc[q] # None
    BY <1>11, ImportAssumption DEF SaveNext, specVars, TypeOK
  <2>2. meta' = doc[q]
    BY <2>1, <1>2 DEF Undisturbed
  <2>3. CASE pc'[q] = "done"
    BY <2>3, <1>2, <1>3
  <2>4. CASE pc'[q] # "done"
    <3>1. /\ todo[q] # <<>> /\ Save(Head(todo[q]), StepsOf[doc[q]])
          /\ todo'[q] = Tail(todo[q]) /\ pc'[q] = "filling"
      BY <1>11, <2>4 DEF SaveNext, GiveUp, Goto, TypeOK
    <3>2. todo[q] \in Seq(Customs)
      BY DEF TypeOK
    <3>3. \A i, j \in DOMAIN todo[q] : todo[q][i] = todo[q][j] => i = j
      BY <2>1, <1>2 DEF Undisturbed
    <3>4. /\ \A i, j \in DOMAIN Tail(todo[q]) : Tail(todo[q])[i] = Tail(todo[q])[j] => i = j
          /\ \A k : (\E i \in DOMAIN Tail(todo[q]) : Tail(todo[q])[i] = k) <=>
                    (k # Head(todo[q]) /\ \E i \in DOMAIN todo[q] : todo[q][i] = k)
      BY <3>1, <3>2, <3>3, DistinctTail
    <3>a. \A i \in DOMAIN todo[q] : todo[q][i] \in KeysFrom(doc[q])
      BY <2>1, <1>2 DEF Undisturbed
    <3>b. \A i \in DOMAIN Tail(todo[q]) : Tail(todo[q])[i] \in KeysFrom(doc[q])
      BY <3>a, <3>4
    <3>5. Head(todo[q]) \in Customs /\ \E i \in DOMAIN todo[q] : todo[q][i] = Head(todo[q])
      BY <3>1, <3>2, HeadTailProperties, EmptySeq, LenProperties
    <3>6. /\ items'[Head(todo[q])] = StepsOf[doc[q]]
          /\ \A k \in Customs : k # Head(todo[q]) => items'[k] = items[k]
      BY <3>1, <3>5 DEF Save, TypeOK, StoreTypeOK
    <3>7. ASSUME NEW k \in GeneratedKeys
          PROVE  items'[k] = IF k \in KeysFrom(doc[q]) /\ ~\E i \in DOMAIN todo'[q] : todo'[q][i] = k
                             THEN StepsOf[doc[q]] ELSE None
      <4>1. items[k] = IF k \in KeysFrom(doc[q]) /\ ~\E i \in DOMAIN todo[q] : todo[q][i] = k
                       THEN StepsOf[doc[q]] ELSE None
        BY <2>1, <1>2 DEF Undisturbed
      <4>2. k \in Customs
        BY GeneratedAreCustoms
      <4>3. CASE k = Head(todo[q])
        <5>1. k \in KeysFrom(doc[q]) /\ ~\E i \in DOMAIN Tail(todo[q]) : Tail(todo[q])[i] = k
          BY <3>a, <3>4, <3>5, <4>3
        <5> QED
          BY <3>1, <3>6, <4>3, <5>1
      <4>4. CASE k # Head(todo[q])
        <5>1. (\E i \in DOMAIN Tail(todo[q]) : Tail(todo[q])[i] = k)
                <=> \E i \in DOMAIN todo[q] : todo[q][i] = k
          BY <3>4, <4>4
        <5>2. items'[k] = items[k]
          BY <3>6, <4>2, <4>4
        <5> QED
          BY <3>1, <4>1, <5>1, <5>2
      <4> QED
        BY <4>3, <4>4
    <3> QED
      BY <3>1, <3>4, <3>b, <3>7, <2>2, <1>2, <1>3, <1>4
  <2> QED
    BY <2>3, <2>4
<1> QED
  BY <1>5, <1>6, <1>7, <1>8, <1>9, <1>10, <1>11 DEF Step

LEMMA NextUndisturbed == TypeOK /\ Undisturbed /\ [Next]_vars => Undisturbed'
<1> SUFFICES ASSUME TypeOK, Undisturbed, [Next]_vars PROVE Undisturbed'
  OBVIOUS
<1>1. CASE UNCHANGED vars
  BY <1>1 DEF vars, storeVars, specVars, requestVars, Undisturbed, Busy
<1>2. ASSUME NEW q \in Requests, NEW d \in Docs, Import(q, d) PROVE Undisturbed'
  BY <1>2, BeginUndisturbed DEF Import
<1>3. ASSUME NEW q \in Requests, Regenerate(q) PROVE Undisturbed'
  BY <1>3, BeginUndisturbed DEF Regenerate
<1>4. ASSUME NEW q \in Requests, Drop(q) PROVE Undisturbed'
  BY <1>4, BeginUndisturbed DEF Drop
<1>5. ASSUME NEW q \in Requests, Step(q) PROVE Undisturbed'
  BY <1>5, StepUndisturbed
<1>6. CASE Edit \/ Restart
  BY <1>6 DEF Edit, Restart, Undisturbed
<1> QED
  BY <1>1, <1>2, <1>3, <1>4, <1>5, <1>6 DEF Next

\* The step with which an undisturbed request succeeds leaves what it should.
LEMMA EndsExact ==
  ASSUME TypeOK, Undisturbed, [Next]_vars, NEW q \in alone,
         pc[q] \in Under, pc'[q] = "done", ~failed'[q]
  PROVE  /\ meta' = doc[q]
         /\ \A k \in GeneratedKeys :
              items'[k] = IF doc[q] # None /\ k \in KeysFrom(doc[q]) THEN StepsOf[doc[q]] ELSE None
<1>1. Step(q)
  <2>1. ASSUME NEW p \in Requests, Step(p) PROVE p = q
    BY <2>1, StepsAreBusy DEF Undisturbed
  <2>2. ASSUME NEW p \in Requests, NEW where, where # "done", NEW d, Begin(p, where, d) PROVE FALSE
    BY <2>2 DEF Begin, Goto, Under, TypeOK
  <2>3. ~(Edit \/ Restart \/ UNCHANGED vars)
    BY DEF Edit, Restart, vars, requestVars, Under, TypeOK
  <2> QED
    BY <2>1, <2>2, <2>3 DEF Next, Import, Regenerate, Drop
<1>2. (Forget(q) /\ ~GiveUp(q)) \/ (SaveNext(q) /\ ~GiveUp(q))
  <2>1. ~GiveUp(q)
    BY DEF GiveUp, TypeOK
  <2> QED
    BY <1>1, <2>1 DEF Step, WriteDocument, WriteSummary, List, DeleteNext, Cleared, Goto, Under, TypeOK
<1>3. CASE Forget(q) /\ ~GiveUp(q)
  <2>1. /\ meta' = None /\ doc[q] = None /\ items' = items /\ pc[q] = "clearing" /\ listed[q] = {}
    BY <1>3 DEF Forget, storeVars
  <2>2. \A k \in GeneratedKeys : items[k] = None
    BY <2>1 DEF Undisturbed
  <2> QED
    BY <2>1, <2>2
<1>4. CASE SaveNext(q) /\ ~GiveUp(q)
  <2>1. /\ todo[q] = <<>> /\ items' = items /\ meta' = meta /\ pc[q] = "filling" /\ doc[q] # None
    BY <1>4 DEF SaveNext, storeVars, specVars, Under, TypeOK
  <2>2. \A i \in DOMAIN todo[q] : FALSE
    BY <2>1
  <2> QED
    BY <2>1, <2>2 DEF Undisturbed
<1> QED
  BY <1>2, <1>3, <1>4

\* Whatever other requests, failures, crashes and edits left behind, a request that
\* then succeeds undisturbed leaves its summary and exactly its scenarios.
THEOREM UndisturbedCleansUp == Spec => UndisturbedIsExact
<1>1. Init => TypeOK /\ Undisturbed
  BY InitType DEF Init, Undisturbed
<1>2. TypeOK /\ Undisturbed /\ [Next]_vars => TypeOK' /\ Undisturbed'
  BY NextType, NextUndisturbed
<1>3. TypeOK /\ Undisturbed /\ [Next]_vars =>
        \A q \in alone : pc[q] \in Under /\ pc'[q] = "done" /\ ~failed'[q] =>
          /\ meta' = doc[q]
          /\ \A i \in DOMAIN Generated :
               items'[Generated[i]] =
                 IF doc[q] # None /\ Generated[i] \in KeysFrom(doc[q]) THEN StepsOf[doc[q]] ELSE None
  BY EndsExact DEF GeneratedKeys
<1> QED
  BY <1>1, <1>2, <1>3, PTL DEF Spec, UndisturbedIsExact

=============================================================================
