----------------------------- MODULE SpecImport -----------------------------
(***************************************************************************)
(* The imported API specification (pkg/spec/store.go), the handlers of     *)
(* /api/spec (pkg/server/server.go) and the smoke scenarios they keep in   *)
(* the scenario store (ScenarioStore).  A document and the summary parsed  *)
(* from it have one name; a scenario generated from it is told apart by    *)
(* its steps.  Requests are not serialised: only the specification store   *)
(* and the scenario store have locks, and each call takes one.             *)
(***************************************************************************)
EXTENDS ScenarioStore, FiniteSets

CONSTANTS Docs,
          KeysOf,          \* per document the keys of the scenarios generated from it, in order
          StepsOf,         \* per document the steps of each of them
          Generated,       \* the keys that start with spec_smoke, in order
          UserSteps,       \* what users save
          Requests,
          MaxEdits,        \* bound on users' edits
          MaxRestarts      \* bound on restarts

ASSUME ImportAssumption ==
  /\ None \notin Docs
  /\ Generated \in Seq(Customs)
  /\ \A i, j \in DOMAIN Generated : Generated[i] = Generated[j] => i = j
  /\ UserSteps \subseteq StepLists
  /\ StepsOf \in [Docs -> StepLists]
  /\ KeysOf \in [Docs -> Seq({Generated[i] : i \in DOMAIN Generated})]
  /\ \A d \in Docs : \A i, j \in DOMAIN KeysOf[d] : KeysOf[d][i] = KeysOf[d][j] => i = j
  /\ MaxRestarts \in Nat /\ MaxEdits \in Nat

VARIABLES
  document,  \* spec.json
  summary,   \* meta.json
  raw, meta, \* the pair in memory
  pc,        \* per request where its handler is
  doc,       \* the summary it works with
  listed,    \* keys it has still to delete
  todo,      \* keys it has still to save, in order
  failed,    \* a save or removal of it failed
  cleared,   \* the request that was the last to end its deletions (history)
  alone,     \* requests with no other request or edit since they began (history)
  restarts, edits

specVars == <<document, summary, raw, meta>>
requestVars == <<pc, doc, listed, todo, failed>>
vars == <<storeVars, specVars, requestVars, cleared, alone, restarts, edits>>

Under == {"saving", "summing", "replacing", "clearing", "filling", "dropping"}

TypeOK ==
  /\ StoreTypeOK
  /\ document \in Docs \cup {None} /\ summary \in Docs \cup {None}
  /\ raw \in Docs \cup {None} /\ meta \in Docs \cup {None}
  /\ pc \in [Requests -> {"idle", "done", "dead"} \cup Under]
  /\ doc \in [Requests -> Docs \cup {None}]
  /\ listed \in [Requests -> SUBSET Customs]
  /\ todo \in [Requests -> Seq(Customs)]
  /\ \A q \in Requests : pc[q] \in {"saving", "summing", "replacing", "filling"} => doc[q] # None
  /\ failed \in [Requests -> BOOLEAN]
  /\ cleared \in Requests \cup {None} /\ alone \subseteq Requests
  /\ restarts \in 0..MaxRestarts /\ edits \in 0..MaxEdits

-----------------------------------------------------------------------------

\* NewStore loads the pair if both files are there.
LoadedRaw == IF summary = None THEN None ELSE document
LoadedMeta == IF document = None THEN None ELSE summary

\* The two files are what an earlier process left, torn or not.
Init ==
  /\ StoreInit
  /\ document \in Docs \cup {None} /\ summary \in Docs \cup {None}
  /\ raw = LoadedRaw /\ meta = LoadedMeta
  /\ pc = [q \in Requests |-> "idle"]
  /\ doc = [q \in Requests |-> None]
  /\ listed = [q \in Requests |-> {}]
  /\ todo = [q \in Requests |-> <<>>]
  /\ failed = [q \in Requests |-> FALSE]
  /\ cleared = None /\ alone = {} /\ restarts = 0 /\ edits = 0

Goto(q, where) == pc' = [pc EXCEPT ![q] = where]
Busy == {q \in Requests : pc[q] \in Under}

\* The specification store's lock is held from the first file to the last.
StoreFree == \A q \in Requests : pc[q] # "summing"

\* A request comes in; from now on it is not alone with others.
Begin(q, where, d) ==
  /\ pc[q] = "idle"
  /\ Goto(q, where)
  /\ doc' = [doc EXCEPT ![q] = d]
  /\ alone' = IF Busy = {} THEN {q} ELSE {}
  /\ UNCHANGED <<storeVars, specVars, listed, todo, failed, cleared, restarts, edits>>

\* handleSpecImport: the document is fetched and parsed, or nothing happens.
Import(q, d) == Begin(q, "saving", d)

Regenerate_ofNothing(q) == StoreFree /\ Begin(q, "replacing", meta)

\* handleSpecRegenerate, from the summary in memory.
Regenerate(q) == StoreFree /\ meta # None /\ Begin(q, "replacing", meta)

\* handleSpecCurrent, DELETE.
Drop(q) == Begin(q, "dropping", None)

GiveUp(q) == Goto(q, "done") /\ failed' = [failed EXCEPT ![q] = TRUE]

\* Store.Save: spec.json is replaced, or the import ends.
WriteDocument(q) ==
  /\ pc[q] = "saving" /\ StoreFree
  /\ \/ document' = doc[q] /\ Goto(q, "summing") /\ UNCHANGED failed
     \/ UNCHANGED document /\ GiveUp(q)
  /\ UNCHANGED <<storeVars, summary, raw, meta, doc, listed, todo, cleared, alone, restarts, edits>>

WriteSummary_keepsLock(q) ==
  /\ pc[q] = "summing" /\ ~failed[q]
  /\ \/ /\ summary' = doc[q] /\ raw' = doc[q] /\ meta' = doc[q]
        /\ Goto(q, "replacing") /\ UNCHANGED failed
     \/ UNCHANGED <<summary, raw, meta, pc>> /\ failed' = [failed EXCEPT ![q] = TRUE]
  /\ UNCHANGED <<storeVars, document, doc, listed, todo, cleared, alone, restarts, edits>>

\* Then meta.json, then the pair in memory; if meta.json cannot be replaced, the
\* new document stays beside the old summary.
WriteSummary(q) ==
  /\ pc[q] = "summing"
  /\ \/ /\ summary' = doc[q] /\ raw' = doc[q] /\ meta' = doc[q]
        /\ Goto(q, "replacing") /\ UNCHANGED failed
     \/ UNCHANGED <<summary, raw, meta>> /\ GiveUp(q)
  /\ UNCHANGED <<storeVars, document, doc, listed, todo, cleared, alone, restarts, edits>>

GeneratedKeys == {Generated[i] : i \in DOMAIN Generated}
KeysFrom(d) == {KeysOf[d][i] : i \in DOMAIN KeysOf[d]}

ListGenerated_ofDocument(q) ==
  {k \in IF doc[q] = None THEN GeneratedKeys ELSE KeysFrom(doc[q]) : items[k] # None}

\* deleteGeneratedScenarios takes the list first, as it is at this moment.
ListGenerated(q) == {k \in GeneratedKeys : items[k] # None}

List(q) ==
  /\ pc[q] \in {"replacing", "dropping"}
  /\ listed' = [listed EXCEPT ![q] = ListGenerated(q)]
  /\ Goto(q, "clearing")
  /\ UNCHANGED <<storeVars, specVars, doc, todo, failed, cleared, alone, restarts, edits>>

\* The list is in the order of the keys.
FirstListed(q, k) ==
  /\ k \in listed[q]
  /\ \A i, j \in DOMAIN Generated : Generated[i] \in listed[q] /\ Generated[j] = k => i >= j

\* One deletion; that the scenario is gone already, or its file cannot be removed,
\* is ignored.
DeleteNext(q) ==
  /\ pc[q] = "clearing"
  /\ \E k \in Customs :
       /\ FirstListed(q, k)
       /\ \/ Delete(k)
          \/ items[k] = None /\ UNCHANGED storeVars
       /\ listed' = [listed EXCEPT ![q] = @ \ {k}]
  /\ UNCHANGED <<specVars, pc, doc, todo, failed, cleared, alone, restarts, edits>>

\* All are deleted: replaceGeneratedScenarios turns to the new ones.
Cleared(q) ==
  /\ pc[q] = "clearing" /\ listed[q] = {} /\ doc[q] # None
  /\ todo' = [todo EXCEPT ![q] = KeysOf[doc[q]]]
  /\ cleared' = q
  /\ Goto(q, "filling")
  /\ UNCHANGED <<storeVars, specVars, doc, listed, failed, alone, restarts, edits>>

\* Or Store.Delete removes the two files, stopping at the first that stays.
Forget(q) ==
  /\ pc[q] = "clearing" /\ listed[q] = {} /\ doc[q] = None /\ StoreFree
  /\ \/ /\ document' = None /\ summary' = None /\ raw' = None /\ meta' = None
        /\ Goto(q, "done") /\ UNCHANGED failed
     \/ /\ document' = None \/ UNCHANGED document
        /\ GiveUp(q) /\ UNCHANGED <<summary, raw, meta>>
  /\ cleared' = q
  /\ UNCHANGED <<storeVars, doc, listed, todo, alone, restarts, edits>>

SaveNext_ignoresError(q) ==
  /\ pc[q] = "filling"
  /\ \/ /\ todo[q] # <<>>
        /\ Save(Head(todo[q]), StepsOf[doc[q]]) \/ UNCHANGED <<items, files>>
        /\ todo' = [todo EXCEPT ![q] = Tail(@)]
        /\ UNCHANGED <<creating, pc, failed>>
     \/ todo[q] = <<>> /\ Goto(q, "done") /\ UNCHANGED <<storeVars, todo, failed>>
  /\ UNCHANGED <<specVars, doc, listed, cleared, alone, restarts, edits>>

\* One of the new scenarios is saved; the first that fails ends the request.
SaveNext(q) ==
  /\ pc[q] = "filling"
  /\ \/ /\ todo[q] # <<>> /\ Save(Head(todo[q]), StepsOf[doc[q]])
        /\ todo' = [todo EXCEPT ![q] = Tail(@)]
        /\ UNCHANGED <<creating, pc, failed>>
     \/ todo[q] # <<>> /\ GiveUp(q) /\ UNCHANGED <<storeVars, todo>>
     \/ todo[q] = <<>> /\ Goto(q, "done") /\ UNCHANGED <<storeVars, todo, failed>>
  /\ UNCHANGED <<specVars, doc, listed, cleared, alone, restarts, edits>>

Step(q) ==
  \/ WriteDocument(q) \/ WriteSummary(q)
  \/ List(q) \/ DeleteNext(q) \/ Cleared(q) \/ Forget(q) \/ SaveNext(q)

\* Users edit scenarios, generated ones too (a POST ends like a PUT).
Edit ==
  /\ edits < MaxEdits /\ edits' = edits + 1
  /\ \E k \in Customs : Delete(k) \/ \E s \in UserSteps : Put(k, s)
  /\ alone' = {} /\ cleared' = None
  /\ UNCHANGED <<specVars, requestVars, restarts>>

\* The process dies, in the middle of requests, and starts again.
Restart ==
  /\ restarts < MaxRestarts
  /\ restarts' = restarts + 1
  /\ Reload
  /\ raw' = LoadedRaw /\ meta' = LoadedMeta
  /\ pc' = [q \in Requests |-> IF pc[q] \in Under THEN "dead" ELSE pc[q]]
  /\ alone' = {} /\ cleared' = None
  /\ UNCHANGED <<document, summary, doc, listed, todo, failed, edits>>

Next == \/ \E q \in Requests : \/ \E d \in Docs : Import(q, d)
                               \/ Regenerate(q) \/ Drop(q) \/ Step(q)
        \/ Edit
        \/ Restart

Spec == Init /\ [][Next]_vars
FairSpec == Spec /\ \A q \in Requests : WF_vars(Step(q))

-----------------------------------------------------------------------------
(* Properties.                                                             *)

\* A request that succeeds undisturbed leaves the summary it worked with and exactly
\* its scenarios, a removal none: whatever overlapping, failing or dying requests
\* and edits left before is cleaned up.
UndisturbedIsExact ==
  [][\A q \in alone : pc[q] \in Under /\ pc'[q] = "done" /\ ~failed'[q] =>
       /\ meta' = doc[q]
       /\ \A i \in DOMAIN Generated :
            items'[Generated[i]] =
              IF doc[q] # None /\ Generated[i] \in KeysFrom(doc[q]) THEN StepsOf[doc[q]] ELSE None]_vars

\* However requests overlap, once all have ended every scenario of the document is
\* there whose request was the last to finish deleting, though some may be the
\* version of another document.
LastReplacementIsComplete ==
  Busy = {} /\ cleared # None => doc[cleared] = None \/ failed[cleared] \/
    \A k \in KeysFrom(doc[cleared]) : items[k] # None

\* A request that has begun ends, unless the process dies: the two stores' locks
\* never keep requests waiting for one another.
RequestEnds == \A q \in Requests : pc[q] \in Under ~> pc[q] \in {"done", "dead"}

=============================================================================
