---------------------------- MODULE ScenarioStore ----------------------------
(***************************************************************************)
(* The store of custom scenarios (pkg/scenario/store.go) and the handlers  *)
(* of /api/scenarios (pkg/server/server.go).  A scenario is the list of    *)
(* its step IDs; what a step does is left out.  A save that fails leaves   *)
(* memory and disk as they were and is no step here.                       *)
(***************************************************************************)
EXTENDS Naturals, Sequences

CONSTANTS Customs,    \* keys of custom scenarios
          StepLists,  \* what users save
          None

\* Validate: at least one step, and no step ID twice.
ASSUME StoreAssumption ==
  /\ None \notin StepLists
  /\ \A s \in StepLists :
       /\ s # <<>>
       /\ \A i, j \in DOMAIN s : s[i] = s[j] => i = j

VARIABLES items,     \* Store.items
          files,     \* <key>.json
          creating   \* POST requests that found their key free

storeVars == <<items, files, creating>>

StoreTypeOK ==
  /\ items \in [Customs -> StepLists \cup {None}]
  /\ files \in [Customs -> StepLists \cup {None}]
  /\ creating \subseteq Customs \X StepLists

StoreInit ==
  /\ items = [k \in Customs |-> None]
  /\ files = [k \in Customs |-> None]
  /\ creating = {}

Save_memoryFirst(k, s) ==
  /\ items' = [items EXCEPT ![k] = s]
  /\ files' = [files EXCEPT ![k] = s] \/ UNCHANGED files

\* Store.Save: the file is replaced first, then the scenario in memory.
Save(k, s) ==
  /\ files' = [files EXCEPT ![k] = s]
  /\ items' = [items EXCEPT ![k] = s]

\* POST /api/scenarios: the key must be free.
CreateCheck(k, s) ==
  /\ items[k] = None
  /\ creating' = creating \cup {<<k, s>>}
  /\ UNCHANGED <<items, files>>

\* Its save, whatever took the key in between.
CreateSave(k, s) ==
  /\ <<k, s>> \in creating
  /\ Save(k, s)
  /\ creating' = creating \ {<<k, s>>}

\* PUT /api/scenarios/{key}, which also creates.
Put(k, s) == Save(k, s) /\ UNCHANGED creating

\* DELETE: memory first; the file may be left behind.
Delete(k) ==
  /\ items[k] # None
  /\ items' = [items EXCEPT ![k] = None]
  /\ files' = [files EXCEPT ![k] = None] \/ UNCHANGED files
  /\ UNCHANGED creating

\* NewStore after the process died.
Reload == items' = files /\ creating' = {} /\ UNCHANGED files

StoreStep ==
  \E k \in Customs :
    \/ Delete(k)
    \/ \E s \in StepLists : CreateCheck(k, s) \/ CreateSave(k, s) \/ Put(k, s)

=============================================================================
