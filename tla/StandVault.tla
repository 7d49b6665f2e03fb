------------------------------ MODULE StandVault ------------------------------
(***************************************************************************)
(* Stands and their token vaults: the stand registry                       *)
(* (pkg/stands/store.go), the vault files (pkg/stands/vault.go), the       *)
(* snapshot and restore of the session manager                             *)
(* (pkg/client/session_manager.go) and the handlers that switch the engine *)
(* from one stand to another (pkg/server/server.go).                       *)
(*                                                                         *)
(* Requests are served concurrently: the registry has its own lock, the    *)
(* switch of target and vault has another, and a login adds its token      *)
(* under a third when the backend has answered.  A stand is identified by  *)
(* the slug of its name, so a stand added after another of that name was   *)
(* deleted takes over the ID.  URLs, names and roles are left out.         *)
(***************************************************************************)
EXTENDS Naturals, FiniteSets

CONSTANTS Ids, Default, Mock,  \* stand IDs, the seeded one, the embedded mock (or not)
          Codes, NoCode,       \* verification codes; NoCode is the empty string
          Tokens,
          Preset,              \* tokens given in the environment
          EnvCode,             \* VERIFICATION_CODE
          Handlers,            \* HTTP requests and running suites served at once
          None,
          Elsewhere,           \* a backend that is no stand's
          MaxAdds, MaxConfigs, MaxRestarts \* bounds on Add and config requests and restarts

ASSUME StandAssumption ==
  /\ Default \in Ids /\ Mock \subseteq {Default}
  /\ NoCode \notin Codes /\ EnvCode \in Codes \cup {NoCode}
  /\ Preset \subseteq Tokens
  /\ None \notin Ids \cup Tokens \cup {Elsewhere} /\ \A T \in SUBSET Tokens : T # None
  /\ MaxAdds \in Nat /\ MaxConfigs \in Nat /\ MaxRestarts \in Nat

VARIABLES
  stands,      \* Store.items: the IDs taken (memory and stands.json agree)
  codeOf,      \* Stand.VerifyCode
  activeID,    \* Store.activeID
  target,      \* the stand whose URL the HTTP client uses, or Elsewhere
  repointed,   \* POST /api/config set that URL since a stand was applied (history)
  code,        \* FixtureManager.verificationCode
  lastStandID,
  vault,       \* the tokens in the session manager
  vaultFile,   \* per stand, the tokens in vaults/<id>.json, or None
  pc, arg,     \* per handler: the step it is at and the stand it is about
  argCode,     \* the verify code of the stand it applies, or before its update
  login,       \* the token it is logging in for
  issuer,      \* per token, the stand whose backend issued it (history)
  calm,        \* per token, the stand it was added to outside a switch, until
               \* a save or a load of its vault failed (history)
  adds, configs, restarts

storeVars == <<stands, codeOf, activeID>>
engineVars == <<target, repointed, code, lastStandID>>
historyVars == <<issuer, calm>>
boundVars == <<adds, configs, restarts>>
vars == <<storeVars, engineVars, vault, vaultFile, pc, arg, argCode, login,
          historyVars, boundVars>>

AnyCode == Codes \cup {NoCode}

TypeOK ==
  /\ stands \subseteq Ids /\ codeOf \in [Ids -> AnyCode] /\ activeID \in stands
  /\ target \in Ids \cup {Elsewhere} /\ repointed \in BOOLEAN /\ code \in AnyCode /\ lastStandID \in Ids
  /\ vault \subseteq Tokens
  /\ vaultFile \in [Ids -> (SUBSET Tokens) \cup {None}]
  /\ pc \in [Handlers -> {"idle", "apply", "saved", "remove", "edited", "repoint", "config", "login"}]
  /\ arg \in [Handlers -> Ids \cup {None}]
  /\ argCode \in [Handlers -> AnyCode]
  /\ login \in [Handlers -> Tokens \cup {None}]
  /\ issuer \in [Tokens -> Ids \cup {Elsewhere, None}]
  /\ calm \in [Tokens -> Ids \cup {None}]
  /\ adds \in 0..MaxAdds /\ configs \in 0..MaxConfigs /\ restarts \in 0..MaxRestarts

\* The universal code after applyTargetLocked: a stand without one keeps the old.
CodeAfter(c) == IF c = NoCode THEN code ELSE c

-----------------------------------------------------------------------------
(* NewServer on a fresh data directory: one seeded stand, applied at once. *)

Init ==
  /\ stands = {Default} /\ codeOf = [i \in Ids |-> NoCode] /\ activeID = Default
  /\ target = Default /\ repointed = FALSE /\ code = EnvCode /\ lastStandID = Default
  /\ vault = Preset
  /\ vaultFile = [i \in Ids |-> None]
  /\ pc = [h \in Handlers |-> "idle"]
  /\ arg = [h \in Handlers |-> None]
  /\ argCode = [h \in Handlers |-> NoCode]
  /\ login = [h \in Handlers |-> None]
  /\ issuer = [t \in Tokens |-> None]
  /\ calm = [t \in Tokens |-> None]
  /\ adds = 0 /\ configs = 0 /\ restarts = 0

\* The tokens of T can no longer be counted on.
Unsettle(T) == calm' = [t \in Tokens |-> IF t \in T THEN None ELSE calm[t]]

\* vaultMu: between the save of one vault and the load of the next.
Switching == \E h \in Handlers : pc[h] = "saved"

Rest(h) == /\ pc' = [pc EXCEPT ![h] = "idle"]
           /\ arg' = [arg EXCEPT ![h] = None]
           /\ argCode' = [argCode EXCEPT ![h] = NoCode]
           /\ login' = [login EXCEPT ![h] = None]

Goto(h, step, id, c) == /\ pc' = [pc EXCEPT ![h] = step]
                        /\ arg' = [arg EXCEPT ![h] = id]
                        /\ argCode' = [argCode EXCEPT ![h] = c]
                        /\ UNCHANGED login

-----------------------------------------------------------------------------
(* The registry: each operation is one locked section of Store.  A failing *)
(* save of stands.json rolls it back, which leaves no trace.               *)

\* POST /api/stands; uniqueSlug yields an ID that is not taken.
Add(id, c) ==
  /\ adds < MaxAdds /\ id \notin stands
  /\ adds' = adds + 1
  /\ stands' = stands \cup {id}
  /\ codeOf' = [codeOf EXCEPT ![id] = c]
  /\ UNCHANGED <<activeID, engineVars, vault, vaultFile, pc, arg, argCode, login,
                 historyVars, configs, restarts>>

\* PUT /api/stands/{id} with another code: the old stand is read and
\* Store.Update replaces it.
Update(h, id, c) ==
  /\ pc[h] = "idle" /\ id \in stands /\ codeOf[id] # c
  /\ codeOf' = [codeOf EXCEPT ![id] = c]
  /\ Goto(h, "edited", id, codeOf[id])
  /\ UNCHANGED <<stands, activeID, engineVars, vault, vaultFile, historyVars, boundVars>>

\* The stand is read back, and applied if it is active and differs.
AfterUpdate(h) ==
  /\ pc[h] = "edited"
  /\ LET id == arg[h] IN
       IF activeID = id /\ codeOf[id] # argCode[h]
       THEN Goto(h, "apply", id, codeOf[id]) ELSE Rest(h)
  /\ UNCHANGED <<storeVars, engineVars, vault, vaultFile, historyVars, boundVars>>

\* POST /api/stands/{id}/activate: Store.Activate returns a copy to apply.
Activate(h, id) ==
  /\ pc[h] = "idle" /\ id \in stands
  /\ activeID' = id
  /\ Goto(h, "apply", id, codeOf[id])
  /\ UNCHANGED <<stands, codeOf, engineVars, vault, vaultFile, historyVars, boundVars>>

Delete_anyStand(h, id) ==
  /\ pc[h] = "idle" /\ id \in stands \ Mock
  /\ stands' = stands \ {id}
  /\ codeOf' = [codeOf EXCEPT ![id] = NoCode]
  /\ Goto(h, "remove", id, NoCode)
  /\ UNCHANGED <<activeID, engineVars, vault, vaultFile, historyVars, boundVars>>

\* DELETE /api/stands/{id}: neither the mock nor the active stand.
Delete(h, id) ==
  /\ pc[h] = "idle" /\ id \in stands \ (Mock \cup {activeID})
  /\ stands' = stands \ {id}
  /\ codeOf' = [codeOf EXCEPT ![id] = NoCode]
  /\ Goto(h, "remove", id, NoCode)
  /\ UNCHANGED <<activeID, engineVars, vault, vaultFile, historyVars, boundVars>>

\* Then, under vaultMu, RemoveVault.
RemoveVault(h) ==
  /\ pc[h] = "remove" /\ ~Switching
  /\ vaultFile' = [vaultFile EXCEPT ![arg[h]] = None]
  /\ Rest(h)
  /\ UNCHANGED <<storeVars, engineVars, vault, historyVars, boundVars>>

\* POST /api/config with a base URL: the engine is repointed at once, without
\* vaultMu.  The URL counts as that of the stand that is active by then.
Configure(h) ==
  /\ configs < MaxConfigs /\ pc[h] = "idle"
  /\ configs' = configs + 1
  /\ target' = IF activeID \in Mock THEN Elsewhere ELSE activeID
  /\ repointed' = TRUE
  /\ Goto(h, "repoint", None, NoCode)
  /\ UNCHANGED <<storeVars, code, lastStandID, vault, vaultFile, historyVars, adds, restarts>>

\* It then reads the stand that is active by now.
ReadActive(h) ==
  /\ pc[h] = "repoint"
  /\ Goto(h, "config", activeID, codeOf[activeID])
  /\ UNCHANGED <<storeVars, engineVars, vault, vaultFile, historyVars, boundVars>>

\* Its Store.Update, with the code that was read.  The mock's URL is immutable
\* and a deleted stand is not found: the error is ignored.
ConfigureStand(h) ==
  /\ pc[h] = "config"
  /\ codeOf' = IF arg[h] \in stands \ Mock THEN [codeOf EXCEPT ![arg[h]] = argCode[h]] ELSE codeOf
  /\ Rest(h)
  /\ UNCHANGED <<stands, activeID, engineVars, vault, vaultFile, historyVars, boundVars>>

-----------------------------------------------------------------------------
(* applyStand, under vaultMu.                                              *)

ApplyTarget(h) == target' = arg[h] /\ repointed' = FALSE /\ code' = CodeAfter(argCode[h])

\* The stand whose vault is loaded is applied again: the vault stays.
ApplyAgain(h) ==
  /\ pc[h] = "apply" /\ ~Switching /\ arg[h] = lastStandID
  /\ ApplyTarget(h)
  /\ Rest(h)
  /\ UNCHANGED <<storeVars, lastStandID, vault, vaultFile, historyVars, boundVars>>

SaveOutgoingUnder(id) == \/ /\ vaultFile' = [vaultFile EXCEPT ![id] = vault]
                            /\ UNCHANGED calm
                         \/ /\ Unsettle(vault)
                            /\ UNCHANGED vaultFile

SaveOutgoing_incomingID(h) ==
  /\ pc[h] = "apply" /\ ~Switching /\ arg[h] # lastStandID
  /\ ApplyTarget(h)
  /\ SaveOutgoingUnder(arg[h])
  /\ pc' = [pc EXCEPT ![h] = "saved"]
  /\ UNCHANGED <<storeVars, lastStandID, vault, arg, argCode, login, issuer, boundVars>>

SaveOutgoing_unlocked(h) ==
  /\ pc[h] = "apply" /\ arg[h] # lastStandID
  /\ ApplyTarget(h)
  /\ SaveOutgoingUnder(lastStandID)
  /\ pc' = [pc EXCEPT ![h] = "saved"]
  /\ UNCHANGED <<storeVars, lastStandID, vault, arg, argCode, login, issuer, boundVars>>

\* A switch begins: the engine is repointed, and Snapshot and SaveVault store
\* the outgoing vault.  A failing save is logged and the switch goes on.
SaveOutgoing(h) ==
  /\ pc[h] = "apply" /\ ~Switching /\ arg[h] # lastStandID
  /\ ApplyTarget(h)
  /\ SaveOutgoingUnder(lastStandID)
  /\ pc' = [pc EXCEPT ![h] = "saved"]
  /\ UNCHANGED <<storeVars, lastStandID, vault, arg, argCode, login, issuer, boundVars>>

Loaded(id) == IF vaultFile[id] = None THEN {} ELSE vaultFile[id]

LoadIncoming_keepsOld(h) ==
  /\ pc[h] = "saved"
  /\ vault' = IF vaultFile[arg[h]] = None THEN vault ELSE vaultFile[arg[h]]
  /\ UNCHANGED calm
  /\ lastStandID' = arg[h]
  /\ Rest(h)
  /\ UNCHANGED <<storeVars, target, repointed, code, vaultFile, issuer, boundVars>>

\* LoadVault of the incoming stand and Restore; with no file, or one that
\* cannot be read, the stand starts empty.
LoadIncoming(h) ==
  /\ pc[h] = "saved"
  /\ \/ vault' = Loaded(arg[h]) /\ UNCHANGED calm
     \/ vault' = {} /\ Unsettle(Loaded(arg[h]))
  /\ lastStandID' = arg[h]
  /\ Rest(h)
  /\ UNCHANGED <<storeVars, target, repointed, code, vaultFile, issuer, boundVars>>

-----------------------------------------------------------------------------
(* A login, from a token handler or a fixture: the backend the engine      *)
(* points at issues a token, which AddToken puts in the vault later on.    *)

LoginStart(h, t) ==
  /\ pc[h] = "idle" /\ issuer[t] = None /\ t \notin Preset
  /\ issuer' = [issuer EXCEPT ![t] = target]
  /\ pc' = [pc EXCEPT ![h] = "login"]
  /\ login' = [login EXCEPT ![h] = t]
  /\ UNCHANGED <<storeVars, engineVars, vault, vaultFile, arg, argCode, calm, boundVars>>

AddToken(h) ==
  /\ pc[h] = "login"
  /\ vault' = vault \cup {login[h]}
  /\ calm' = IF Switching THEN calm ELSE [calm EXCEPT ![login[h]] = lastStandID]
  /\ Rest(h)
  /\ UNCHANGED <<storeVars, engineVars, vaultFile, issuer, boundVars>>

\* DeleteProfile, from the vault page: the token is not expected back.
DeleteToken(t) ==
  /\ t \in vault
  /\ vault' = vault \ {t}
  /\ Unsettle({t})
  /\ UNCHANGED <<storeVars, engineVars, vaultFile, pc, arg, argCode, login, issuer, boundVars>>

-----------------------------------------------------------------------------
(* The process dies and NewServer applies the active stand: its stored     *)
(* vault if it can be read, plus the preset tokens.                        *)

Restart ==
  /\ restarts < MaxRestarts
  /\ restarts' = restarts + 1
  /\ target' = activeID /\ repointed' = FALSE /\ lastStandID' = activeID
  /\ code' = IF codeOf[activeID] = NoCode THEN EnvCode ELSE codeOf[activeID]
  /\ vault' \in {Preset, Preset \cup Loaded(activeID)}
  /\ pc' = [h \in Handlers |-> "idle"]
  /\ arg' = [h \in Handlers |-> None]
  /\ argCode' = [h \in Handlers |-> NoCode]
  /\ login' = [h \in Handlers |-> None]
  /\ UNCHANGED <<storeVars, vaultFile, historyVars, adds, configs>>

-----------------------------------------------------------------------------

HandlerStep(h) ==
  \/ \E id \in Ids : Activate(h, id) \/ Delete(h, id) \/ \E c \in AnyCode : Update(h, id, c)
  \/ AfterUpdate(h) \/ RemoveVault(h) \/ Configure(h) \/ ReadActive(h) \/ ConfigureStand(h)
  \/ ApplyAgain(h) \/ SaveOutgoing(h) \/ LoadIncoming(h)
  \/ AddToken(h) \/ \E t \in Tokens : LoginStart(h, t)

Next == \/ \E id \in Ids, c \in AnyCode : Add(id, c)
        \/ \E h \in Handlers : HandlerStep(h)
        \/ \E t \in Tokens : DeleteToken(t)
        \/ Restart

Spec == Init /\ [][Next]_vars

-----------------------------------------------------------------------------
(* Properties.                                                             *)

\* Whatever requests overlap, outside a switch the URL the engine calls and
\* the vault it takes tokens from belong to the same stand, unless the URL was
\* configured by hand since.
TargetMatchesVault == ~Switching /\ ~repointed => target = lastStandID

InFile(i, t) == vaultFile[i] # None /\ t \in vaultFile[i]
HomeOf(i, t) == (i = lastStandID /\ t \in vault) \/ InFile(i, t)

\* Switching moves a vault and never copies it: a token obtained from a login
\* is kept by one stand only, in memory or in one file.
TokenHasOneHome ==
  \A t \in Tokens \ Preset : \A i, j \in Ids : HomeOf(i, t) /\ HomeOf(j, t) => i = j

KeptBy(id, t) == IF lastStandID = id THEN t \in vault ELSE InFile(id, t)

KeepsSettledTokens ==
  restarts' = restarts =>
    \A t \in Tokens, id \in Ids :
      calm[t] = id /\ calm'[t] = id /\ KeptBy(id, t) =>
        \/ KeptBy(id, t)'
        \/ vaultFile'[id] = None /\ \E h \in Handlers : pc[h] = "remove" /\ arg[h] = id

\* A token added outside a switch is still in its stand's vault (in memory if
\* the stand is loaded, else in its file) after any switching to and fro,
\* until it or a stand of that ID is deleted or the process dies.  Failed saves and
\* loads of the vault excepted.
TokensSurviveSwitching == [][KeepsSettledTokens]_vars

\* "lastStandID tracks the stand that owns the SessionMgr contents right now"
\* (server.go:41): every token in memory was issued by that stand's backend.
VaultIsOwned == ~Switching => \A t \in vault \ Preset : issuer[t] = lastStandID

\* "On a real stand without a universal code, fixtures pause mid-run"
\* (server.go:137): with no request under way, an engine that points at a stand
\* without a code of its own has no code but the configured default.
CodelessStandPrompts ==
  (\A h \in Handlers : pc[h] = "idle") /\ target \in stands \ Mock /\ codeOf[target] = NoCode
    => code = EnvCode

=============================================================================
