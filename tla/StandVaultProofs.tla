--------------------------- MODULE StandVaultProofs ---------------------------
(***************************************************************************)
(* Safety of stand switching for every set of stands, tokens and handlers. *)
(* The inductive invariant adds to the checked ones what a handler knows   *)
(* about its own stand or token: one handler at most is switching, to the  *)
(* stand the engine already points at; a token that is being logged in for *)
(* is in no vault yet; and a switch has a file for what it may drop.       *)
(***************************************************************************)
EXTENDS StandVault, TLAPS

\* A handler that works on a stand or a token has one.
HandlersHaveArgs ==
  \A h \in Handlers :
    /\ pc[h] \in {"apply", "saved", "remove", "edited", "config"} => arg[h] \in Ids
    /\ pc[h] = "login" => login[h] \in Tokens \ Preset

\* One handler switches at a time, and the engine points at its stand unless the
\* URL has been configured by hand meanwhile.
OneSwitch ==
  \A h \in Handlers : pc[h] = "saved" =>
    /\ ~repointed => target = arg[h]
    /\ arg[h] # lastStandID
    /\ \A g \in Handlers : pc[g] = "saved" => g = h

\* A token that is in no handler's hands and has not been issued is nowhere.
UnissuedIsNowhere ==
  \A t \in Tokens \ Preset : issuer[t] = None =>
    /\ calm[t] = None
    /\ \A i \in Ids : ~HomeOf(i, t)

\* A token that is being logged in for is issued, in one handler's hands only
\* and in no vault.
LoginsAreNew ==
  \A h \in Handlers : pc[h] = "login" =>
    /\ issuer[login[h]] # None /\ calm[login[h]] = None
    /\ \A i \in Ids : ~HomeOf(i, login[h])
    /\ \A g \in Handlers : pc[g] = "login" /\ login[g] = login[h] => g = h

\* What a switch is about to drop from memory is in the file of its stand.
SwitchHasSaved ==
  Switching => \A t \in vault : calm[t] = lastStandID => InFile(lastStandID, t)

Control == TypeOK /\ HandlersHaveArgs /\ OneSwitch /\ TargetMatchesVault
Homes == UnissuedIsNowhere /\ LoginsAreNew /\ TokenHasOneHome
IInv == Control /\ Homes /\ SwitchHasSaved

-----------------------------------------------------------------------------

LEMMA ControlInit == Init => Control
<1> SUFFICES ASSUME Init PROVE Control
  OBVIOUS
<1>1. TypeOK
  <2> USE StandAssumption DEF Init, TypeOK, AnyCode
  <2>1. stands \subseteq Ids /\ codeOf \in [Ids -> AnyCode] /\ activeID \in stands
    OBVIOUS
  <2>2. vault \subseteq Tokens /\ vaultFile \in [Ids -> (SUBSET Tokens) \cup {None}]
    OBVIOUS
  <2>3. adds \in 0..MaxAdds /\ configs \in 0..MaxConfigs /\ restarts \in 0..MaxRestarts
    OBVIOUS
  <2> QED
    BY <2>1, <2>2, <2>3
<1>2. HandlersHaveArgs /\ OneSwitch /\ TargetMatchesVault
  BY DEF Init, HandlersHaveArgs, OneSwitch, TargetMatchesVault, Switching
<1> QED
  BY <1>1, <1>2 DEF Control

\* Every step keeps types, arguments and the exclusion of switches.
LEMMA ControlStep == Control /\ [Next]_vars => Control'
<1> SUFFICES ASSUME Control, [Next]_vars PROVE Control'
  OBVIOUS
<1> USE StandAssumption DEF Control, TypeOK, AnyCode
<1>1. ASSUME NEW id \in Ids, NEW c \in AnyCode, Add(id, c)
      PROVE  Control'
  BY <1>1 DEF Add, engineVars, historyVars, HandlersHaveArgs, OneSwitch,
    TargetMatchesVault, Switching
<1>2. ASSUME NEW h \in Handlers, NEW id \in Ids, Activate(h, id)
      PROVE  Control'
  BY <1>2 DEF Activate, Goto, engineVars, historyVars, boundVars, HandlersHaveArgs,
    OneSwitch, TargetMatchesVault, Switching
<1>3. ASSUME NEW h \in Handlers, NEW id \in Ids, Delete(h, id)
      PROVE  Control'
  BY <1>3 DEF Delete, Goto, engineVars, historyVars, boundVars, HandlersHaveArgs,
    OneSwitch, TargetMatchesVault, Switching
<1>4. ASSUME NEW h \in Handlers, NEW id \in Ids, NEW c \in AnyCode, Update(h, id, c)
      PROVE  Control'
  BY <1>4 DEF Update, Goto, engineVars, historyVars, boundVars, HandlersHaveArgs,
    OneSwitch, TargetMatchesVault, Switching
<1>5. ASSUME NEW h \in Handlers, AfterUpdate(h)
      PROVE  Control'
  BY <1>5 DEF AfterUpdate, Goto, Rest, storeVars, engineVars, historyVars, boundVars,
    HandlersHaveArgs, OneSwitch, TargetMatchesVault, Switching
<1>6. ASSUME NEW h \in Handlers, RemoveVault(h)
      PROVE  Control'
  BY <1>6 DEF RemoveVault, Rest, storeVars, engineVars, historyVars, boundVars,
    HandlersHaveArgs, OneSwitch, TargetMatchesVault, Switching
<1>7. ASSUME NEW h \in Handlers, ApplyAgain(h)
      PROVE  Control'
  BY <1>7 DEF ApplyAgain, ApplyTarget, CodeAfter, Rest, storeVars, historyVars, boundVars,
    HandlersHaveArgs, OneSwitch, TargetMatchesVault, Switching
<1>8. ASSUME NEW h \in Handlers, SaveOutgoing(h)
      PROVE  Control'
  BY ZenonT(30), <1>8 DEF SaveOutgoing, ApplyTarget, CodeAfter, SaveOutgoingUnder, Unsettle, storeVars,
    boundVars, HandlersHaveArgs, OneSwitch, TargetMatchesVault, Switching
<1>9. ASSUME NEW h \in Handlers, LoadIncoming(h)
      PROVE  Control'
  BY <1>9 DEF LoadIncoming, Loaded, Unsettle, Rest, storeVars, boundVars,
    HandlersHaveArgs, OneSwitch, TargetMatchesVault, Switching
<1>10. ASSUME NEW h \in Handlers, NEW t \in Tokens, LoginStart(h, t)
       PROVE  Control'
  BY <1>10 DEF LoginStart, storeVars, engineVars, boundVars,
    HandlersHaveArgs, OneSwitch, TargetMatchesVault, Switching
<1>11. ASSUME NEW h \in Handlers, AddToken(h)
       PROVE  Control'
  BY <1>11 DEF AddToken, Rest, storeVars, engineVars, boundVars,
    HandlersHaveArgs, OneSwitch, TargetMatchesVault, Switching
<1>12. ASSUME NEW h \in Handlers, Configure(h)
       PROVE  Control'
  BY <1>12 DEF Configure, Goto, storeVars, historyVars, HandlersHaveArgs, OneSwitch,
    TargetMatchesVault, Switching
<1>13. ASSUME NEW h \in Handlers, ReadActive(h)
       PROVE  Control'
  BY <1>13 DEF ReadActive, Goto, storeVars, engineVars, historyVars, boundVars,
    HandlersHaveArgs, OneSwitch, TargetMatchesVault, Switching
<1>14. ASSUME NEW h \in Handlers, ConfigureStand(h)
       PROVE  Control'
  BY <1>14 DEF ConfigureStand, Rest, engineVars, historyVars, boundVars, HandlersHaveArgs, OneSwitch,
    TargetMatchesVault, Switching
<1>15. ASSUME NEW t \in Tokens, DeleteToken(t)
       PROVE  Control'
  BY <1>15 DEF DeleteToken, Unsettle, storeVars, engineVars, boundVars, HandlersHaveArgs, OneSwitch,
    TargetMatchesVault, Switching
<1>16. ASSUME Restart PROVE Control'
  <2>1. vault' \subseteq Tokens
    BY <1>16 DEF Restart, Loaded
  <2>2. target' = activeID /\ lastStandID' = activeID /\ activeID \in Ids
    BY <1>16 DEF Restart
  <2>3. TypeOK'
    <3>1. /\ pc' \in [Handlers -> {"idle", "apply", "saved", "remove", "edited", "repoint", "config", "login"}]
          /\ arg' \in [Handlers -> Ids \cup {None}] /\ argCode' \in [Handlers -> AnyCode]
          /\ login' \in [Handlers -> Tokens \cup {None}]
      BY <1>16 DEF Restart
    <3>2. code' \in AnyCode /\ repointed' \in BOOLEAN
      BY <1>16 DEF Restart
    <3>3. /\ adds' \in 0..MaxAdds /\ configs' \in 0..MaxConfigs
          /\ restarts' \in 0..MaxRestarts
      BY <1>16 DEF Restart
    <3> QED
      BY <1>16, <2>1, <2>2, <3>1, <3>2, <3>3 DEF Restart, storeVars, historyVars
  <2>4. HandlersHaveArgs' /\ OneSwitch' /\ TargetMatchesVault'
    BY <1>16, <2>2 DEF Restart, HandlersHaveArgs, OneSwitch, TargetMatchesVault, Switching
  <2> QED
    BY <2>3, <2>4
<1>17. ASSUME UNCHANGED vars PROVE Control'
  BY <1>17 DEF vars, storeVars, engineVars, historyVars, boundVars, HandlersHaveArgs,
    OneSwitch, TargetMatchesVault, Switching
<1>18. QED
  BY <1>1, <1>2, <1>3, <1>4, <1>5, <1>6, <1>7, <1>8, <1>9, <1>10, <1>11, <1>12, <1>13,
    <1>14, <1>15, <1>16, <1>17
  DEF Next, HandlerStep

-----------------------------------------------------------------------------

LEMMA HomesInit == Init => Homes /\ SwitchHasSaved
BY StandAssumption DEF Init, Homes, UnissuedIsNowhere, LoginsAreNew, TokenHasOneHome,
  HomeOf, InFile, SwitchHasSaved, Switching

\* A step that moves no token, issues none and starts no login keeps the homes.
LEMMA NothingMoves ==
  ASSUME Homes, UNCHANGED <<lastStandID, vault, vaultFile, issuer, calm>>,
         \A h \in Handlers : pc'[h] = "login" => pc[h] = "login" /\ login'[h] = login[h]
  PROVE  Homes'
BY DEF Homes, UnissuedIsNowhere, LoginsAreNew, TokenHasOneHome, HomeOf, InFile

\* Every step keeps each token at one home.
LEMMA HomesStep == Control /\ Homes /\ [Next]_vars => Homes'
<1> SUFFICES ASSUME Control, Homes, [Next]_vars PROVE Homes'
  OBVIOUS
<1> USE StandAssumption DEF Control, TypeOK, AnyCode, HandlersHaveArgs
<1>1. ASSUME NEW id \in Ids, NEW c \in AnyCode, Add(id, c)
      PROVE  Homes'
  BY <1>1, NothingMoves DEF Add, engineVars, historyVars
<1>2. ASSUME NEW h \in Handlers, NEW id \in Ids, Activate(h, id)
      PROVE  Homes'
  BY <1>2, NothingMoves DEF Activate, Goto, engineVars, historyVars
<1>3. ASSUME NEW h \in Handlers, NEW id \in Ids, Delete(h, id)
      PROVE  Homes'
  BY <1>3, NothingMoves DEF Delete, Goto, engineVars, historyVars
<1>4. ASSUME NEW h \in Handlers, NEW id \in Ids, NEW c \in AnyCode, Update(h, id, c)
      PROVE  Homes'
  BY <1>4, NothingMoves DEF Update, Goto, engineVars, historyVars
<1>5. ASSUME NEW h \in Handlers, AfterUpdate(h)
      PROVE  Homes'
  BY <1>5, NothingMoves DEF AfterUpdate, Goto, Rest, engineVars, historyVars
<1>6. ASSUME NEW h \in Handlers, RemoveVault(h)
      PROVE  Homes'
  BY <1>6 DEF RemoveVault, Rest, engineVars, historyVars,
    Homes, UnissuedIsNowhere, LoginsAreNew, TokenHasOneHome, HomeOf, InFile
<1>7. ASSUME NEW h \in Handlers, ApplyAgain(h)
      PROVE  Homes'
  BY <1>7, NothingMoves DEF ApplyAgain, Rest, historyVars
<1>8. ASSUME NEW h \in Handlers, SaveOutgoing(h)
      PROVE  Homes'
  BY <1>8 DEF SaveOutgoing, SaveOutgoingUnder, Unsettle,
    Homes, UnissuedIsNowhere, LoginsAreNew, TokenHasOneHome, HomeOf, InFile
<1>9. ASSUME NEW h \in Handlers, LoadIncoming(h)
      PROVE  Homes'
  BY <1>9 DEF LoadIncoming, Loaded, Unsettle, Rest,
    Homes, UnissuedIsNowhere, LoginsAreNew, TokenHasOneHome, HomeOf, InFile
<1>10. ASSUME NEW h \in Handlers, NEW t \in Tokens, LoginStart(h, t)
       PROVE  Homes'
  BY <1>10 DEF LoginStart, engineVars,
    Homes, UnissuedIsNowhere, LoginsAreNew, TokenHasOneHome, HomeOf, InFile
<1>11. ASSUME NEW h \in Handlers, AddToken(h)
       PROVE  Homes'
  BY <1>11 DEF AddToken, Rest, engineVars,
    Homes, UnissuedIsNowhere, LoginsAreNew, TokenHasOneHome, HomeOf, InFile
<1>12. ASSUME NEW h \in Handlers, Configure(h)
       PROVE  Homes'
  BY <1>12, NothingMoves DEF Configure, Goto, historyVars
<1>13. ASSUME NEW h \in Handlers, ReadActive(h)
       PROVE  Homes'
  BY <1>13, NothingMoves DEF ReadActive, Goto, engineVars, historyVars
<1>14. ASSUME NEW h \in Handlers, ConfigureStand(h)
       PROVE  Homes'
  BY <1>14, NothingMoves DEF ConfigureStand, Rest, engineVars, historyVars
<1>15. ASSUME NEW t \in Tokens, DeleteToken(t)
       PROVE  Homes'
  BY <1>15 DEF DeleteToken, Unsettle, engineVars,
    Homes, UnissuedIsNowhere, LoginsAreNew, TokenHasOneHome, HomeOf, InFile
<1>16. ASSUME Restart PROVE Homes'
  BY <1>16 DEF Restart, Loaded, storeVars, historyVars,
    Homes, UnissuedIsNowhere, LoginsAreNew, TokenHasOneHome, HomeOf, InFile
<1>17. ASSUME UNCHANGED vars PROVE Homes'
  BY <1>17, NothingMoves DEF vars, engineVars, historyVars
<1>18. QED
  BY <1>1, <1>2, <1>3, <1>4, <1>5, <1>6, <1>7, <1>8, <1>9, <1>10, <1>11, <1>12, <1>13,
    <1>14, <1>15, <1>16, <1>17
  DEF Next, HandlerStep

-----------------------------------------------------------------------------

\* A step outside applyStand that leaves vaults, files and settled tokens alone
\* and begins no switch keeps what a switch has saved.
LEMMA NothingSwitches ==
  ASSUME SwitchHasSaved, UNCHANGED <<lastStandID, vault, vaultFile, calm>>,
         Switching' => Switching
  PROVE  SwitchHasSaved'
BY DEF SwitchHasSaved, InFile

\* Every step keeps the file behind what a switch may drop.
LEMMA SavedStep == IInv /\ [Next]_vars => SwitchHasSaved'
<1> SUFFICES ASSUME IInv, [Next]_vars PROVE SwitchHasSaved'
  OBVIOUS
<1> USE StandAssumption DEF IInv, Control, TypeOK, AnyCode, HandlersHaveArgs
<1>1. ASSUME NEW id \in Ids, NEW c \in AnyCode, Add(id, c)
      PROVE  SwitchHasSaved'
  BY <1>1, NothingSwitches DEF Add, engineVars, historyVars, Switching
<1>2. ASSUME NEW h \in Handlers, NEW id \in Ids, Activate(h, id)
      PROVE  SwitchHasSaved'
  BY <1>2, NothingSwitches DEF Activate, Goto, engineVars, historyVars, Switching
<1>3. ASSUME NEW h \in Handlers, NEW id \in Ids, Delete(h, id)
      PROVE  SwitchHasSaved'
  BY <1>3, NothingSwitches DEF Delete, Goto, engineVars, historyVars, Switching
<1>4. ASSUME NEW h \in Handlers, NEW id \in Ids, NEW c \in AnyCode, Update(h, id, c)
      PROVE  SwitchHasSaved'
  BY <1>4, NothingSwitches DEF Update, Goto, engineVars, historyVars, Switching
<1>5. ASSUME NEW h \in Handlers, AfterUpdate(h)
      PROVE  SwitchHasSaved'
  BY <1>5, NothingSwitches DEF AfterUpdate, Goto, Rest, engineVars, historyVars, Switching
<1>6. ASSUME NEW h \in Handlers, RemoveVault(h)
      PROVE  SwitchHasSaved'
  BY <1>6 DEF RemoveVault, Rest, Switching, SwitchHasSaved
<1>7. ASSUME NEW h \in Handlers, ApplyAgain(h)
      PROVE  SwitchHasSaved'
  BY <1>7, NothingSwitches DEF ApplyAgain, Rest, historyVars, Switching
<1>8. ASSUME NEW h \in Handlers, SaveOutgoing(h)
      PROVE  SwitchHasSaved'
  BY <1>8 DEF SaveOutgoing, SaveOutgoingUnder, Unsettle, SwitchHasSaved, InFile
<1>9. ASSUME NEW h \in Handlers, LoadIncoming(h)
      PROVE  SwitchHasSaved'
  BY <1>9 DEF LoadIncoming, Rest, SwitchHasSaved, Switching, OneSwitch
<1>10. ASSUME NEW h \in Handlers, NEW t \in Tokens, LoginStart(h, t)
       PROVE  SwitchHasSaved'
  BY <1>10, NothingSwitches DEF LoginStart, engineVars, Switching
<1>11. ASSUME NEW h \in Handlers, AddToken(h)
       PROVE  SwitchHasSaved'
  <2>1. Switching' <=> Switching
    BY <1>11 DEF AddToken, Rest, Switching
  <2>2. calm[login[h]] = None
    BY <1>11 DEF AddToken, Homes, LoginsAreNew
  <2>3. QED
    BY <1>11, <2>1, <2>2 DEF AddToken, engineVars, SwitchHasSaved, InFile
<1>12. ASSUME NEW h \in Handlers, Configure(h)
       PROVE  SwitchHasSaved'
  BY <1>12, NothingSwitches DEF Configure, Goto, historyVars, Switching
<1>13. ASSUME NEW h \in Handlers, ReadActive(h)
       PROVE  SwitchHasSaved'
  BY <1>13, NothingSwitches DEF ReadActive, Goto, engineVars, historyVars, Switching
<1>14. ASSUME NEW h \in Handlers, ConfigureStand(h)
       PROVE  SwitchHasSaved'
  BY <1>14, NothingSwitches DEF ConfigureStand, Rest, engineVars, historyVars, Switching
<1>15. ASSUME NEW t \in Tokens, DeleteToken(t)
       PROVE  SwitchHasSaved'
  BY <1>15 DEF DeleteToken, Unsettle, engineVars, SwitchHasSaved, InFile, Switching
<1>16. ASSUME Restart PROVE SwitchHasSaved'
  BY <1>16 DEF Restart, SwitchHasSaved, Switching
<1>17. ASSUME UNCHANGED vars PROVE SwitchHasSaved'
  BY <1>17, NothingSwitches DEF vars, engineVars, historyVars, Switching
<1>18. QED
  BY <1>1, <1>2, <1>3, <1>4, <1>5, <1>6, <1>7, <1>8, <1>9, <1>10, <1>11, <1>12, <1>13,
    <1>14, <1>15, <1>16, <1>17
  DEF Next, HandlerStep

LEMMA Inductive == Spec => []IInv
<1>1. Init => IInv
  BY ControlInit, HomesInit DEF IInv
<1>2. IInv /\ [Next]_vars => IInv'
  BY ControlStep, HomesStep, SavedStep DEF IInv
<1>3. QED
  BY <1>1, <1>2, PTL DEF Spec

-----------------------------------------------------------------------------
(* What the runs check on two stands, for any number of them.              *)

\* The model of the stands is type correct.
THEOREM TypeCorrect == Spec => []TypeOK
<1>1. IInv => TypeOK
  BY DEF IInv, Control
<1>2. QED
  BY <1>1, Inductive, PTL

\* However switches, logins, deletions and restarts overlap, outside a switch
\* the engine's URL and its vault belong to one stand (applyStand).
THEOREM EngineMatchesVault == Spec => []TargetMatchesVault
<1>1. IInv => TargetMatchesVault
  BY DEF IInv, Control
<1>2. QED
  BY <1>1, Inductive, PTL

\* Switching moves vaults and never copies a token to another stand's.
THEOREM TokensAreMoved == Spec => []TokenHasOneHome
<1>1. IInv => TokenHasOneHome
  BY DEF IInv, Homes
<1>2. QED
  BY <1>1, Inductive, PTL

\* A step that leaves the vaults alone keeps every token where it is.
LEMMA NothingLost ==
  ASSUME UNCHANGED <<lastStandID, vault, vaultFile>>
  PROVE  KeepsSettledTokens
BY DEF KeepsSettledTokens, KeptBy, InFile

\* Whoever switches, a settled token stays in memory or in its stand's file.
LEMMA StepKeepsSettledTokens == IInv /\ [Next]_vars => [KeepsSettledTokens]_vars
<1> SUFFICES ASSUME IInv, Next PROVE KeepsSettledTokens
  OBVIOUS
<1> USE StandAssumption DEF IInv, Control, TypeOK, AnyCode, HandlersHaveArgs
<1>1. ASSUME NEW id \in Ids, NEW c \in AnyCode, Add(id, c)
      PROVE  KeepsSettledTokens
  BY <1>1, NothingLost DEF Add, engineVars
<1>2. ASSUME NEW h \in Handlers, NEW id \in Ids, Activate(h, id)
      PROVE  KeepsSettledTokens
  BY <1>2, NothingLost DEF Activate, engineVars
<1>3. ASSUME NEW h \in Handlers, NEW id \in Ids, Delete(h, id)
      PROVE  KeepsSettledTokens
  BY <1>3, NothingLost DEF Delete, engineVars
<1>4. ASSUME NEW h \in Handlers, NEW id \in Ids, NEW c \in AnyCode, Update(h, id, c)
      PROVE  KeepsSettledTokens
  BY <1>4, NothingLost DEF Update, engineVars
<1>5. ASSUME NEW h \in Handlers, AfterUpdate(h)
      PROVE  KeepsSettledTokens
  BY <1>5, NothingLost DEF AfterUpdate, engineVars
<1>6. ASSUME NEW h \in Handlers, RemoveVault(h)
      PROVE  KeepsSettledTokens
  BY <1>6 DEF RemoveVault, engineVars, KeepsSettledTokens, KeptBy, InFile
<1>7. ASSUME NEW h \in Handlers, ApplyAgain(h)
      PROVE  KeepsSettledTokens
  BY <1>7, NothingLost DEF ApplyAgain
<1>8. ASSUME NEW h \in Handlers, SaveOutgoing(h)
      PROVE  KeepsSettledTokens
  BY <1>8 DEF SaveOutgoing, SaveOutgoingUnder, KeepsSettledTokens, KeptBy, InFile
<1>9. ASSUME NEW h \in Handlers, LoadIncoming(h)
      PROVE  KeepsSettledTokens
  <2>1. Switching
    BY <1>9 DEF LoadIncoming, Switching
  <2>2. QED
    BY <1>9, <2>1 DEF LoadIncoming, Loaded, Unsettle, SwitchHasSaved, KeepsSettledTokens,
      KeptBy, InFile
<1>10. ASSUME NEW h \in Handlers, NEW t \in Tokens, LoginStart(h, t)
       PROVE  KeepsSettledTokens
  BY <1>10, NothingLost DEF LoginStart, engineVars
<1>11. ASSUME NEW h \in Handlers, AddToken(h)
       PROVE  KeepsSettledTokens
  BY <1>11 DEF AddToken, engineVars, KeepsSettledTokens, KeptBy, InFile
<1>12. ASSUME NEW h \in Handlers, Configure(h)
       PROVE  KeepsSettledTokens
  BY <1>12, NothingLost DEF Configure
<1>13. ASSUME NEW h \in Handlers, ReadActive(h)
       PROVE  KeepsSettledTokens
  BY <1>13, NothingLost DEF ReadActive, engineVars
<1>14. ASSUME NEW h \in Handlers, ConfigureStand(h)
       PROVE  KeepsSettledTokens
  BY <1>14, NothingLost DEF ConfigureStand, engineVars
<1>15. ASSUME NEW t \in Tokens, DeleteToken(t)
       PROVE  KeepsSettledTokens
  BY <1>15 DEF DeleteToken, Unsettle, engineVars, KeepsSettledTokens, KeptBy, InFile
<1>16. ASSUME Restart PROVE KeepsSettledTokens
  BY <1>16 DEF Restart, KeepsSettledTokens
<1>17. QED
  BY <1>1, <1>2, <1>3, <1>4, <1>5, <1>6, <1>7, <1>8, <1>9, <1>10, <1>11, <1>12, <1>13,
    <1>14, <1>15, <1>16
  DEF Next, HandlerStep

\* Switching to and fro loses no settled token of any stand.
THEOREM SwitchingLosesNothing == Spec => TokensSurviveSwitching
BY Inductive, StepKeepsSettledTokens, PTL DEF Spec, TokensSurviveSwitching

=============================================================================
