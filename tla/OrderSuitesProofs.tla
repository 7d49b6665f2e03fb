------------------------- MODULE OrderSuitesProofs -------------------------
(***************************************************************************)
(* What holds of the shared sessions for any number of overlapping suites, *)
(* lost calls and users' operations.                                       *)
(***************************************************************************)
EXTENDS OrderSuites, TLAPS

\* Pools and active profiles are functions on the roles, whatever their values.
Shape ==
  /\ pool = [r \in Roles |-> pool[r]] /\ active = [r \in Roles |-> active[r]]
  /\ emptied \in BOOLEAN

\* Only an empty session made active brings an empty profile into a pool; without
\* one a restored vault is the saved one, and its active profiles are there.
Pure == \A r \in Roles : Empty \in pool[r] => emptied

IInv == Shape /\ Pure /\ ProfilesAreUsable

\* Adding a profile touches one role, which keeps its active profile or has the new.
LEMMA AddAdds ==
  ASSUME Shape, NEW role, NEW t, NEW setActive \in BOOLEAN,
         AddToken(role, t, setActive), NEW r \in Roles
  PROVE  /\ r = role => /\ pool'[r] = pool[r] \cup {t}
                        /\ active'[r] = t \/ (active'[r] = active[r] /\ pool[r] # {})
         /\ r # role => pool'[r] = pool[r] /\ active'[r] = active[r]
  BY DEF Shape, AddToken

LEMMA AddShape ==
  ASSUME Shape, NEW role, NEW t, NEW setActive \in BOOLEAN,
         AddToken(role, t, setActive), emptied' \in BOOLEAN
  PROVE  Shape'
  BY DEF Shape, AddToken

\* Adding a profile and making it the active one keeps every role usable.
LEMMA AddKeeps ==
  ASSUME IInv, NEW role, NEW t, NEW setActive \in BOOLEAN,
         AddToken(role, t, setActive), emptied' \in BOOLEAN,
         emptied => emptied', t = Empty => emptied'
  PROVE  IInv'
  <1>1. Shape' BY AddShape DEF IInv
  <1>2. Pure'
    <2> SUFFICES ASSUME NEW r \in Roles, Empty \in pool'[r] PROVE emptied'
      BY DEF Pure
    <2>1. CASE r = role BY <2>1, AddAdds DEF IInv, Pure
    <2>2. CASE r # role BY <2>2, AddAdds DEF IInv, Pure
    <2>3. QED BY <2>1, <2>2
  <1>3. ProfilesAreUsable'
    <2> SUFFICES ASSUME NEW r \in Roles, pool'[r] # {}
                 PROVE  emptied' \/ active'[r] \in pool'[r]
      BY DEF ProfilesAreUsable
    <2>1. CASE r = role BY <2>1, AddAdds DEF IInv, ProfilesAreUsable
    <2>2. CASE r # role BY <2>2, AddAdds DEF IInv, ProfilesAreUsable
    <2>3. QED BY <2>1, <2>2
  <1>4. QED BY <1>1, <1>2, <1>3 DEF IInv

\* The token of a login is never the empty one.
LEMMA TokensAreNotEmpty ==
  ASSUME NEW role \in Roles, NEW owner \in Flows \cup {User}
  PROVE  TokenOf(role, owner) # Empty
  BY SuiteAssumption, SessionAssumption DEF TokenOf

\* A profile deleted while it is active is replaced by another, if there is one.
LEMMA DeleteKeeps ==
  ASSUME IInv, NEW role, NEW t, DeleteProfile(role, t), emptied' = emptied
  PROVE  IInv'
  BY DEF IInv, Shape, Pure, ProfilesAreUsable, DeleteProfile

LEMMA ActivateKeeps ==
  ASSUME IInv, NEW role, NEW t, SetActiveProfile(role, t), emptied' = emptied
  PROVE  IInv'
  BY DEF IInv, Shape, Pure, ProfilesAreUsable, SetActiveProfile

\* With no empty profile a switch and back restores what there was.
LEMMA SwitchKeeps ==
  ASSUME IInv, SwitchAndBack, emptied' = emptied
  PROVE  IInv'
  <1>1. Shape' BY DEF IInv, SwitchAndBack, Restore, Shape
  <1>2. Pure' BY DEF SwitchAndBack, Restore, Pure
  <1>3. ProfilesAreUsable'
    BY DEF IInv, Pure, ProfilesAreUsable, SwitchAndBack, Restore
  <1>4. QED BY <1>1, <1>2, <1>3 DEF IInv

LEMMA SameSessions ==
  ASSUME IInv, UNCHANGED sessionVars, emptied' = emptied
  PROVE  IInv'
  BY DEF IInv, Shape, Pure, ProfilesAreUsable, sessionVars

LEMMA NextKeeps == IInv /\ [Next]_vars => IInv'
  <1> SUFFICES ASSUME IInv, [Next]_vars PROVE IInv'
    OBVIOUS
  <1> USE DEF IInv
  <1>1. ASSUME NEW f \in Flows, NEW s \in Suites, Start(f, s) PROVE IInv'
    BY <1>1, SameSessions DEF Start, ghosts
  <1>2. ASSUME NEW f \in Flows, LogIn(f) PROVE IInv'
    <2> DEFINE role == AtStep(f).role
    <2>1. AddToken(role, TokenOf(role, f), TRUE) /\ emptied' = emptied
      BY <1>2 DEF LogIn, ghosts
    <2> HIDE DEF role
    <2>2. CASE role \in Roles
      <3>1. TokenOf(role, f) # Empty BY <2>2, TokensAreNotEmpty
      <3>2. QED BY <2>1, <3>1, AddKeeps DEF Shape
    <2>3. CASE role \notin Roles
      <3>1. UNCHANGED sessionVars BY <2>1, <2>3 DEF AddToken, Shape, sessionVars
      <3>2. QED BY <2>1, <3>1, SameSessions
    <2>4. QED BY <2>2, <2>3
  <1>3. ASSUME NEW f \in Flows, LogInLost(f) PROVE IInv'
    BY <1>3, SameSessions DEF LogInLost
  <1>4. ASSUME NEW f \in Flows, AdoptSession(f) PROVE IInv'
    <2>1. /\ AddToken("client", own[f], TRUE)
          /\ emptied' = (emptied \/ own[f] = Empty)
      BY <1>4 DEF AdoptSession
    <2>2. emptied' \in BOOLEAN /\ (emptied => emptied') /\ (own[f] = Empty => emptied')
      BY <2>1, Zenon DEF Shape
    <2>3. QED BY <2>1, <2>2, AddKeeps
  <1>5. ASSUME NEW f \in Flows, CallBackend(f) PROVE IInv'
    BY <1>5, SameSessions DEF CallBackend, ghosts
  <1>6. ASSUME NEW f \in Flows, CallLost(f) PROVE IInv'
    BY <1>6, SameSessions DEF CallLost
  <1>7. ASSUME NEW f \in Flows, NEW w \in 1..Workers, WorkerLogsIn(f, w) PROVE IInv'
    <2>1. "client" \in Roles BY DEF Roles
    <2>2. WorkersToken(f) # Empty BY <2>1, TokensAreNotEmpty DEF WorkersToken
    <2>3. AddToken("client", WorkersToken(f), TRUE) /\ emptied' = emptied
      BY <1>7 DEF WorkerLogsIn, ghosts
    <2>4. QED BY <2>2, <2>3, AddKeeps DEF Shape
  <1>8. ASSUME NEW f \in Flows, NEW w \in 1..Workers, WorkerOrders(f, w) \/ WorkerFails(f, w)
        PROVE  IInv'
    BY <1>8, SameSessions DEF WorkerOrders, WorkerFails, ghosts
  <1>9. ASSUME NEW f \in Flows, Join(f) PROVE IInv'
    BY <1>9, SameSessions DEF Join, ghosts
  <1>10. ASSUME NEW o \in OrderIds, ManualCall(o) PROVE IInv'
    BY <1>10, SameSessions DEF ManualCall
  <1>11. CASE ChangeSessions
    <2>1. ASSUME NEW role \in UserRoles, AddToken(role, Empty, TRUE), emptied' = TRUE
          PROVE  IInv'
      BY <2>1, AddKeeps
    <2>2. CASE SwitchAndBack /\ emptied' = emptied
      BY <2>2, SwitchKeeps
    <2>3. ASSUME NEW role \in UserRoles, NEW setActive \in BOOLEAN,
                 AddToken(role, TokenOf(role, User), setActive), emptied' = emptied
          PROVE  IInv'
      <3>1. TokenOf(role, User) # Empty BY TokensAreNotEmpty, SuiteAssumption
      <3>2. QED BY <2>3, <3>1, AddKeeps DEF Shape
    <2>4. ASSUME NEW role \in UserRoles, NEW t \in pool[role], emptied' = emptied,
                 SetActiveProfile(role, t) \/ DeleteProfile(role, t)
          PROVE  IInv'
      BY <2>4, ActivateKeeps, DeleteKeeps
    <2>5. QED BY <1>11, <2>1, <2>2, <2>3, <2>4 DEF ChangeSessions
  <1>12. CASE UNCHANGED vars
    BY <1>12, SameSessions DEF vars, ghosts
  <1>13. QED
    BY <1>1, <1>2, <1>3, <1>4, <1>5, <1>6, <1>7, <1>8, <1>9, <1>10, <1>11, <1>12
       DEF Next, FlowStep

\* However many suites share the sessions, whatever calls are lost and whatever users
\* do, a role with profiles has an active one, unless an empty session was adopted.
THEOREM SessionsStayUsable == Spec => []ProfilesAreUsable
  <1>1. Init => IInv
    BY DEF Init, SessionInit, IInv, Shape, Pure, ProfilesAreUsable
  <1>2. IInv => ProfilesAreUsable
    BY DEF IInv
  <1>3. QED BY <1>1, <1>2, NextKeeps, PTL DEF Spec

=============================================================================
