------------------------------- MODULE Sessions -------------------------------
(***************************************************************************)
(* The session manager (pkg/client/session_manager.go): per role a pool of *)
(* profiles and the active one, whose token the API clients send.          *)
(*                                                                         *)
(* A profile stands for its token: that the same token may be in a pool    *)
(* twice, under two IDs, makes no difference to who a call is made as, as  *)
(* deleting one of two is then like deleting none.  Names, payloads and    *)
(* the IsActive flags, which follow the active pointer, are left out.      *)
(***************************************************************************)
CONSTANTS Tokens,   \* the tokens the backend issues
          Empty,    \* the empty token of a fixture that failed
          None

ASSUME SessionAssumption == None \notin Tokens \cup {Empty} /\ Empty \notin Tokens

VARIABLES pool,     \* per role its profiles
          active    \* per role the active profile

sessionVars == <<pool, active>>

Roles == {"client", "rest", "courier", "admin"}

SessionTypeOK ==
  /\ pool \in [Roles -> SUBSET (Tokens \cup {Empty})]
  /\ active \in [Roles -> Tokens \cup {Empty, None}]

SessionInit ==
  /\ pool = [r \in Roles |-> {}]
  /\ active = [r \in Roles |-> None]

\* The token a call of this role is made with: without one there is no
\* Authorization header.
SessionToken(role) == IF active[role] \in pool[role] THEN active[role] ELSE Empty

\* The first profile of a role becomes active, whatever was asked for.
AddToken(role, t, setActive) ==
  /\ pool' = [pool EXCEPT ![role] = @ \cup {t}]
  /\ active' = IF setActive \/ pool[role] = {} THEN [active EXCEPT ![role] = t] ELSE active

SetActiveProfile(role, t) ==
  /\ t \in pool[role]
  /\ active' = [active EXCEPT ![role] = t]
  /\ UNCHANGED pool

DeleteProfile_promotesNobody(role, t) ==
  /\ t \in pool[role]
  /\ pool' = [pool EXCEPT ![role] = @ \ {t}]
  /\ active' = IF active[role] = t THEN [active EXCEPT ![role] = None] ELSE active

\* Any other profile takes the place of a deleted active one.
DeleteProfile(role, t) ==
  LET others == pool[role] \ {t} IN
  /\ t \in pool[role]
  /\ pool' = [pool EXCEPT ![role] = others]
  /\ IF active[role] # t THEN UNCHANGED active
     ELSE \E u \in IF others = {} THEN {None} ELSE others :
            active' = [active EXCEPT ![role] = u]

\* Restore: profiles without a token are dropped, and pointers to them.
Restore(profiles, pointers) ==
  /\ pool' = [r \in Roles |-> profiles[r] \ {Empty}]
  /\ active' = [r \in Roles |-> IF pointers[r] \in pool'[r] THEN pointers[r] ELSE None]

\* A switch to another stand and back: Snapshot, then Restore of the copy.
SwitchAndBack == Restore(pool, active)

=============================================================================
