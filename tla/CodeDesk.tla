------------------------------ MODULE CodeDesk ------------------------------
(***************************************************************************)
(* What the verification-code desk promises, free of its mechanism: each   *)
(* time a code is handed in it counts for at most one client login, of the *)
(* run it was handed in for, and only after it was handed in; and the same *)
(* code is handed in again only by somebody who got no answer.  A code may *)
(* get lost (overwritten in the one-slot buffer, or handed to a login      *)
(* whose timer has just fired); it never crosses runs.  InputBroker        *)
(* implements this specification.                                          *)
(***************************************************************************)
CONSTANTS Runs,    \* run IDs
          Logins,  \* CreateUniqueClient calls; a login also names the code sent to its phone
          RunOf,   \* the run a login belongs to
          HandIns, \* pairs <<c, n>>: code c handed in for the n-th time
          NoCode

VARIABLES handedIn,    \* what was handed in so far
          available,   \* per run, what was handed in and not yet entered or lost
          entered,     \* per login, the hand-in it went on with
          open,        \* logins that have not ended yet
          unanswered   \* codes somebody handed in and got no answer about

vars == <<handedIn, available, entered, open, unanswered>>

Init == /\ handedIn = {}
        /\ available = [r \in Runs |-> {}]
        /\ entered = [l \in Logins |-> NoCode]
        /\ open = Logins
        /\ unanswered = {}

\* A code arrives for its run; it may get lost at once (nobody waits any more)
\* and so may codes still unused there (it overwrites them).
HandIn(h) == /\ h \notin handedIn
             /\ \A g \in handedIn : g[1] = h[1] => h[1] \in unanswered
             /\ handedIn' = handedIn \cup {h}
             /\ \E kept \in SUBSET (available[RunOf[h[1]]] \cup {h}) :
                   available' = [available EXCEPT ![RunOf[h[1]]] = kept]
             /\ UNCHANGED <<entered, open, unanswered>>

\* Whoever hands in code c hears nothing.
NoAnswer(c) == /\ unanswered' = unanswered \cup {c}
               /\ UNCHANGED <<handedIn, available, entered, open>>

\* A login goes on with one of the unused codes of its run, which is then spent.
Enter(l) == /\ l \in open
            /\ open' = open \ {l}
            /\ \E h \in available[RunOf[l]] :
                  /\ entered' = [entered EXCEPT ![l] = h]
                  /\ available' = [available EXCEPT ![RunOf[l]] = @ \ {h}]
            /\ UNCHANGED <<handedIn, unanswered>>

\* A login gives up; a code on its way to it is lost.
Expire(l) == /\ l \in open
             /\ open' = open \ {l}
             /\ \E kept \in SUBSET available[RunOf[l]] :
                   available' = [available EXCEPT ![RunOf[l]] = kept]
             /\ UNCHANGED <<handedIn, entered, unanswered>>

Next == \/ \E h \in HandIns : HandIn(h)
        \/ \E l \in Logins : NoAnswer(l) \/ Enter(l) \/ Expire(l)

Spec == Init /\ [][Next]_vars

=============================================================================
