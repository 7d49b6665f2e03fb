---------------------------- MODULE OrderProtocol ----------------------------
(***************************************************************************)
(* The life of an order as the test platform understands it                *)
(* (pkg/statemachine/order_sm.go): which role may take it from which stage *)
(* to which.  Whatever the suites make a backend do to their orders has to *)
(* be a behaviour of this specification.                                   *)
(***************************************************************************)
EXTENDS Sequences, Naturals

CONSTANT Orders

VARIABLES kind,   \* RESTAURANT or INDEPENDENT, once the order is created
          trail   \* the stages it went through, each with the role that put it there

protocolVars == <<kind, trail>>

Kinds == {"RESTAURANT", "INDEPENDENT"}
Terminal == {"DELIVERED", "CANCELLED"}

\* Per stage the stages that may follow, and who may take the order there.
RestaurantTransitions ==
  [NEW              |-> [COURIER_ASSIGNED |-> {"ADMIN", "COURIER"},
                         PREPARING |-> {"RESTAURANT"},
                         CANCELLED |-> {"CLIENT", "RESTAURANT", "ADMIN"}],
   COURIER_ASSIGNED |-> [PREPARING |-> {"RESTAURANT"},
                         PICKED_UP |-> {"COURIER", "RESTAURANT"},
                         CANCELLED |-> {"RESTAURANT", "ADMIN"}],
   PREPARING        |-> [READY_FOR_PICKUP |-> {"RESTAURANT"},
                         COURIER_ASSIGNED |-> {"ADMIN"},
                         CANCELLED |-> {"RESTAURANT", "ADMIN"}],
   READY_FOR_PICKUP |-> [PICKED_UP |-> {"COURIER", "RESTAURANT"},
                         CANCELLED |-> {"RESTAURANT", "ADMIN"}],
   PICKED_UP        |-> [DELIVERED |-> {"COURIER", "RESTAURANT", "ADMIN"},
                         CANCELLED |-> {"ADMIN"}]]

IndependentTransitions ==
  [NEW              |-> [COURIER_ASSIGNED |-> {"ADMIN", "COURIER"},
                         CANCELLED |-> {"CLIENT", "ADMIN"}],
   COURIER_ASSIGNED |-> [PICKED_UP |-> {"COURIER", "ADMIN"},
                         CANCELLED |-> {"ADMIN"}],
   PICKED_UP        |-> [DELIVERED |-> {"COURIER", "ADMIN"},
                         CANCELLED |-> {"ADMIN"}]]

\* The stages that may follow; none after a terminal one.
Followers(k, from) ==
  CASE k = "RESTAURANT" /\ from \notin Terminal  -> RestaurantTransitions[from]
    [] k = "INDEPENDENT" /\ from \in DOMAIN IndependentTransitions -> IndependentTransitions[from]
    [] OTHER -> <<>>

ValidateTransition(k, from, to, actor) ==
  to \in DOMAIN Followers(k, from) /\ actor \in Followers(k, from)[to]

Stage(t) == t[Len(t)].stage

-----------------------------------------------------------------------------

Init ==
  /\ kind = [o \in Orders |-> "none"]
  /\ trail = [o \in Orders |-> <<>>]

\* A client places an order; that is outside the table of transitions.
Create(o, k) ==
  /\ kind[o] = "none"
  /\ kind' = [kind EXCEPT ![o] = k]
  /\ trail' = [trail EXCEPT ![o] = <<[stage |-> "NEW", by |-> "CLIENT"]>>]

\* One of the allowed transitions, by one of the roles allowed to make it.
Move(o) ==
  /\ kind[o] # "none"
  /\ LET next == Followers(kind[o], Stage(trail[o])) IN
     \E to \in DOMAIN next : \E actor \in next[to] :
       trail' = [trail EXCEPT ![o] = Append(@, [stage |-> to, by |-> actor])]
  /\ UNCHANGED kind

Next == \E o \in Orders : Move(o) \/ \E k \in Kinds : Create(o, k)

Spec == Init /\ [][Next]_protocolVars

=============================================================================
