----------------------------- MODULE MockBackend -----------------------------
(***************************************************************************)
(* The embedded backend (testserver/mock_backend.go): orders, idempotency  *)
(* keys, and the handlers that change them, each under the backend's lock. *)
(* A handler is a function from an order to an answer: its status code and *)
(* the order as it is afterwards.  The courier's own status, which no      *)
(* handler reads, prices, addresses and dishes are left out; a request     *)
(* body is valid or not.  Logins change nothing that a handler reads.      *)
(***************************************************************************)
EXTENDS Naturals, Sequences

CONSTANTS OrderIds, Keys,
          Couriers, NoCourier,  \* courier IDs, and the empty one
          Empty,                \* the empty token; any other has a role
          None

VARIABLES orders,       \* per ID the order, or None
          idempotency   \* per key the ID of the order made under it, or None

backendVars == <<orders, idempotency>>

Statuses == {"new", "cooking", "cooked", "shipping", "complete", "cancelled"}
Final == {"complete", "cancelled"}

\* Which role an endpoint asks for, and whom the protocol takes it to act for.
RoleFor ==
  [create_order |-> "client", independent_order |-> "client", cancel |-> "client",
   give_order_to_courier |-> "admin", cancel_order |-> "admin",
   order_status |-> "rest", dishes |-> "rest",
   take_order |-> "courier", change_status |-> "courier"]

Actor == [client |-> "CLIENT", rest |-> "RESTAURANT", courier |-> "COURIER", admin |-> "ADMIN"]

Stages == {"NEW", "COURIER_ASSIGNED", "PREPARING", "READY_FOR_PICKUP", "PICKED_UP",
           "DELIVERED", "CANCELLED"}

\* The stage of the order protocol (order_sm.go) that a status stands for.
StageOf(order) ==
  CASE order.status = "new"       -> IF order.courier = NoCourier THEN "NEW" ELSE "COURIER_ASSIGNED"
    [] order.status = "cooking"   -> "PREPARING"
    [] order.status = "cooked"    -> "READY_FOR_PICKUP"
    [] order.status = "shipping"  -> "PICKED_UP"
    [] order.status = "complete"  -> "DELIVERED"
    [] order.status = "cancelled" -> "CANCELLED"

\* Two history variables: trail has the stages so far and who brought them about;
\* it ends when a user, not a suite, changes the stage, and the order is touched.
OrderType ==
  [kind : {"RESTAURANT", "INDEPENDENT"}, status : Statuses, courier : Couriers \cup {NoCourier},
   trail : Seq([stage : Stages, by : {"CLIENT", "RESTAURANT", "COURIER", "ADMIN"}]),
   touched : BOOLEAN]

BackendTypeOK ==
  /\ \A o \in OrderIds : orders[o] # None => orders[o] \in OrderType
  /\ idempotency \in [Keys -> OrderIds \cup {None}]

BackendInit ==
  /\ orders = [o \in OrderIds |-> None]
  /\ idempotency = [k \in Keys |-> None]

-----------------------------------------------------------------------------
(* Handlers.                                                               *)

Done(order) == [code |-> 200, order |-> order]
Refused(code, order) == [code |-> code, order |-> order]

ClientCancel(order) ==
  IF order.status # "new" THEN Refused(403, order)
  ELSE Done([order EXCEPT !.status = "cancelled"])

AdminAssignCourier(order, courier) ==
  IF order.status \in Final THEN Refused(400, order)
  ELSE Done([order EXCEPT !.courier = courier])

AdminCancelOrder(order) == Done([order EXCEPT !.status = "cancelled"])

RestOrderStatus(order, status) ==
  IF order.status \in Final THEN Refused(400, order)
  ELSE Done([order EXCEPT !.status = status])

CourierTakeOrder(order, courier) == Done([order EXCEPT !.courier = courier])

CourierChangeStatus_completes(order, status) ==
  IF order.status \in Final THEN Refused(400, order)
  ELSE IF status \in {"complete", "shipping"} THEN Done([order EXCEPT !.status = "complete"])
  ELSE Done(order)

CourierChangeStatus(order, status) ==
  IF order.status \in Final THEN Refused(400, order)
  ELSE IF status \in {"complete", "shipping"} THEN Done([order EXCEPT !.status = status])
  ELSE Done(order)

\* A call is [to, order, with, key]: the endpoint, the order it is about (for a
\* creation the fresh ID), its argument and its idempotency key.
Handler(call) ==
  LET order == orders[call.order] IN
  CASE call.to = "cancel"                -> ClientCancel(order)
    [] call.to = "give_order_to_courier" -> AdminAssignCourier(order, call.with)
    [] call.to = "cancel_order"          -> AdminCancelOrder(order)
    [] call.to = "order_status"          -> RestOrderStatus(order, call.with)
    [] call.to = "take_order"            -> CourierTakeOrder(order, call.with)
    [] call.to = "change_status"         -> CourierChangeStatus(order, call.with)

\* Any token will do for a client's endpoint.
AuthGuard(role, token) ==
  IF token = Empty THEN 401
  ELSE IF role # "client" /\ token.role # role THEN 403
  ELSE 200

Creates(call) == call.to \in {"create_order", "independent_order"}

AnsweredBefore_never(call) == FALSE
AnsweredBefore(call) == call.key # None /\ idempotency[call.key] # None

Code(call, token) ==
  LET guard == AuthGuard(RoleFor[call.to], token) IN
  CASE guard # 200               -> guard
    [] guard = 200 /\ Creates(call) ->
         IF ~AnsweredBefore(call) /\ call.with = "invalid" THEN 400 ELSE 200
    [] guard = 200 /\ call.to = "dishes" -> 200
    [] OTHER -> IF orders[call.order] = None THEN 404 ELSE Handler(call).code

\* The order that the answer to a creation shows.
Shown(call) == IF AnsweredBefore(call) THEN idempotency[call.key] ELSE call.order

CreateOrder(call) ==
  IF AnsweredBefore(call) THEN UNCHANGED backendVars
  ELSE /\ orders' = [orders EXCEPT ![call.order] =
            [kind |-> IF call.to = "create_order" THEN "RESTAURANT" ELSE "INDEPENDENT",
             status |-> "new", courier |-> NoCourier,
             trail |-> <<[stage |-> "NEW", by |-> "CLIENT"]>>, touched |-> FALSE]]
       /\ idempotency' = IF call.key = None THEN idempotency
                         ELSE [idempotency EXCEPT ![call.key] = call.order]

\* The order after a change, with the stage noted if it is a new one.
Noted(before, after, actor, manual) ==
  IF before.touched \/ StageOf(after) = StageOf(before) THEN after
  ELSE IF manual THEN [after EXCEPT !.touched = TRUE]
  ELSE [after EXCEPT !.trail = Append(@, [stage |-> StageOf(after), by |-> actor])]

\* What the backend does with a call; manual tells a user's from a suite's.
Process(call, token, manual) ==
  IF Code(call, token) # 200 \/ call.to = "dishes" THEN UNCHANGED backendVars
  ELSE IF Creates(call) THEN CreateOrder(call)
  ELSE /\ orders' = [orders EXCEPT ![call.order] =
            Noted(@, Handler(call).order, Actor[RoleFor[call.to]], manual)]
       /\ UNCHANGED idempotency

=============================================================================
