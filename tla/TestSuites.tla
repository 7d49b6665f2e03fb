----------------------------- MODULE TestSuites -----------------------------
(***************************************************************************)
(* The built-in suites (pkg/runner/runner.go), each as the checks it makes *)
(* in order.  A suite begins a check, makes its calls, and either records  *)
(* the check as failed and returns the error, or records it as passed and  *)
(* turns to the next: CheckResults has these steps, for every suite the    *)
(* same.  Which calls a check makes is left out.  The registry             *)
(* (pkg/registry/registry.go) lists the same checks in the same order.     *)
(***************************************************************************)
EXTENDS Sequences

FlowA == <<"setup", "create_order", "assign_courier", "cooking", "ready_for_pickup",
           "pickup", "delivered">>

FlowB == <<"setup", "create_parcel", "assign_courier", "pickup", "delivered">>

NegativeSM == <<"illegal_jump_new_delivered", "illegal_jump_preparing_delivered",
                "unauthorized_role_client", "unauthorized_role_restaurant">>

Cancellation == <<"cancel_at_new", "reject_during_cooking", "terminal_protection">>

SecurityRBAC == <<"no_token_401", "client_admin_403", "courier_rest_403">>

Idempotency == <<"same_key_same_order", "concurrent_isolation">>

CourierReassignment == <<"setup", "assign_courier_1", "reassign_courier_2">>

InputValidation == <<"reject_invalid_phone", "reject_empty_verification_code",
                     "reject_negative_price", "reject_missing_address">>

Catalogue ==
  [flow_a |-> FlowA, flow_b |-> FlowB, negative_sm |-> NegativeSM,
   cancellation |-> Cancellation, security_rbac |-> SecurityRBAC, idempotency |-> Idempotency,
   courier_reassignment |-> CourierReassignment, input_validation |-> InputValidation]

\* "all" runs the suites in this order.
AllSuites == <<"flow_a", "flow_b", "negative_sm", "cancellation", "security_rbac",
               "idempotency", "courier_reassignment", "input_validation">>
=============================================================================
