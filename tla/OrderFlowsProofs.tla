-------------------------- MODULE OrderFlowsProofs --------------------------
(***************************************************************************)
(* What becomes of the orders of any number of overlapping suites, with    *)
(* any number of lost calls and of users' acts.                            *)
(***************************************************************************)
EXTENDS OrderSuitesProofs, SequenceTheorems

-----------------------------------------------------------------------------
(* The scripts, step by step.                                              *)

\* The stages an order of a suite is to go through, in order.
Path(s, n) ==
  CASE s = "flow_a" /\ n = 1               -> FlowAPath
    [] s = "flow_b" /\ n = 1               -> FlowBPath
    [] s = "cancellation" /\ n = 1         -> <<"NEW", "CANCELLED">>
    [] s = "cancellation" /\ n = 2         -> <<"NEW", "PREPARING">>
    [] s = "idempotency" /\ n = 1          -> <<"NEW">>
    [] s = "courier_reassignment" /\ n = 1 -> <<"NEW", "COURIER_ASSIGNED">>
    [] OTHER                               -> <<>>

\* How many of them it has been through before each step, and in the end.
Reached(s, n, i) ==
  CASE s = "flow_a" /\ n = 1               -> <<0, 0, 0, 0, 0, 1, 2, 3, 4, 4, 5, 6>>[i]
    [] s = "flow_b" /\ n = 1               -> <<0, 0, 0, 0, 1, 2, 3, 4>>[i]
    [] s = "cancellation" /\ n = 1         -> <<0, 0, 0, 1, 2, 2, 2, 2, 2, 2, 2>>[i]
    [] s = "cancellation" /\ n = 2         -> <<0, 0, 0, 0, 0, 0, 0, 0, 1, 2, 2>>[i]
    [] s = "idempotency" /\ n = 1          -> <<0, 0, 0, 1, 1, 1>>[i]
    [] s = "courier_reassignment" /\ n = 1 -> <<0, 0, 0, 0, 0, 0, 1, 2, 2>>[i]
    [] OTHER                               -> 0

SameReached(s, n, i) == Reached(s, n, i + 1) = Reached(s, n, i)

KindOf(s, n) ==
  IF s = "flow_b" THEN "INDEPENDENT" ELSE "RESTAURANT"

\* A login of the role has gone before.
LoginBefore(s, i, role) ==
  \E j \in 1..(i - 1) : Scripts[s][j].do = "fixture" /\ Scripts[s][j].role = role

\* The call is made in the session of its role, after a login of that role.
Authorised(s, i) ==
  LET c == Scripts[s][i] IN
  /\ c.by = "session" \/ (c.by = "client" /\ RoleFor[c.to] = "client")
  /\ LoginBefore(s, i, RoleFor[c.to])

\* Calls that take an order from one stage to another.
Brings(to, with, from, stage) ==
  \/ /\ to = "give_order_to_courier" /\ with \in {1, 2}
     /\ from = "NEW" /\ stage = "COURIER_ASSIGNED"
  \/ /\ to = "order_status" /\ with = "cooking"
     /\ from \in {"NEW", "COURIER_ASSIGNED"} /\ stage = "PREPARING"
  \/ /\ to = "order_status" /\ with = "cooked"
     /\ from = "PREPARING" /\ stage = "READY_FOR_PICKUP"
  \/ /\ to = "change_status" /\ with = "shipping"
     /\ from \in {"READY_FOR_PICKUP", "COURIER_ASSIGNED"} /\ stage = "PICKED_UP"
  \/ /\ to = "change_status" /\ with = "complete" /\ from = "PICKED_UP" /\ stage = "DELIVERED"
  \/ to = "cancel" /\ from = "NEW" /\ stage = "CANCELLED"

\* The step makes its order.
Makes(s, i) ==
  LET c == Scripts[s][i] IN
  /\ c.to = (IF KindOf(s, c.n) = "RESTAURANT" THEN "create_order" ELSE "independent_order")
  /\ c.with = "valid" /\ c.accept = {200} /\ c.shows = c.n
  /\ c.key = TRUE <=> s = "idempotency" /\ i = 3
  /\ c.key => c.n = 1
  /\ s = "idempotency" /\ ~c.key => i > 3
  /\ Reached(s, c.n, i) = 0 /\ Reached(s, c.n, i + 1) = 1 /\ Path(s, c.n)[1] = "NEW"
  /\ s \in {"flow_a", "flow_b"} => c.stage = "NEW"
  /\ s \notin {"flow_a", "flow_b"} => c.stage = None
  /\ c.from = None /\ Authorised(s, i)

\* It takes its order to the next stage, as the order state machine allows.
Moves(s, i) ==
  LET c == Scripts[s][i]
      k == Reached(s, c.n, i)
      now == Path(s, c.n)[k]
      next == Path(s, c.n)[k + 1]
  IN /\ Brings(c.to, c.with, now, next)
     /\ Protocol!ValidateTransition(KindOf(s, c.n), now, next, Actor[RoleFor[c.to]])
     /\ c.accept = {200} /\ k \in 1..5 /\ Reached(s, c.n, i + 1) = k + 1
     /\ s \in {"flow_a", "flow_b"} => c.stage = next
     /\ c.stage = None \/ c.stage = next
     /\ c.from = None \/ (c.from = now /\ c.stage = next /\ KindOf(s, c.n) = "RESTAURANT")
     /\ Authorised(s, i)

\* It hands an order that has a courier to a courier.
Hands(s, i) ==
  LET c == Scripts[s][i]
      k == Reached(s, c.n, i)
  IN /\ c.stage = None /\ c.from = None /\ c.with \in {1, 2}
     /\ \/ c.to = "take_order" /\ c.accept = {200} \cup None200
        \/ c.to = "give_order_to_courier" /\ c.accept = {200}
     /\ k \in 1..4 /\ Path(s, c.n)[k] \in {"COURIER_ASSIGNED", "READY_FOR_PICKUP"}
     /\ SameReached(s, c.n, i) /\ Authorised(s, i)

\* It repeats the call that made the first order, under the same key.
Repeats(s, i) ==
  LET c == Scripts[s][i] IN
  /\ s = "idempotency" /\ i > 3 /\ c.key = TRUE /\ c.to = "create_order"
  /\ c.accept = {200} /\ c.shows = 1
  /\ c.stage = None /\ c.from = None /\ SameReached(s, c.n, i) /\ Authorised(s, i)

\* It is a cancellation that comes too late.
ComesLate(s, i) ==
  LET c == Scripts[s][i]
      k == Reached(s, c.n, i)
  IN /\ c.to = "cancel" /\ c.accept = {403} /\ k = 2 /\ Path(s, c.n)[k] = "PREPARING"
     /\ c.stage = None /\ c.from = None /\ SameReached(s, c.n, i) /\ Authorised(s, i)

\* It is an order that cannot be: nobody's, or an invalid one.
IsInvalid(s, i) ==
  LET c == Scripts[s][i] IN
  /\ c.to \in {"create_order", "independent_order"} /\ c.with = "invalid" /\ c.key = FALSE
  /\ (c.by = "nobody" /\ c.accept = None200) \/ (c.accept = {400} /\ Authorised(s, i))
  /\ c.stage = None /\ c.from = None /\ SameReached(s, c.n, i)

\* It is made by the wrong role: about an order that is not there, or about none.
IsForeign(s, i) ==
  LET c == Scripts[s][i] IN
  /\ \/ c.to = "give_order_to_courier" /\ c.accept = None200 /\ Reached(s, c.n, i) = 0
     \/ c.to = "dishes" /\ c.by = "courier" /\ c.accept = {0, 403}
  /\ c.stage = None /\ c.from = None /\ SameReached(s, c.n, i)

CallKnown(s, i) ==
  LET c == Scripts[s][i] IN
  /\ c.do = "call" /\ c.n \in 1..2 /\ c.key \in BOOLEAN /\ c.to \in DOMAIN RoleFor
  /\ c.by \in {"session", "nobody", "client", "courier"}
  /\ \A n \in 1..2 : n # c.n => SameReached(s, n, i)
  /\ s = "idempotency" /\ i = 3 => Makes(s, i)
  /\ \/ Makes(s, i) \/ Moves(s, i) \/ Hands(s, i) \/ Repeats(s, i)
     \/ ComesLate(s, i) \/ IsInvalid(s, i) \/ IsForeign(s, i)

FixtureKnown(s, i) ==
  LET c == Scripts[s][i] IN
  /\ c.do = "fixture" /\ c.role \in Roles /\ c.must \in BOOLEAN
  /\ s = "idempotency" => i # 3
  /\ \A n \in 1..2 : SameReached(s, n, i)
  /\ c.role = "courier" /\ c.must = FALSE =>
       s = "flow_b" /\ \A n \in 1..2 : Reached(s, n, i) = 0

AdoptKnown(s, i) ==
  /\ Scripts[s][i].do = "adopt"
  /\ s = "idempotency" => i # 3
  /\ \A n \in 1..2 : SameReached(s, n, i)

ParallelKnown(s, i) ==
  /\ Scripts[s][i].do = "parallel"
  /\ s = "idempotency" /\ i = 5
  /\ \A n \in 1..2 : SameReached(s, n, i)

\* What a step may be.
StepKnown(s, i) ==
  FixtureKnown(s, i) \/ AdoptKnown(s, i) \/ CallKnown(s, i) \/ ParallelKnown(s, i)

\* The steps of flow_a.
LEMMA FlowAEntries ==
  /\ Len(Scripts["flow_a"]) = 11 /\ DOMAIN Scripts["flow_a"] = 1..11
  /\ Scripts["flow_a"][1] = Fixture("client", TRUE)
  /\ Scripts["flow_a"][2] = Fixture("rest", TRUE)
  /\ Scripts["flow_a"][3] = Fixture("courier", TRUE)
  /\ Scripts["flow_a"][4] = Fixture("admin", FALSE)
  /\ Scripts["flow_a"][5] = Records(Create(1, "create_order"), None, "NEW")
  /\ Scripts["flow_a"][6] = Records(Call("give_order_to_courier", 1, 1, {200}), "NEW", "COURIER_ASSIGNED")
  /\ Scripts["flow_a"][7] = Records(Call("order_status", 1, "cooking", {200}), "COURIER_ASSIGNED", "PREPARING")
  /\ Scripts["flow_a"][8] = Records(Call("order_status", 1, "cooked", {200}), "PREPARING", "READY_FOR_PICKUP")
  /\ Scripts["flow_a"][9] = Call("take_order", 1, 1, {200} \cup None200)
  /\ Scripts["flow_a"][10] = Records(Call("change_status", 1, "shipping", {200}), "READY_FOR_PICKUP", "PICKED_UP")
  /\ Scripts["flow_a"][11] = Records(Call("change_status", 1, "complete", {200}), "PICKED_UP", "DELIVERED")
BY DEF Scripts, FlowA

LEMMA FlowAKnown == \A i \in 1..11 : StepKnown("flow_a", i)
<1>1. /\ \A i : Reached("flow_a", 1, i) = <<0, 0, 0, 0, 0, 1, 2, 3, 4, 4, 5, 6>>[i]
      /\ \A i : Reached("flow_a", 2, i) = 0
  BY DEF Reached
<1>2. Path("flow_a", 1) = FlowAPath /\ KindOf("flow_a", 1) = "RESTAURANT"
  BY DEF Path, KindOf
<1>3. StepKnown("flow_a", 1)
  BY <1>1, <1>2, FlowAEntries DEF StepKnown, FixtureKnown, SameReached, Fixture, Roles
<1>4. StepKnown("flow_a", 2)
  BY <1>1, <1>2, FlowAEntries DEF StepKnown, FixtureKnown, SameReached, Fixture, Roles
<1>5. StepKnown("flow_a", 3)
  BY <1>1, <1>2, FlowAEntries DEF StepKnown, FixtureKnown, SameReached, Fixture, Roles
<1>6. StepKnown("flow_a", 4)
  BY <1>1, <1>2, FlowAEntries DEF StepKnown, FixtureKnown, SameReached, Fixture, Roles
<1>7. StepKnown("flow_a", 5)
  <2>1. Scripts["flow_a"][5] = Records(Create(1, "create_order"), None, "NEW")
    BY FlowAEntries
  <2>2. Authorised("flow_a", 5)
    <3>1. Scripts["flow_a"][1] = Fixture("client", TRUE) /\ 1 \in 1..(5 - 1)
      BY FlowAEntries
    <3>2. QED
      BY <2>1, <3>1 DEF Authorised, LoginBefore, Fixture, RoleFor, Create, Records, Call
  <2>3. QED
    BY <1>1, <1>2, <2>1, <2>2 DEF StepKnown, CallKnown, SameReached, Create, Records,
    Call, RoleFor, Makes, FlowAPath
<1>8. StepKnown("flow_a", 6)
  <2>1. Scripts["flow_a"][6] = Records(Call("give_order_to_courier", 1, 1, {200}), "NEW", "COURIER_ASSIGNED")
    BY FlowAEntries
  <2>2. Authorised("flow_a", 6)
    <3>1. Scripts["flow_a"][4] = Fixture("admin", FALSE) /\ 4 \in 1..(6 - 1)
      BY FlowAEntries
    <3>2. QED
      BY <2>1, <3>1 DEF Authorised, LoginBefore, Fixture, RoleFor, Records, Call
  <2>3. Protocol!ValidateTransition("RESTAURANT", "NEW", "COURIER_ASSIGNED", "ADMIN")
    BY DEF Protocol!ValidateTransition, Protocol!Followers,
    Protocol!RestaurantTransitions, Protocol!Terminal
  <2>4. 1 \in 1..2 /\ Reached("flow_a", 1, 6) = 1 /\ Reached("flow_a", 1, 6 + 1) = 2
    BY <1>1
  <2>5. QED
    BY <1>1, <1>2, <2>1, <2>2, <2>3, <2>4 DEF StepKnown, CallKnown, SameReached,
    Records, Call, RoleFor, Moves, Brings, Actor, FlowAPath
<1>9. StepKnown("flow_a", 7)
  <2>1. Scripts["flow_a"][7] = Records(Call("order_status", 1, "cooking", {200}), "COURIER_ASSIGNED", "PREPARING")
    BY FlowAEntries
  <2>2. Authorised("flow_a", 7)
    <3>1. Scripts["flow_a"][2] = Fixture("rest", TRUE) /\ 2 \in 1..(7 - 1)
      BY FlowAEntries
    <3>2. QED
      BY <2>1, <3>1 DEF Authorised, LoginBefore, Fixture, RoleFor, Records, Call
  <2>3. Protocol!ValidateTransition("RESTAURANT", "COURIER_ASSIGNED", "PREPARING", "RESTAURANT")
    BY DEF Protocol!ValidateTransition, Protocol!Followers,
    Protocol!RestaurantTransitions, Protocol!Terminal
  <2>4. 1 \in 1..2 /\ Reached("flow_a", 1, 7) = 2 /\ Reached("flow_a", 1, 7 + 1) = 3
    BY <1>1
  <2>5. QED
    BY <1>1, <1>2, <2>1, <2>2, <2>3, <2>4 DEF StepKnown, CallKnown, SameReached,
    Records, Call, RoleFor, Moves, Brings, Actor, FlowAPath
<1>10. StepKnown("flow_a", 8)
  <2>1. Scripts["flow_a"][8] = Records(Call("order_status", 1, "cooked", {200}), "PREPARING", "READY_FOR_PICKUP")
    BY FlowAEntries
  <2>2. Authorised("flow_a", 8)
    <3>1. Scripts["flow_a"][2] = Fixture("rest", TRUE) /\ 2 \in 1..(8 - 1)
      BY FlowAEntries
    <3>2. QED
      BY <2>1, <3>1 DEF Authorised, LoginBefore, Fixture, RoleFor, Records, Call
  <2>3. Protocol!ValidateTransition("RESTAURANT", "PREPARING", "READY_FOR_PICKUP", "RESTAURANT")
    BY DEF Protocol!ValidateTransition, Protocol!Followers,
    Protocol!RestaurantTransitions, Protocol!Terminal
  <2>4. 1 \in 1..2 /\ Reached("flow_a", 1, 8) = 3 /\ Reached("flow_a", 1, 8 + 1) = 4
    BY <1>1
  <2>5. QED
    BY <1>1, <1>2, <2>1, <2>2, <2>3, <2>4 DEF StepKnown, CallKnown, SameReached,
    Records, Call, RoleFor, Moves, Brings, Actor, FlowAPath
<1>11. StepKnown("flow_a", 9)
  <2>1. Scripts["flow_a"][9] = Call("take_order", 1, 1, {200} \cup None200)
    BY FlowAEntries
  <2>2. Authorised("flow_a", 9)
    <3>1. Scripts["flow_a"][3] = Fixture("courier", TRUE) /\ 3 \in 1..(9 - 1)
      BY FlowAEntries
    <3>2. QED
      BY <2>1, <3>1 DEF Authorised, LoginBefore, Fixture, RoleFor, Call
  <2>3. QED
    BY <1>1, <1>2, <2>1, <2>2 DEF StepKnown, CallKnown, SameReached, Call, RoleFor,
    Hands, None200, FlowAPath
<1>12. StepKnown("flow_a", 10)
  <2>1. Scripts["flow_a"][10] = Records(Call("change_status", 1, "shipping", {200}), "READY_FOR_PICKUP", "PICKED_UP")
    BY FlowAEntries
  <2>2. Authorised("flow_a", 10)
    <3>1. Scripts["flow_a"][3] = Fixture("courier", TRUE) /\ 3 \in 1..(10 - 1)
      BY FlowAEntries
    <3>2. QED
      BY <2>1, <3>1 DEF Authorised, LoginBefore, Fixture, RoleFor, Records, Call
  <2>3. Protocol!ValidateTransition("RESTAURANT", "READY_FOR_PICKUP", "PICKED_UP", "COURIER")
    BY DEF Protocol!ValidateTransition, Protocol!Followers,
    Protocol!RestaurantTransitions, Protocol!Terminal
  <2>4. 1 \in 1..2 /\ Reached("flow_a", 1, 10) = 4 /\ Reached("flow_a", 1, 10 + 1) = 5
    BY <1>1
  <2>5. QED
    BY <1>1, <1>2, <2>1, <2>2, <2>3, <2>4 DEF StepKnown, CallKnown, SameReached,
    Records, Call, RoleFor, Moves, Brings, Actor, FlowAPath
<1>13. StepKnown("flow_a", 11)
  <2>1. Scripts["flow_a"][11] = Records(Call("change_status", 1, "complete", {200}), "PICKED_UP", "DELIVERED")
    BY FlowAEntries
  <2>2. Authorised("flow_a", 11)
    <3>1. Scripts["flow_a"][3] = Fixture("courier", TRUE) /\ 3 \in 1..(11 - 1)
      BY FlowAEntries
    <3>2. QED
      BY <2>1, <3>1 DEF Authorised, LoginBefore, Fixture, RoleFor, Records, Call
  <2>3. Protocol!ValidateTransition("RESTAURANT", "PICKED_UP", "DELIVERED", "COURIER")
    BY DEF Protocol!ValidateTransition, Protocol!Followers,
    Protocol!RestaurantTransitions, Protocol!Terminal
  <2>4. 1 \in 1..2 /\ Reached("flow_a", 1, 11) = 5 /\ Reached("flow_a", 1, 11 + 1) = 6
    BY <1>1
  <2>5. QED
    BY <1>1, <1>2, <2>1, <2>2, <2>3, <2>4 DEF StepKnown, CallKnown, SameReached,
    Records, Call, RoleFor, Moves, Brings, Actor, FlowAPath
<1>14. QED
  BY <1>3, <1>4, <1>5, <1>6, <1>7, <1>8, <1>9, <1>10, <1>11, <1>12, <1>13

\* The steps of flow_b.
LEMMA FlowBEntries ==
  /\ Len(Scripts["flow_b"]) = 7 /\ DOMAIN Scripts["flow_b"] = 1..7
  /\ Scripts["flow_b"][1] = Fixture("client", FALSE)
  /\ Scripts["flow_b"][2] = Fixture("courier", FALSE)
  /\ Scripts["flow_b"][3] = Fixture("admin", FALSE)
  /\ Scripts["flow_b"][4] = Records(Create(1, "independent_order"), None, "NEW")
  /\ Scripts["flow_b"][5] = Records(Call("give_order_to_courier", 1, 1, {200}), None, "COURIER_ASSIGNED")
  /\ Scripts["flow_b"][6] = Records(Call("change_status", 1, "shipping", {200}), None, "PICKED_UP")
  /\ Scripts["flow_b"][7] = Records(Call("change_status", 1, "complete", {200}), None, "DELIVERED")
BY DEF Scripts, FlowB

LEMMA FlowBKnown == \A i \in 1..7 : StepKnown("flow_b", i)
<1>1. /\ \A i : Reached("flow_b", 1, i) = <<0, 0, 0, 0, 1, 2, 3, 4>>[i]
      /\ \A i : Reached("flow_b", 2, i) = 0
  BY DEF Reached
<1>2. Path("flow_b", 1) = FlowBPath /\ KindOf("flow_b", 1) = "INDEPENDENT"
  BY DEF Path, KindOf
<1>3. StepKnown("flow_b", 1)
  BY <1>1, <1>2, FlowBEntries DEF StepKnown, FixtureKnown, SameReached, Fixture, Roles
<1>4. StepKnown("flow_b", 2)
  BY <1>1, <1>2, FlowBEntries DEF StepKnown, FixtureKnown, SameReached, Fixture, Roles
<1>5. StepKnown("flow_b", 3)
  BY <1>1, <1>2, FlowBEntries DEF StepKnown, FixtureKnown, SameReached, Fixture, Roles
<1>6. StepKnown("flow_b", 4)
  <2>1. Scripts["flow_b"][4] = Records(Create(1, "independent_order"), None, "NEW")
    BY FlowBEntries
  <2>2. Authorised("flow_b", 4)
    <3>1. Scripts["flow_b"][1] = Fixture("client", FALSE) /\ 1 \in 1..(4 - 1)
      BY FlowBEntries
    <3>2. QED
      BY <2>1, <3>1 DEF Authorised, LoginBefore, Fixture, RoleFor, Create, Records, Call
  <2>3. QED
    BY <1>1, <1>2, <2>1, <2>2 DEF StepKnown, CallKnown, SameReached, Create, Records,
    Call, RoleFor, Makes, FlowBPath
<1>7. StepKnown("flow_b", 5)
  <2>1. Scripts["flow_b"][5] = Records(Call("give_order_to_courier", 1, 1, {200}), None, "COURIER_ASSIGNED")
    BY FlowBEntries
  <2>2. Authorised("flow_b", 5)
    <3>1. Scripts["flow_b"][3] = Fixture("admin", FALSE) /\ 3 \in 1..(5 - 1)
      BY FlowBEntries
    <3>2. QED
      BY <2>1, <3>1 DEF Authorised, LoginBefore, Fixture, RoleFor, Records, Call
  <2>3. Protocol!ValidateTransition("INDEPENDENT", "NEW", "COURIER_ASSIGNED", "ADMIN")
    BY DEF Protocol!ValidateTransition, Protocol!Followers,
    Protocol!IndependentTransitions, Protocol!Terminal
  <2>4. 1 \in 1..2 /\ Reached("flow_b", 1, 5) = 1 /\ Reached("flow_b", 1, 5 + 1) = 2
    BY <1>1
  <2>5. QED
    BY <1>1, <1>2, <2>1, <2>2, <2>3, <2>4 DEF StepKnown, CallKnown, SameReached,
    Records, Call, RoleFor, Moves, Brings, Actor, FlowBPath
<1>8. StepKnown("flow_b", 6)
  <2>1. Scripts["flow_b"][6] = Records(Call("change_status", 1, "shipping", {200}), None, "PICKED_UP")
    BY FlowBEntries
  <2>2. Authorised("flow_b", 6)
    <3>1. Scripts["flow_b"][2] = Fixture("courier", FALSE) /\ 2 \in 1..(6 - 1)
      BY FlowBEntries
    <3>2. QED
      BY <2>1, <3>1 DEF Authorised, LoginBefore, Fixture, RoleFor, Records, Call
  <2>3. Protocol!ValidateTransition("INDEPENDENT", "COURIER_ASSIGNED", "PICKED_UP", "COURIER")
    BY DEF Protocol!ValidateTransition, Protocol!Followers,
    Protocol!IndependentTransitions, Protocol!Terminal
  <2>4. 1 \in 1..2 /\ Reached("flow_b", 1, 6) = 2 /\ Reached("flow_b", 1, 6 + 1) = 3
    BY <1>1
  <2>5. QED
    BY <1>1, <1>2, <2>1, <2>2, <2>3, <2>4 DEF StepKnown, CallKnown, SameReached,
    Records, Call, RoleFor, Moves, Brings, Actor, FlowBPath
<1>9. StepKnown("flow_b", 7)
  <2>1. Scripts["flow_b"][7] = Records(Call("change_status", 1, "complete", {200}), None, "DELIVERED")
    BY FlowBEntries
  <2>2. Authorised("flow_b", 7)
    <3>1. Scripts["flow_b"][2] = Fixture("courier", FALSE) /\ 2 \in 1..(7 - 1)
      BY FlowBEntries
    <3>2. QED
      BY <2>1, <3>1 DEF Authorised, LoginBefore, Fixture, RoleFor, Records, Call
  <2>3. Protocol!ValidateTransition("INDEPENDENT", "PICKED_UP", "DELIVERED", "COURIER")
    BY DEF Protocol!ValidateTransition, Protocol!Followers,
    Protocol!IndependentTransitions, Protocol!Terminal
  <2>4. 1 \in 1..2 /\ Reached("flow_b", 1, 7) = 3 /\ Reached("flow_b", 1, 7 + 1) = 4
    BY <1>1
  <2>5. QED
    BY <1>1, <1>2, <2>1, <2>2, <2>3, <2>4 DEF StepKnown, CallKnown, SameReached,
    Records, Call, RoleFor, Moves, Brings, Actor, FlowBPath
<1>10. QED
  BY <1>3, <1>4, <1>5, <1>6, <1>7, <1>8, <1>9

\* The steps of cancellation.
LEMMA CancellationEntries ==
  /\ Len(Scripts["cancellation"]) = 10 /\ DOMAIN Scripts["cancellation"] = 1..10
  /\ Scripts["cancellation"][1] = Fixture("client", FALSE)
  /\ Scripts["cancellation"][2] = Adopt
  /\ Scripts["cancellation"][3] = Create(1, "create_order")
  /\ Scripts["cancellation"][4] = Call("cancel", 1, None, {200})
  /\ Scripts["cancellation"][5] = Fixture("client", TRUE)
  /\ Scripts["cancellation"][6] = Adopt
  /\ Scripts["cancellation"][7] = Fixture("rest", TRUE)
  /\ Scripts["cancellation"][8] = Create(2, "create_order")
  /\ Scripts["cancellation"][9] = Records(Call("order_status", 2, "cooking", {200}), None, "PREPARING")
  /\ Scripts["cancellation"][10] = Call("cancel", 2, None, {403})
BY DEF Scripts, Cancellation

LEMMA CancellationKnown == \A i \in 1..10 : StepKnown("cancellation", i)
<1>1. /\ \A i : Reached("cancellation", 1, i) = <<0, 0, 0, 1, 2, 2, 2, 2, 2, 2, 2>>[i]
      /\ \A i : Reached("cancellation", 2, i) = <<0, 0, 0, 0, 0, 0, 0, 0, 1, 2, 2>>[i]
  BY DEF Reached
<1>2. /\ Path("cancellation", 1) = <<"NEW", "CANCELLED">> /\ KindOf("cancellation", 1) = "RESTAURANT"
      /\ Path("cancellation", 2) = <<"NEW", "PREPARING">> /\ KindOf("cancellation", 2) = "RESTAURANT"
  BY DEF Path, KindOf
<1>3. StepKnown("cancellation", 1)
  BY <1>1, <1>2, CancellationEntries DEF StepKnown, FixtureKnown, SameReached, Fixture,
  Roles
<1>4. StepKnown("cancellation", 2)
  BY <1>1, <1>2, CancellationEntries DEF StepKnown, AdoptKnown, SameReached, Adopt
<1>5. StepKnown("cancellation", 3)
  <2>1. Scripts["cancellation"][3] = Create(1, "create_order")
    BY CancellationEntries
  <2>2. Authorised("cancellation", 3)
    <3>1. Scripts["cancellation"][1] = Fixture("client", FALSE) /\ 1 \in 1..(3 - 1)
      BY CancellationEntries
    <3>2. QED
      BY <2>1, <3>1 DEF Authorised, LoginBefore, Fixture, RoleFor, Create, Call
  <2>3. QED
    BY <1>1, <1>2, <2>1, <2>2 DEF StepKnown, CallKnown, SameReached, Create, Call,
    RoleFor, Makes
<1>6. StepKnown("cancellation", 4)
  <2>1. Scripts["cancellation"][4] = Call("cancel", 1, None, {200})
    BY CancellationEntries
  <2>2. Authorised("cancellation", 4)
    <3>1. Scripts["cancellation"][1] = Fixture("client", FALSE) /\ 1 \in 1..(4 - 1)
      BY CancellationEntries
    <3>2. QED
      BY <2>1, <3>1 DEF Authorised, LoginBefore, Fixture, RoleFor, Call
  <2>3. Protocol!ValidateTransition("RESTAURANT", "NEW", "CANCELLED", "CLIENT")
    BY DEF Protocol!ValidateTransition, Protocol!Followers,
    Protocol!RestaurantTransitions, Protocol!Terminal
  <2>4. 1 \in 1..2 /\ Reached("cancellation", 1, 4) = 1 /\ Reached("cancellation", 1, 4 + 1) = 2
    BY <1>1
  <2>5. QED
    BY <1>1, <1>2, <2>1, <2>2, <2>3, <2>4 DEF StepKnown, CallKnown, SameReached, Call,
    RoleFor, Moves, Brings, Actor
<1>7. StepKnown("cancellation", 5)
  BY <1>1, <1>2, CancellationEntries DEF StepKnown, FixtureKnown, SameReached, Fixture,
  Roles
<1>8. StepKnown("cancellation", 6)
  BY <1>1, <1>2, CancellationEntries DEF StepKnown, AdoptKnown, SameReached, Adopt
<1>9. StepKnown("cancellation", 7)
  BY <1>1, <1>2, CancellationEntries DEF StepKnown, FixtureKnown, SameReached, Fixture,
  Roles
<1>10. StepKnown("cancellation", 8)
  <2>1. Scripts["cancellation"][8] = Create(2, "create_order")
    BY CancellationEntries
  <2>2. Authorised("cancellation", 8)
    <3>1. Scripts["cancellation"][1] = Fixture("client", FALSE) /\ 1 \in 1..(8 - 1)
      BY CancellationEntries
    <3>2. QED
      BY <2>1, <3>1 DEF Authorised, LoginBefore, Fixture, RoleFor, Create, Call
  <2>3. QED
    BY <1>1, <1>2, <2>1, <2>2 DEF StepKnown, CallKnown, SameReached, Create, Call,
    RoleFor, Makes
<1>11. StepKnown("cancellation", 9)
  <2>1. Scripts["cancellation"][9] = Records(Call("order_status", 2, "cooking", {200}), None, "PREPARING")
    BY CancellationEntries
  <2>2. Authorised("cancellation", 9)
    <3>1. Scripts["cancellation"][7] = Fixture("rest", TRUE) /\ 7 \in 1..(9 - 1)
      BY CancellationEntries
    <3>2. QED
      BY <2>1, <3>1 DEF Authorised, LoginBefore, Fixture, RoleFor, Records, Call
  <2>3. Protocol!ValidateTransition("RESTAURANT", "NEW", "PREPARING", "RESTAURANT")
    BY DEF Protocol!ValidateTransition, Protocol!Followers,
    Protocol!RestaurantTransitions, Protocol!Terminal
  <2>4. 2 \in 1..2 /\ Reached("cancellation", 2, 9) = 1 /\ Reached("cancellation", 2, 9 + 1) = 2
    BY <1>1
  <2>5. QED
    BY <1>1, <1>2, <2>1, <2>2, <2>3, <2>4 DEF StepKnown, CallKnown, SameReached,
    Records, Call, RoleFor, Moves, Brings, Actor
<1>12. StepKnown("cancellation", 10)
  <2>1. Scripts["cancellation"][10] = Call("cancel", 2, None, {403})
    BY CancellationEntries
  <2>2. Authorised("cancellation", 10)
    <3>1. Scripts["cancellation"][1] = Fixture("client", FALSE) /\ 1 \in 1..(10 - 1)
      BY CancellationEntries
    <3>2. QED
      BY <2>1, <3>1 DEF Authorised, LoginBefore, Fixture, RoleFor, Call
  <2>3. QED
    BY <1>1, <1>2, <2>1, <2>2 DEF StepKnown, CallKnown, SameReached, Call, RoleFor,
    ComesLate
<1>13. QED
  BY <1>3, <1>4, <1>5, <1>6, <1>7, <1>8, <1>9, <1>10, <1>11, <1>12

\* The steps of security_rbac.
LEMMA SecurityRBACEntries ==
  /\ Len(Scripts["security_rbac"]) = 5 /\ DOMAIN Scripts["security_rbac"] = 1..5
  /\ Scripts["security_rbac"][1] = By(Call("create_order", 1, "invalid", None200), "nobody")
  /\ Scripts["security_rbac"][2] = Fixture("client", FALSE)
  /\ Scripts["security_rbac"][3] = By(Call("give_order_to_courier", 1, 1, None200), "client")
  /\ Scripts["security_rbac"][4] = Fixture("courier", TRUE)
  /\ Scripts["security_rbac"][5] = By(Call("dishes", 1, None, {0, 403}), "courier")
BY DEF Scripts, SecurityRBAC

LEMMA SecurityRBACKnown == \A i \in 1..5 : StepKnown("security_rbac", i)
<1>1. /\ \A i : Reached("security_rbac", 1, i) = 0
      /\ \A i : Reached("security_rbac", 2, i) = 0
  BY DEF Reached
<1>2. StepKnown("security_rbac", 1)
  <2>1. Scripts["security_rbac"][1] = By(Call("create_order", 1, "invalid", None200), "nobody")
    BY SecurityRBACEntries
  <2>2. QED
    BY <1>1, <2>1 DEF StepKnown, CallKnown, SameReached, By, Call, RoleFor, IsInvalid,
    None200
<1>3. StepKnown("security_rbac", 2)
  BY <1>1, SecurityRBACEntries DEF StepKnown, FixtureKnown, SameReached, Fixture, Roles
<1>4. StepKnown("security_rbac", 3)
  <2>1. Scripts["security_rbac"][3] = By(Call("give_order_to_courier", 1, 1, None200), "client")
    BY SecurityRBACEntries
  <2>2. QED
    BY <1>1, <2>1 DEF StepKnown, CallKnown, SameReached, By, Call, RoleFor, IsForeign,
    None200
<1>5. StepKnown("security_rbac", 4)
  BY <1>1, SecurityRBACEntries DEF StepKnown, FixtureKnown, SameReached, Fixture, Roles
<1>6. StepKnown("security_rbac", 5)
  <2>1. Scripts["security_rbac"][5] = By(Call("dishes", 1, None, {0, 403}), "courier")
    BY SecurityRBACEntries
  <2>2. QED
    BY <1>1, <2>1 DEF StepKnown, CallKnown, SameReached, By, Call, RoleFor, IsForeign
<1>7. QED
  BY <1>2, <1>3, <1>4, <1>5, <1>6

\* The steps of idempotency.
LEMMA IdempotencyEntries ==
  /\ Len(Scripts["idempotency"]) = 5 /\ DOMAIN Scripts["idempotency"] = 1..5
  /\ Scripts["idempotency"][1] = Fixture("client", FALSE)
  /\ Scripts["idempotency"][2] = Adopt
  /\ Scripts["idempotency"][3] = Keyed(Create(1, "create_order"), 1)
  /\ Scripts["idempotency"][4] = Keyed(Create(2, "create_order"), 1)
  /\ Scripts["idempotency"][5] = InParallel
BY DEF Scripts, Idempotency

LEMMA IdempotencyKnown == \A i \in 1..5 : StepKnown("idempotency", i)
<1>1. /\ \A i : Reached("idempotency", 1, i) = <<0, 0, 0, 1, 1, 1>>[i]
      /\ \A i : Reached("idempotency", 2, i) = 0
  BY DEF Reached
<1>2. Path("idempotency", 1) = <<"NEW">> /\ KindOf("idempotency", 1) = "RESTAURANT"
  BY DEF Path, KindOf
<1>3. StepKnown("idempotency", 1)
  BY <1>1, <1>2, IdempotencyEntries DEF StepKnown, FixtureKnown, SameReached, Fixture,
  Roles
<1>4. StepKnown("idempotency", 2)
  BY <1>1, <1>2, IdempotencyEntries DEF StepKnown, AdoptKnown, SameReached, Adopt
<1>5. StepKnown("idempotency", 3)
  <2>1. Scripts["idempotency"][3] = Keyed(Create(1, "create_order"), 1)
    BY IdempotencyEntries
  <2>2. Authorised("idempotency", 3)
    <3>1. Scripts["idempotency"][1] = Fixture("client", FALSE) /\ 1 \in 1..(3 - 1)
      BY IdempotencyEntries
    <3>2. QED
      BY <2>1, <3>1 DEF Authorised, LoginBefore, Fixture, RoleFor, Create, Keyed, Call
  <2>3. QED
    BY <1>1, <1>2, <2>1, <2>2 DEF StepKnown, CallKnown, SameReached, Create, Keyed,
    Call, RoleFor, Makes
<1>6. StepKnown("idempotency", 4)
  <2>1. Scripts["idempotency"][4] = Keyed(Create(2, "create_order"), 1)
    BY IdempotencyEntries
  <2>2. Authorised("idempotency", 4)
    <3>1. Scripts["idempotency"][1] = Fixture("client", FALSE) /\ 1 \in 1..(4 - 1)
      BY IdempotencyEntries
    <3>2. QED
      BY <2>1, <3>1 DEF Authorised, LoginBefore, Fixture, RoleFor, Create, Keyed, Call
  <2>3. QED
    BY <1>1, <1>2, <2>1, <2>2 DEF StepKnown, CallKnown, SameReached, Create, Keyed,
    Call, RoleFor, Repeats
<1>7. StepKnown("idempotency", 5)
  BY <1>1, IdempotencyEntries DEF StepKnown, ParallelKnown, SameReached, InParallel
<1>8. QED
  BY <1>3, <1>4, <1>5, <1>6, <1>7

\* The steps of courier_reassignment.
LEMMA CourierReassignmentEntries ==
  /\ Len(Scripts["courier_reassignment"]) = 8 /\ DOMAIN Scripts["courier_reassignment"] = 1..8
  /\ Scripts["courier_reassignment"][1] = Fixture("client", TRUE)
  /\ Scripts["courier_reassignment"][2] = Adopt
  /\ Scripts["courier_reassignment"][3] = Fixture("courier", TRUE)
  /\ Scripts["courier_reassignment"][4] = Fixture("courier", TRUE)
  /\ Scripts["courier_reassignment"][5] = Fixture("admin", TRUE)
  /\ Scripts["courier_reassignment"][6] = Create(1, "create_order")
  /\ Scripts["courier_reassignment"][7] = Call("give_order_to_courier", 1, 1, {200})
  /\ Scripts["courier_reassignment"][8] = Call("give_order_to_courier", 1, 2, {200})
BY DEF Scripts, CourierReassignment

LEMMA CourierReassignmentKnown == \A i \in 1..8 : StepKnown("courier_reassignment", i)
<1>1. /\ \A i : Reached("courier_reassignment", 1, i) = <<0, 0, 0, 0, 0, 0, 1, 2, 2>>[i]
      /\ \A i : Reached("courier_reassignment", 2, i) = 0
  BY DEF Reached
<1>2. Path("courier_reassignment", 1) = <<"NEW", "COURIER_ASSIGNED">> /\ KindOf("courier_reassignment", 1) = "RESTAURANT"
  BY DEF Path, KindOf
<1>3. StepKnown("courier_reassignment", 1)
  BY <1>1, <1>2, CourierReassignmentEntries DEF StepKnown, FixtureKnown, SameReached,
  Fixture, Roles
<1>4. StepKnown("courier_reassignment", 2)
  BY <1>1, <1>2, CourierReassignmentEntries DEF StepKnown, AdoptKnown, SameReached,
  Adopt
<1>5. StepKnown("courier_reassignment", 3)
  BY <1>1, <1>2, CourierReassignmentEntries DEF StepKnown, FixtureKnown, SameReached,
  Fixture, Roles
<1>6. StepKnown("courier_reassignment", 4)
  BY <1>1, <1>2, CourierReassignmentEntries DEF StepKnown, FixtureKnown, SameReached,
  Fixture, Roles
<1>7. StepKnown("courier_reassignment", 5)
  BY <1>1, <1>2, CourierReassignmentEntries DEF StepKnown, FixtureKnown, SameReached,
  Fixture, Roles
<1>8. StepKnown("courier_reassignment", 6)
  <2>1. Scripts["courier_reassignment"][6] = Create(1, "create_order")
    BY CourierReassignmentEntries
  <2>2. Authorised("courier_reassignment", 6)
    <3>1. Scripts["courier_reassignment"][1] = Fixture("client", TRUE) /\ 1 \in 1..(6 - 1)
      BY CourierReassignmentEntries
    <3>2. QED
      BY <2>1, <3>1 DEF Authorised, LoginBefore, Fixture, RoleFor, Create, Call
  <2>3. QED
    BY <1>1, <1>2, <2>1, <2>2 DEF StepKnown, CallKnown, SameReached, Create, Call,
    RoleFor, Makes
<1>9. StepKnown("courier_reassignment", 7)
  <2>1. Scripts["courier_reassignment"][7] = Call("give_order_to_courier", 1, 1, {200})
    BY CourierReassignmentEntries
  <2>2. Authorised("courier_reassignment", 7)
    <3>1. Scripts["courier_reassignment"][5] = Fixture("admin", TRUE) /\ 5 \in 1..(7 - 1)
      BY CourierReassignmentEntries
    <3>2. QED
      BY <2>1, <3>1 DEF Authorised, LoginBefore, Fixture, RoleFor, Call
  <2>3. Protocol!ValidateTransition("RESTAURANT", "NEW", "COURIER_ASSIGNED", "ADMIN")
    BY DEF Protocol!ValidateTransition, Protocol!Followers,
    Protocol!RestaurantTransitions, Protocol!Terminal
  <2>4. 1 \in 1..2 /\ Reached("courier_reassignment", 1, 7) = 1 /\ Reached("courier_reassignment", 1, 7 + 1) = 2
    BY <1>1
  <2>5. QED
    BY <1>1, <1>2, <2>1, <2>2, <2>3, <2>4 DEF StepKnown, CallKnown, SameReached, Call,
    RoleFor, Moves, Brings, Actor
<1>10. StepKnown("courier_reassignment", 8)
  <2>1. Scripts["courier_reassignment"][8] = Call("give_order_to_courier", 1, 2, {200})
    BY CourierReassignmentEntries
  <2>2. Authorised("courier_reassignment", 8)
    <3>1. Scripts["courier_reassignment"][5] = Fixture("admin", TRUE) /\ 5 \in 1..(8 - 1)
      BY CourierReassignmentEntries
    <3>2. QED
      BY <2>1, <3>1 DEF Authorised, LoginBefore, Fixture, RoleFor, Call
  <2>3. QED
    BY <1>1, <1>2, <2>1, <2>2 DEF StepKnown, CallKnown, SameReached, Call, RoleFor,
    Hands, None200
<1>11. QED
  BY <1>3, <1>4, <1>5, <1>6, <1>7, <1>8, <1>9, <1>10

\* The steps of input_validation.
LEMMA InputValidationEntries ==
  /\ Len(Scripts["input_validation"]) = 6 /\ DOMAIN Scripts["input_validation"] = 1..6
  /\ Scripts["input_validation"][1] = Fixture("client", TRUE)
  /\ Scripts["input_validation"][2] = Adopt
  /\ Scripts["input_validation"][3] = Call("independent_order", 1, "invalid", {400})
  /\ Scripts["input_validation"][4] = Fixture("client", TRUE)
  /\ Scripts["input_validation"][5] = Adopt
  /\ Scripts["input_validation"][6] = Call("create_order", 1, "invalid", {400})
BY DEF Scripts, InputValidation

LEMMA InputValidationKnown == \A i \in 1..6 : StepKnown("input_validation", i)
<1>1. /\ \A i : Reached("input_validation", 1, i) = 0
      /\ \A i : Reached("input_validation", 2, i) = 0
  BY DEF Reached
<1>2. StepKnown("input_validation", 1)
  BY <1>1, InputValidationEntries DEF StepKnown, FixtureKnown, SameReached, Fixture,
  Roles
<1>3. StepKnown("input_validation", 2)
  BY <1>1, InputValidationEntries DEF StepKnown, AdoptKnown, SameReached, Adopt
<1>4. StepKnown("input_validation", 3)
  <2>1. Scripts["input_validation"][3] = Call("independent_order", 1, "invalid", {400})
    BY InputValidationEntries
  <2>2. Authorised("input_validation", 3)
    <3>1. Scripts["input_validation"][1] = Fixture("client", TRUE) /\ 1 \in 1..(3 - 1)
      BY InputValidationEntries
    <3>2. QED
      BY <2>1, <3>1 DEF Authorised, LoginBefore, Fixture, RoleFor, Call
  <2>3. QED
    BY <1>1, <2>1, <2>2 DEF StepKnown, CallKnown, SameReached, Call, RoleFor, IsInvalid
<1>5. StepKnown("input_validation", 4)
  BY <1>1, InputValidationEntries DEF StepKnown, FixtureKnown, SameReached, Fixture,
  Roles
<1>6. StepKnown("input_validation", 5)
  BY <1>1, InputValidationEntries DEF StepKnown, AdoptKnown, SameReached, Adopt
<1>7. StepKnown("input_validation", 6)
  <2>1. Scripts["input_validation"][6] = Call("create_order", 1, "invalid", {400})
    BY InputValidationEntries
  <2>2. Authorised("input_validation", 6)
    <3>1. Scripts["input_validation"][1] = Fixture("client", TRUE) /\ 1 \in 1..(6 - 1)
      BY InputValidationEntries
    <3>2. QED
      BY <2>1, <3>1 DEF Authorised, LoginBefore, Fixture, RoleFor, Call
  <2>3. QED
    BY <1>1, <2>1, <2>2 DEF StepKnown, CallKnown, SameReached, Call, RoleFor, IsInvalid
<1>8. QED
  BY <1>2, <1>3, <1>4, <1>5, <1>6, <1>7

LEMMA ScriptShape ==
  ASSUME NEW s \in Suites
  PROVE  /\ s \in DOMAIN Scripts
         /\ Len(Scripts[s]) \in Nat \ {0} /\ DOMAIN Scripts[s] = 1..Len(Scripts[s])
<1>1. s \in DOMAIN Scripts
  BY SuiteAssumption
<1>2. DOMAIN Scripts = {"flow_a", "flow_b", "cancellation", "security_rbac", "idempotency",
                        "courier_reassignment", "input_validation"}
  BY DEF Scripts
<1>3. QED
  BY <1>1, <1>2, FlowAEntries, FlowBEntries, CancellationEntries, SecurityRBACEntries,
     IdempotencyEntries, CourierReassignmentEntries, InputValidationEntries

\* Every step of every suite is of a kind that can be reasoned about.
LEMMA StepsKnown ==
  ASSUME NEW s \in Suites, NEW i \in DOMAIN Scripts[s]
  PROVE  StepKnown(s, i)
<1>1. s \in {"flow_a", "flow_b", "cancellation", "security_rbac", "idempotency",
             "courier_reassignment", "input_validation"}
  BY ScriptShape DEF Scripts
<1>2. CASE s = "flow_a"
  BY <1>2, FlowAEntries, FlowAKnown
<1>3. CASE s = "flow_b"
  BY <1>3, FlowBEntries, FlowBKnown
<1>4. CASE s = "cancellation"
  BY <1>4, CancellationEntries, CancellationKnown
<1>5. CASE s = "security_rbac"
  BY <1>5, SecurityRBACEntries, SecurityRBACKnown
<1>6. CASE s = "idempotency"
  BY <1>6, IdempotencyEntries, IdempotencyKnown
<1>7. CASE s = "courier_reassignment"
  BY <1>7, CourierReassignmentEntries, CourierReassignmentKnown
<1>8. CASE s = "input_validation"
  BY <1>8, InputValidationEntries, InputValidationKnown
<1>9. QED
  BY <1>1, <1>2, <1>3, <1>4, <1>5, <1>6, <1>7, <1>8

\* No suite starts with an order.
LEMMA NothingAtFirst ==
  ASSUME NEW s \in Suites, NEW n \in 1..2
  PROVE  Reached(s, n, 1) = 0
  BY DEF Reached

-----------------------------------------------------------------------------
(* The backend.                                                            *)

\* A stage stands for a status, and for whether a new order has a courier.
LEMMA StageTells ==
  ASSUME NEW order, order.status \in Statuses
  PROVE  /\ StageOf(order) \in Stages
         /\ StageOf(order) = "NEW" <=> order.status = "new" /\ order.courier = NoCourier
         /\ StageOf(order) = "COURIER_ASSIGNED"
              <=> order.status = "new" /\ order.courier # NoCourier
         /\ StageOf(order) = "PREPARING" <=> order.status = "cooking"
         /\ StageOf(order) = "READY_FOR_PICKUP" <=> order.status = "cooked"
         /\ StageOf(order) = "PICKED_UP" <=> order.status = "shipping"
         /\ StageOf(order) = "DELIVERED" <=> order.status = "complete"
         /\ StageOf(order) = "CANCELLED" <=> order.status = "cancelled"
  BY DEF StageOf, Statuses, Stages

\* Calls that change an order there is, with arguments of the right kind.
Changing == {"cancel", "give_order_to_courier", "cancel_order", "order_status", "take_order",
             "change_status"}

ArgumentOK(call) ==
  /\ call.to = "order_status" => call.with \in Statuses
  /\ call.to \in {"give_order_to_courier", "take_order"} =>
       call.with \in Couriers \cup {NoCourier}

LEMMA HandlerIs ==
  ASSUME NEW call
  PROVE  /\ call.to = "cancel" => Handler(call) = ClientCancel(orders[call.order])
         /\ call.to = "give_order_to_courier" =>
              Handler(call) = AdminAssignCourier(orders[call.order], call.with)
         /\ call.to = "cancel_order" => Handler(call) = AdminCancelOrder(orders[call.order])
         /\ call.to = "order_status" =>
              Handler(call) = RestOrderStatus(orders[call.order], call.with)
         /\ call.to = "take_order" =>
              Handler(call) = CourierTakeOrder(orders[call.order], call.with)
         /\ call.to = "change_status" =>
              Handler(call) = CourierChangeStatus(orders[call.order], call.with)
  BY DEF Handler

\* A handler leaves alone what makes an order the order it is.
LEMMA HandlerKeeps ==
  ASSUME NEW call, call.to \in Changing, ArgumentOK(call), orders[call.order] \in OrderType
  PROVE  /\ Handler(call).order \in OrderType
         /\ Handler(call).order.kind = orders[call.order].kind
         /\ Handler(call).order.trail = orders[call.order].trail
         /\ Handler(call).order.touched = orders[call.order].touched
         /\ Handler(call).code \in {200, 400, 403}
<1> DEFINE order == orders[call.order]
           Same(other) == /\ other \in OrderType /\ other.kind = order.kind
                          /\ other.trail = order.trail /\ other.touched = order.touched
<1>1. Same(order)
  OBVIOUS
<1>2. ASSUME NEW status \in Statuses PROVE Same([order EXCEPT !.status = status])
  BY DEF OrderType
<1>3. ASSUME NEW courier \in Couriers \cup {NoCourier}
      PROVE  Same([order EXCEPT !.courier = courier])
  BY DEF OrderType
<1>4. Same(Handler(call).order) /\ Handler(call).code \in {200, 400, 403}
  <2> HIDE DEF Same
  <2>1. CASE call.to = "cancel"
    <3>1. Same([order EXCEPT !.status = "cancelled"])
      BY <1>2 DEF Statuses
    <3>2. QED
      BY <1>1, <2>1, <3>1, HandlerIs DEF ClientCancel, Done, Refused
  <2>2. CASE call.to = "give_order_to_courier"
    BY <1>1, <1>3, <2>2, HandlerIs DEF AdminAssignCourier, Done, Refused, ArgumentOK
  <2>3. CASE call.to = "cancel_order"
    BY <1>2, <2>3, HandlerIs DEF AdminCancelOrder, Done, Statuses
  <2>4. CASE call.to = "order_status"
    BY <1>1, <1>2, <2>4, HandlerIs DEF RestOrderStatus, Done, Refused, ArgumentOK
  <2>5. CASE call.to = "take_order"
    BY <1>3, <2>5, HandlerIs DEF CourierTakeOrder, Done, ArgumentOK
  <2>6. CASE call.to = "change_status"
    <3>1. \A status \in {"complete", "shipping"} : Same([order EXCEPT !.status = status])
      BY <1>2 DEF Statuses
    <3>2. QED
      BY <1>1, <2>6, <3>1, HandlerIs DEF CourierChangeStatus, Done, Refused
  <2>7. QED
    BY <2>1, <2>2, <2>3, <2>4, <2>5, <2>6 DEF Changing
<1>5. QED
  BY <1>4

\* What may become of an order: its trail grows by the stage a suite brought it to, and
\* no further once a user has changed its stage.
Turns(before, after, actor, byUser) ==
  /\ after \in OrderType /\ after.kind = before.kind
  /\ before.touched => after.touched /\ after.trail = before.trail
  /\ ~before.touched =>
       \/ /\ ~after.touched /\ after.trail = before.trail
          /\ StageOf(after) = StageOf(before)
       \/ byUser /\ after.touched /\ after.trail = before.trail
       \/ /\ ~byUser /\ ~after.touched /\ StageOf(after) # StageOf(before)
          /\ after.trail = Append(before.trail, [stage |-> StageOf(after), by |-> actor])

LEMMA NotedTurns ==
  ASSUME NEW before \in OrderType, NEW after \in OrderType,
         after.kind = before.kind, after.trail = before.trail, after.touched = before.touched,
         NEW actor \in {"CLIENT", "RESTAURANT", "COURIER", "ADMIN"}, NEW byUser \in BOOLEAN
  PROVE  LET noted == Noted(before, after, actor, byUser) IN
         /\ Turns(before, noted, actor, byUser)
         /\ noted.status = after.status /\ noted.courier = after.courier
         /\ StageOf(noted) = StageOf(after)
<1> DEFINE noted == Noted(before, after, actor, byUser)
           entry == [stage |-> StageOf(after), by |-> actor]
<1>1. CASE before.touched \/ StageOf(after) = StageOf(before)
  <2>1. noted = after
    BY <1>1 DEF Noted
  <2>2. QED
    BY <1>1, <2>1 DEF Turns, OrderType
<1>2. CASE ~before.touched /\ StageOf(after) # StageOf(before) /\ byUser
  <2>1. noted = [after EXCEPT !.touched = TRUE]
    BY <1>2 DEF Noted
  <2>2. noted \in OrderType /\ StageOf(noted) = StageOf(after)
    BY <2>1 DEF OrderType, StageOf
  <2>3. QED
    BY <1>2, <2>1, <2>2 DEF Turns, OrderType
<1>3. CASE ~before.touched /\ StageOf(after) # StageOf(before) /\ ~byUser
  <2>1. noted = [after EXCEPT !.trail = Append(after.trail, entry)]
    BY <1>3 DEF Noted
  <2>2. entry \in [stage : Stages, by : {"CLIENT", "RESTAURANT", "COURIER", "ADMIN"}]
    BY StageTells DEF OrderType
  <2>3. Append(after.trail, entry) \in Seq([stage : Stages, by : {"CLIENT", "RESTAURANT", "COURIER", "ADMIN"}])
    BY <2>2, AppendProperties DEF OrderType
  <2> HIDE DEF entry
  <2>4. noted \in OrderType /\ StageOf(noted) = StageOf(after)
    BY <2>1, <2>3 DEF OrderType, StageOf
  <2>5. noted.trail = Append(before.trail, entry) /\ ~noted.touched /\ noted.kind = before.kind
        /\ noted.status = after.status /\ noted.courier = after.courier
    BY <1>3, <2>1 DEF OrderType
  <2>6. QED
    BY <1>3, <2>4, <2>5 DEF Turns, entry
<1>4. QED
  BY <1>1, <1>2, <1>3

\* The answer to a call, by its endpoint.
LEMMA CodeIs ==
  ASSUME NEW call, call.to \in DOMAIN RoleFor, NEW token
  PROVE  LET guard == AuthGuard(RoleFor[call.to], token)
             code == Code(call, token)
         IN /\ guard \in {200, 401, 403}
            /\ guard # 200 => code = guard
            /\ guard = 200 /\ Creates(call) =>
                 code = IF ~AnsweredBefore(call) /\ call.with = "invalid" THEN 400 ELSE 200
            /\ guard = 200 /\ call.to = "dishes" => code = 200
            /\ guard = 200 /\ call.to \in Changing =>
                 code = IF orders[call.order] = None THEN 404 ELSE Handler(call).code
<1>1. AuthGuard(RoleFor[call.to], token) \in {200, 401, 403}
  BY DEF AuthGuard
<1>2. QED
  BY <1>1 DEF Code, Creates, Changing

-----------------------------------------------------------------------------
(* The inductive invariant.                                                *)

OrdersTyped ==
  /\ orders \in [OrderIds -> OrderType \cup {None}]
  /\ idempotency \in [Keys -> OrderIds \cup {None}]

FlowsTyped ==
  /\ suite \in [Flows -> Suites \cup {None}]
  /\ outcome \in [Flows -> {"none", "running", "passed", "failed"}]
  /\ step \in [Flows -> Nat]
  /\ \A f \in Flows : outcome[f] = "running" => step[f] \in DOMAIN Scripts[suite[f]]
  /\ own \in [Flows -> Tokens \cup {Empty}]
  /\ blind \in [Flows -> BOOLEAN]
  /\ worker \in [Flows -> [1..Workers -> {"login", "order", "done", "failed"}]]
  /\ history \in [OrderIds -> Seq(Stages)]

GhostsTyped ==
  /\ unheard \subseteq Flows /\ lost \in 0..MaxLost /\ emptied \in BOOLEAN /\ meddled \in BOOLEAN
  /\ manual \in 0..MaxManual

WellFormed == OrdersTyped /\ SessionTypeOK /\ FlowsTyped /\ GhostsTyped

\* The trail of an order ends at the stage it is at, until a user changes that.
Trails ==
  \A o \in OrderIds : orders[o] # None =>
    /\ Len(orders[o].trail) >= 1
    /\ ~orders[o].touched => Protocol!Stage(orders[o].trail) = StageOf(orders[o])

PlaceOf(f) == IF outcome[f] = "passed" THEN Len(Scripts[suite[f]]) + 1 ELSE step[f]

\* The n-th order of a flow has been through k stages of its path, unless a user moved it
\* or the flow is blind to its courier, and the flow's history says so.
OrderAt(f, n, k) ==
  LET order == orders[OrderOf(f, n)]
      path == Path(suite[f], n)
      past == history[OrderOf(f, n)]
  IN /\ order = None <=> k = 0
     /\ k # 0 => order.kind = KindOf(suite[f], n)
     /\ k # 0 /\ ~blind[f] /\ ~order.touched =>
          /\ Len(order.trail) = k /\ StageOf(order) = path[k]
          /\ \A i \in 1..k : order.trail[i].stage = path[i]
     /\ suite[f] \in {"flow_a", "flow_b"} =>
          Len(past) = k /\ \A i \in 1..k : past[i] = path[i]

\* A flow that has not failed is where its script says, and so are its orders.
OnTrack(f) ==
  /\ outcome[f] = "none" =>
       /\ suite[f] = None /\ step[f] = 1 /\ ~blind[f] /\ idempotency[f] = None
       /\ \A n \in 1..2 : orders[OrderOf(f, n)] = None /\ history[OrderOf(f, n)] = <<>>
  /\ outcome[f] # "none" => suite[f] \in Suites
  /\ blind[f] => suite[f] = "flow_b" /\ f \in unheard
  /\ outcome[f] \in {"running", "passed"} =>
       /\ \A n \in 1..2 : OrderAt(f, n, Reached(suite[f], n, PlaceOf(f)))
       /\ idempotency[f] = IF suite[f] = "idempotency" /\ PlaceOf(f) > 3
                           THEN OrderOf(f, 1) ELSE None
  /\ suite[f] = "courier_reassignment" /\ outcome[f] = "passed" =>
       LET order == orders[OrderOf(f, 1)] IN order.touched \/ order.courier = CourierOf(f, 2)

Tracks == \A f \in Flows : OnTrack(f)

\* A flow whose calls were all heard has logged in where its script says, and unless
\* users changed the sessions the roles have profiles.
LoggedIn(f) ==
  /\ own[f] \in {Empty, TokenOf("client", f)}
  /\ outcome[f] = "running" /\ f \notin unheard =>
       \A role \in Roles : LoginBefore(suite[f], step[f], role) =>
         /\ meddled \/ pool[role] # {}
         /\ role = "client" => own[f] = TokenOf("client", f)

Logins ==
  /\ \A f \in Flows : LoggedIn(f)
  /\ \A role \in Roles : \A t \in pool[role] : t = Empty \/ t.role = role

LEMMA IdsAre ==
  /\ \A f \in Flows, n \in 1..2 : OrderOf(f, n) \in OrderIds
  /\ \A f \in Flows, w \in 1..Workers : WorkersOrder(f, w) \in OrderIds
  /\ \A f \in Flows, n \in {1, 2} : CourierOf(f, n) \in Couriers
  /\ Keys = Flows
  /\ \A o \in OrderIds : o[1] \in Flows /\ o[2] \in 1..(2 + Workers) /\ o = OrderOf(o[1], o[2])
  /\ \A f, g, n, m : OrderOf(f, n) = OrderOf(g, m) <=> f = g /\ n = m
  BY SuiteAssumption DEF OrderOf, WorkersOrder, CourierOf

\* An order of a flow is one of its script or of a worker.
LEMMA EveryOrder ==
  ASSUME NEW f, NEW n \in 1..(2 + Workers)
  PROVE  n \in 1..2 \/ \E w \in 1..Workers : OrderOf(f, n) = WorkersOrder(f, w)
<1>1. CASE n \notin 1..2
  <2>1. n - 2 \in 1..Workers /\ n = 2 + (n - 2)
    BY <1>1, SuiteAssumption
  <2>2. QED
    BY <2>1 DEF WorkersOrder
<1>2. QED
  BY <1>1

\* The orders of the workers are not those of the script.
LEMMA WorkersOrdersAre ==
  ASSUME NEW f \in Flows, NEW w \in 1..Workers
  PROVE  /\ \A g \in Flows, n \in 1..2 : OrderOf(g, n) # WorkersOrder(f, w)
         /\ \A g \in Flows, v \in 1..Workers :
              WorkersOrder(g, v) = WorkersOrder(f, w) <=> g = f /\ v = w
  BY SuiteAssumption, IdsAre DEF WorkersOrder

\* An order is a record, or there is none.
LEMMA OrderOrNone ==
  ASSUME WellFormed, NEW o \in OrderIds
  PROVE  orders[o] # None <=> orders[o] \in OrderType
  BY AbsenceAssumption DEF WellFormed, OrdersTyped

\* What a call, of a suite or a user, makes of the order it is about.
After(call, byUser) ==
  Noted(orders[call.order], Handler(call).order, Actor[RoleFor[call.to]], byUser)

LEMMA CallIsLetIn ==
  ASSUME WellFormed, NEW call, call.to \in Changing, call.order \in OrderIds, NEW token,
         Code(call, token) = 200
  PROVE  orders[call.order] \in OrderType /\ Handler(call).code = 200
<1>1. ~Creates(call) /\ call.to # "dishes" /\ call.to \in DOMAIN RoleFor
  BY DEF Changing, Creates, RoleFor
<1>2. orders[call.order] # None /\ Handler(call).code = 200
  BY <1>1, CodeIs
<1>3. QED
  BY <1>2, OrderOrNone

LEMMA AfterIs ==
  ASSUME NEW call, call.to \in Changing, ArgumentOK(call),
         orders[call.order] \in OrderType, NEW byUser \in BOOLEAN
  PROVE  /\ Turns(orders[call.order], After(call, byUser), Actor[RoleFor[call.to]], byUser)
         /\ After(call, byUser) \in OrderType
         /\ After(call, byUser).status = Handler(call).order.status
         /\ After(call, byUser).courier = Handler(call).order.courier
         /\ StageOf(After(call, byUser)) = StageOf(Handler(call).order)
<1>1. Actor[RoleFor[call.to]] \in {"CLIENT", "RESTAURANT", "COURIER", "ADMIN"}
  BY DEF Changing, RoleFor, Actor
<1>2. PICK before : before = orders[call.order]
  OBVIOUS
<1>3. PICK after : after = Handler(call).order
  OBVIOUS
<1>4. PICK actor : actor = Actor[RoleFor[call.to]]
  OBVIOUS
<1>5. /\ after \in OrderType /\ before \in OrderType /\ after.kind = before.kind
      /\ after.trail = before.trail /\ after.touched = before.touched
  BY <1>2, <1>3, HandlerKeeps
<1>6. LET noted == Noted(before, after, actor, byUser) IN
      /\ Turns(before, noted, actor, byUser)
      /\ noted.status = after.status /\ noted.courier = after.courier
      /\ StageOf(noted) = StageOf(after)
  BY <1>1, <1>4, <1>5, NotedTurns
<1>7. After(call, byUser) = Noted(before, after, actor, byUser)
  BY <1>2, <1>3, <1>4 DEF After
<1>8. QED
  BY <1>2, <1>3, <1>4, <1>6, <1>7 DEF Turns

LEMMA CallChanges ==
  ASSUME WellFormed, NEW call, call.to \in Changing, ArgumentOK(call), call.order \in OrderIds,
         NEW token, NEW byUser \in BOOLEAN, Process(call, token, byUser)
  PROVE  /\ UNCHANGED idempotency /\ OrdersTyped'
         /\ \A p \in OrderIds : p # call.order => orders'[p] = orders[p]
         /\ Code(call, token) = 200 => orders'[call.order] = After(call, byUser)
         /\ Code(call, token) # 200 => orders'[call.order] = orders[call.order]
<1> DEFINE o == call.order
<1>1. ~Creates(call) /\ call.to # "dishes"
  BY DEF Changing, Creates
<1>2. OrdersTyped
  BY DEF WellFormed
<1>3. CASE Code(call, token) # 200
  <2>1. UNCHANGED <<orders, idempotency>>
    BY <1>3 DEF Process, backendVars
  <2>2. QED
    BY <1>2, <1>3, <2>1 DEF OrdersTyped
<1>4. CASE Code(call, token) = 200
  <2>1. orders' = [orders EXCEPT ![o] = After(call, byUser)] /\ UNCHANGED idempotency
    BY <1>1, <1>4 DEF Process, After
  <2>2. After(call, byUser) \in OrderType
    BY <1>4, CallIsLetIn, AfterIs
  <2>3. QED
    BY <1>2, <1>4, <2>1, <2>2 DEF OrdersTyped
<1>5. QED
  BY <1>3, <1>4

-----------------------------------------------------------------------------
(* The calls of the suites.                                                *)

\* A running flow is at a step of its script, which is known.
LEMMA AtAStep ==
  ASSUME WellFormed, NEW f \in Flows, OnTrack(f), outcome[f] = "running"
  PROVE  /\ suite[f] \in Suites /\ step[f] \in DOMAIN Scripts[suite[f]]
         /\ AtStep(f) = Scripts[suite[f]][step[f]] /\ StepKnown(suite[f], step[f])
         /\ PlaceOf(f) = step[f] /\ step[f] \in Nat
         /\ \A n \in 1..2 : OrderAt(f, n, Reached(suite[f], n, step[f]))
         /\ idempotency[f] = IF suite[f] = "idempotency" /\ step[f] > 3
                             THEN OrderOf(f, 1) ELSE None
<1>1. suite[f] \in Suites /\ step[f] \in DOMAIN Scripts[suite[f]]
  BY DEF OnTrack, WellFormed, FlowsTyped
<1>2. PlaceOf(f) = step[f]
  BY DEF PlaceOf
<1>3. QED
  BY <1>1, <1>2, StepsKnown DEF OnTrack, AtStep, WellFormed, FlowsTyped

\* The call of a step.
LEMMA AtACall ==
  ASSUME WellFormed, NEW f \in Flows, OnTrack(f), Doing(f, "call")
  PROVE  LET c == AtStep(f)
             call == CallOf(f)
             o == OrderOf(f, c.n)
         IN /\ CallKnown(suite[f], step[f])
            /\ call.to = c.to /\ call.order = o /\ call.to \in DOMAIN RoleFor
            /\ call.key = IF c.key THEN f ELSE None
            /\ call.with = IF c.to \in {"give_order_to_courier", "take_order"}
                           THEN IF blind[f] THEN NoCourier ELSE CourierOf(f, c.with)
                           ELSE c.with
            /\ c.n \in 1..2 /\ o \in OrderIds /\ f # None
            /\ AnsweredBefore(call) <=> c.key /\ idempotency[f] # None
<1>1. outcome[f] = "running" /\ AtStep(f).do = "call"
  BY DEF Doing
<1>2. CallKnown(suite[f], step[f])
  BY <1>1, AtAStep DEF StepKnown, FixtureKnown, AdoptKnown, ParallelKnown
<1>3. AtStep(f).n \in 1..2 /\ AtStep(f).to \in DOMAIN RoleFor /\ AtStep(f).key \in BOOLEAN
  BY <1>1, <1>2, AtAStep DEF CallKnown
<1>4. f # None
  BY AbsenceAssumption
<1>5. QED
  BY <1>2, <1>3, <1>4, IdsAre DEF CallOf, AnsweredBefore

NewOrder(kind) ==
  [kind |-> kind, status |-> "new", courier |-> NoCourier,
   trail |-> <<[stage |-> "NEW", by |-> "CLIENT"]>>, touched |-> FALSE]

\* A call that makes its order makes it when it is let in, and not otherwise.
LEMMA MakesIt ==
  ASSUME WellFormed, NEW f \in Flows, OnTrack(f), Doing(f, "call"),
         Makes(suite[f], step[f]), NEW token
  PROVE  LET c == AtStep(f)
             o == OrderOf(f, c.n)
             code == Code(CallOf(f), token)
         IN /\ orders[o] = None /\ Creates(CallOf(f)) /\ Shown(CallOf(f)) = o
            /\ code = AuthGuard("client", token) /\ RoleFor[c.to] = "client"
            /\ Process(CallOf(f), token, FALSE) =>
                 IF code = 200
                 THEN /\ orders' = [orders EXCEPT ![o] = NewOrder(KindOf(suite[f], c.n))]
                      /\ idempotency' = IF c.key THEN [idempotency EXCEPT ![f] = o]
                                        ELSE idempotency
                 ELSE UNCHANGED backendVars
<1> DEFINE c == AtStep(f)
           call == CallOf(f)
           o == OrderOf(f, c.n)
<1>1. outcome[f] = "running"
  BY DEF Doing
<1>2. /\ c.to = (IF KindOf(suite[f], c.n) = "RESTAURANT" THEN "create_order" ELSE "independent_order")
      /\ c.with = "valid" /\ (c.key = TRUE <=> suite[f] = "idempotency" /\ step[f] = 3)
      /\ Reached(suite[f], c.n, step[f]) = 0
  BY <1>1, AtAStep DEF Makes
<1>3. c.to \in {"create_order", "independent_order"} /\ RoleFor[c.to] = "client"
  BY <1>2 DEF RoleFor
<1>4. orders[o] = None
  BY <1>1, <1>2, AtAStep, AtACall DEF OrderAt
<1>5. c.key => idempotency[f] = None
  BY <1>1, <1>2, AtAStep
<1>6. ~AnsweredBefore(call) /\ Creates(call) /\ call.with = "valid" /\ call.to = c.to
      /\ call.order = o /\ call.to # "dishes"
  BY <1>2, <1>3, <1>5, AtACall DEF Creates
<1>7. Shown(call) = o
  BY <1>6 DEF Shown
<1>8. Code(call, token) = AuthGuard("client", token)
  BY <1>3, <1>6, AtACall, CodeIs
<1>9. ASSUME Process(call, token, FALSE)
      PROVE  IF Code(call, token) = 200
             THEN /\ orders' = [orders EXCEPT ![o] = NewOrder(KindOf(suite[f], c.n))]
                  /\ idempotency' = IF c.key THEN [idempotency EXCEPT ![f] = o]
                                    ELSE idempotency
             ELSE UNCHANGED backendVars
  <2>1. CASE Code(call, token) # 200
    BY <1>9, <2>1 DEF Process
  <2>2. CASE Code(call, token) = 200
    <3>1. CreateOrder(call)
      BY <1>6, <1>9, <2>2 DEF Process
    <3>2. (IF call.to = "create_order" THEN "RESTAURANT" ELSE "INDEPENDENT") = KindOf(suite[f], c.n)
      BY <1>2, <1>6 DEF KindOf
    <3>3. (IF call.key = None THEN idempotency ELSE [idempotency EXCEPT ![call.key] = call.order])
            = IF c.key THEN [idempotency EXCEPT ![f] = o] ELSE idempotency
      BY <1>6, AtACall
    <3>4. QED
      BY <1>6, <2>2, <3>1, <3>2, <3>3 DEF CreateOrder, NewOrder
  <2>3. QED
    BY <2>1, <2>2
<1>10. QED
  BY <1>3, <1>4, <1>6, <1>7, <1>8, <1>9

\* A call that moves its order on does so when it is let in, unless a user has been there
\* or the courier is not known.
LEMMA MovesIt ==
  ASSUME WellFormed, NEW f \in Flows, OnTrack(f), Doing(f, "call"),
         Moves(suite[f], step[f]), NEW token
  PROVE  LET c == AtStep(f)
             o == OrderOf(f, c.n)
             k == Reached(suite[f], c.n, step[f])
             code == Code(CallOf(f), token)
         IN /\ orders[o] \in OrderType /\ k \in 1..5
            /\ CallOf(f).to \in Changing /\ ArgumentOK(CallOf(f))
            /\ ~blind[f] /\ ~orders[o].touched =>
                 /\ StageOf(orders[o]) = Path(suite[f], c.n)[k]
                 /\ StageOf(Handler(CallOf(f)).order) = Path(suite[f], c.n)[k + 1]
                 /\ code = AuthGuard(RoleFor[c.to], token)
<1> DEFINE c == AtStep(f)
           call == CallOf(f)
           o == OrderOf(f, c.n)
           k == Reached(suite[f], c.n, step[f])
           now == Path(suite[f], c.n)[k]
           next == Path(suite[f], c.n)[k + 1]
           role == RoleFor[c.to]
<1>1. outcome[f] = "running"
  BY DEF Doing
<1>2. Brings(c.to, c.with, now, next) /\ k \in 1..5
  BY <1>1, AtAStep DEF Moves
<1>3. call.to = c.to /\ call.order = o /\ c.to \in Changing /\ c.to \in DOMAIN RoleFor
  BY <1>2, AtACall DEF Brings, Changing
<1>4. ArgumentOK(call) /\ (call.to = "give_order_to_courier" /\ ~blind[f] => call.with # NoCourier)
      /\ (call.to \in {"order_status", "change_status"} => call.with = c.with)
  <2>1. ASSUME c.to = "give_order_to_courier"
        PROVE  CourierOf(f, c.with) \in Couriers /\ CourierOf(f, c.with) # NoCourier
    BY <1>2, <2>1, IdsAre, AbsenceAssumption DEF Brings
  <2>2. c.to = "order_status" => c.with \in Statuses
    BY <1>2 DEF Brings, Statuses
  <2>3. c.to # "take_order"
    BY <1>2 DEF Brings
  <2>4. QED
    BY <1>3, <2>1, <2>2, <2>3, AtACall DEF ArgumentOK
<1>5. orders[o] # None /\ orders[o] \in OrderType /\ orders[o].status \in Statuses
  <2>1. c.n \in 1..2 /\ o \in OrderIds /\ OrderAt(f, c.n, k)
    BY <1>1, AtAStep, AtACall
  <2>2. orders[o] # None
    BY <1>2, <2>1 DEF OrderAt
  <2>3. orders[o] \in OrderType
    BY <2>1, <2>2, OrderOrNone
  <2>4. QED
    BY <2>2, <2>3 DEF OrderType
<1>6. ASSUME ~blind[f], ~orders[o].touched
      PROVE  /\ StageOf(orders[o]) = now
             /\ StageOf(Handler(call).order) = next
             /\ Code(call, token) = AuthGuard(RoleFor[c.to], token)
  <2>1. StageOf(orders[o]) = now
    BY <1>1, <1>2, <1>6, AtAStep, AtACall DEF OrderAt
  <2>2. Handler(call).code = 200 /\ StageOf(Handler(call).order) = next
    <3> HIDE DEF now, next, k
    <3>1. /\ Handler(call).order \in OrderType /\ Handler(call).order.status \in Statuses
      BY ZenonT(30), <1>3, <1>4, <1>5, HandlerKeeps DEF OrderType
    <3>2. CASE c.to = "give_order_to_courier"
      <4>1. orders[o].status = "new" /\ next = "COURIER_ASSIGNED"
        BY <1>2, <1>5, <2>1, <3>2, StageTells DEF Brings
      <4>2. Handler(call) = Done([orders[o] EXCEPT !.courier = call.with])
        BY <1>3, <3>2, <4>1, HandlerIs DEF AdminAssignCourier, Final
      <4>3. Handler(call).order.status = "new" /\ Handler(call).order.courier = call.with
        BY <1>5, <4>1, <4>2 DEF Done, OrderType
      <4>4. QED
        BY <1>3, <1>4, <1>6, <3>1, <3>2, <4>1, <4>2, <4>3, StageTells DEF Done
    <3>3. CASE c.to = "order_status"
      <4>1. orders[o].status \notin Final
        BY <1>2, <1>5, <2>1, <3>3, StageTells DEF Brings, Final
      <4>2. Handler(call) = Done([orders[o] EXCEPT !.status = c.with])
        BY <1>3, <1>4, <3>3, <4>1, HandlerIs DEF RestOrderStatus
      <4>3. Handler(call).order.status = c.with
        BY <1>5, <4>2 DEF Done, OrderType
      <4>4. QED
        BY <1>2, <3>1, <3>3, <4>2, <4>3, StageTells DEF Done, Brings
    <3>4. CASE c.to = "change_status"
      <4>1. orders[o].status \notin Final /\ c.with \in {"shipping", "complete"}
        BY <1>2, <1>5, <2>1, <3>4, StageTells DEF Brings, Final
      <4>2. Handler(call) = Done([orders[o] EXCEPT !.status = c.with])
        BY <1>3, <1>4, <3>4, <4>1, HandlerIs DEF CourierChangeStatus
      <4>3. Handler(call).order.status = c.with
        BY <1>5, <4>2 DEF Done, OrderType
      <4>4. QED
        BY <1>2, <3>1, <3>4, <4>2, <4>3, StageTells DEF Done, Brings
    <3>5. CASE c.to = "cancel"
      <4>1. orders[o].status = "new" /\ next = "CANCELLED"
        BY <1>2, <1>5, <2>1, <3>5, StageTells DEF Brings
      <4>2. Handler(call) = Done([orders[o] EXCEPT !.status = "cancelled"])
        BY <1>3, <3>5, <4>1, HandlerIs DEF ClientCancel
      <4>3. Handler(call).order.status = "cancelled"
        BY <1>5, <4>2 DEF Done, OrderType
      <4>4. QED
        BY <3>1, <4>1, <4>2, <4>3, StageTells DEF Done
    <3>6. QED
      BY <1>2, <3>2, <3>3, <3>4, <3>5 DEF Brings
  <2>3. ~Creates(call)
    BY <1>3 DEF Changing, Creates
  <2>4. QED
    BY <1>3, <1>5, <2>1, <2>2, CodeIs
<1>7. QED
  BY <1>2, <1>3, <1>4, <1>5, <1>6

\* A call that hands an order over changes neither its stage nor its trail.
LEMMA HandsIt ==
  ASSUME WellFormed, NEW f \in Flows, OnTrack(f), Doing(f, "call"),
         Hands(suite[f], step[f]), NEW token
  PROVE  LET c == AtStep(f)
             o == OrderOf(f, c.n)
             k == Reached(suite[f], c.n, step[f])
             code == Code(CallOf(f), token)
         IN /\ orders[o] \in OrderType /\ k \in 1..4
            /\ CallOf(f).to \in Changing /\ ArgumentOK(CallOf(f))
            /\ code \in {200, 400, 401, 403}
            /\ code = 200 => Handler(CallOf(f)).order.courier = CallOf(f).with
            /\ ~blind[f] /\ ~orders[o].touched =>
                 /\ StageOf(Handler(CallOf(f)).order) = StageOf(orders[o])
                 /\ code = AuthGuard(RoleFor[c.to], token)
<1> DEFINE c == AtStep(f)
           call == CallOf(f)
           o == OrderOf(f, c.n)
           k == Reached(suite[f], c.n, step[f])
           now == Path(suite[f], c.n)[k]
<1>1. outcome[f] = "running"
  BY DEF Doing
<1>2. /\ c.to \in {"take_order", "give_order_to_courier"} /\ c.with \in {1, 2} /\ k \in 1..4
      /\ now \in {"COURIER_ASSIGNED", "READY_FOR_PICKUP"}
  BY <1>1, AtAStep DEF Hands
<1>3. call.to = c.to /\ call.order = o /\ c.to \in Changing /\ c.to \in DOMAIN RoleFor
      /\ ~Creates(call)
  BY <1>2, AtACall DEF Changing, Creates
<1>4. ArgumentOK(call) /\ (~blind[f] => call.with # NoCourier)
  <2>1. CourierOf(f, c.with) \in Couriers /\ CourierOf(f, c.with) # NoCourier
    BY <1>2, IdsAre, AbsenceAssumption
  <2>2. call.with = IF blind[f] THEN NoCourier ELSE CourierOf(f, c.with)
    BY <1>2, AtACall
  <2>3. QED
    BY <1>2, <1>3, <2>1, <2>2 DEF ArgumentOK
<1>5. orders[o] # None /\ orders[o] \in OrderType /\ orders[o].status \in Statuses
  <2>1. c.n \in 1..2 /\ o \in OrderIds /\ OrderAt(f, c.n, k)
    BY <1>1, AtAStep, AtACall
  <2>2. orders[o] # None
    BY <1>2, <2>1 DEF OrderAt
  <2>3. orders[o] \in OrderType
    BY <2>1, <2>2, OrderOrNone
  <2>4. QED
    BY <2>2, <2>3 DEF OrderType
<1>6. /\ Handler(call).code \in {200, 400, 403}
      /\ Handler(call).order \in OrderType /\ Handler(call).order.status \in Statuses
  BY ZenonT(30), <1>3, <1>4, <1>5, HandlerKeeps DEF OrderType
<1>7. Code(call, token) \in {200, 400, 401, 403} /\ (Code(call, token) = 200 => Handler(call).code = 200)
  BY <1>3, <1>5, <1>6, CodeIs
<1>8. /\ orders[o].status \in Final => Handler(call).code = 400 \/ call.to = "take_order"
      /\ Handler(call).code = 200 =>
           Handler(call).order = [orders[o] EXCEPT !.courier = call.with]
      /\ orders[o].status \notin Final => Handler(call).code = 200
  BY <1>2, <1>3, HandlerIs DEF AdminAssignCourier, CourierTakeOrder, Done, Refused
<1>9. Handler(call).code = 200 => /\ Handler(call).order.courier = call.with
                                 /\ Handler(call).order.status = orders[o].status
  BY <1>5, <1>8 DEF OrderType
<1>10. ASSUME ~blind[f], ~orders[o].touched
       PROVE  /\ StageOf(Handler(call).order) = StageOf(orders[o])
              /\ Code(call, token) = AuthGuard(RoleFor[c.to], token)
  <2>1. StageOf(orders[o]) = now
    BY <1>1, <1>2, <1>10, AtAStep, AtACall DEF OrderAt
  <2>2. orders[o].status \notin Final
    BY <1>2, <1>5, <2>1, StageTells DEF Final
  <2>3. StageOf(Handler(call).order) = StageOf(orders[o])
    <3>1. Handler(call).order.status = orders[o].status /\ Handler(call).order.courier # NoCourier
      BY <1>4, <1>8, <1>9, <1>10, <2>2
    <3>2. orders[o].status \in {"new", "cooked"} /\ (orders[o].status = "new" => orders[o].courier # NoCourier)
      BY <1>2, <1>5, <2>1, StageTells
    <3>3. QED
      BY <3>1, <3>2 DEF StageOf
  <2>4. QED
    BY <1>3, <1>5, <1>8, <2>2, <2>3, CodeIs
<1>11. QED
  BY <1>2, <1>3, <1>4, <1>5, <1>7, <1>9, <1>10

\* A repeated call is answered with the order of the first, and changes nothing.
LEMMA RepeatsIt ==
  ASSUME WellFormed, NEW f \in Flows, OnTrack(f), Doing(f, "call"),
         Repeats(suite[f], step[f]), NEW token
  PROVE  /\ Process(CallOf(f), token, FALSE) => UNCHANGED backendVars
         /\ Creates(CallOf(f)) /\ Shown(CallOf(f)) = OrderOf(f, 1)
         /\ Code(CallOf(f), token) = AuthGuard("client", token)
<1> DEFINE call == CallOf(f)
<1>1. outcome[f] = "running"
  BY DEF Doing
<1>2. /\ suite[f] = "idempotency" /\ step[f] > 3 /\ AtStep(f).key = TRUE
      /\ AtStep(f).to = "create_order"
  BY <1>1, AtAStep DEF Repeats
<1>3. idempotency[f] = OrderOf(f, 1) /\ OrderOf(f, 1) # None
  BY <1>1, <1>2, AtAStep, IdsAre, AbsenceAssumption
<1>4. AnsweredBefore(call) /\ Creates(call) /\ call.key = f /\ call.to = "create_order"
  BY <1>2, <1>3, AtACall DEF Creates
<1>5. Shown(call) = OrderOf(f, 1)
  BY <1>3, <1>4 DEF Shown
<1>6. Code(call, token) = AuthGuard("client", token)
  BY <1>4, CodeIs DEF RoleFor
<1>7. Process(call, token, FALSE) => UNCHANGED backendVars
  BY <1>4 DEF Process, CreateOrder
<1>8. QED
  BY <1>4, <1>5, <1>6, <1>7

\* A cancellation that comes too late is refused, unless a user has been there.
LEMMA ComesTooLate ==
  ASSUME WellFormed, NEW f \in Flows, OnTrack(f), Doing(f, "call"),
         ComesLate(suite[f], step[f]), NEW token
  PROVE  LET c == AtStep(f)
             o == OrderOf(f, c.n)
             code == Code(CallOf(f), token)
         IN /\ orders[o] \in OrderType
            /\ CallOf(f).to \in Changing /\ ArgumentOK(CallOf(f))
            /\ ~blind[f] /\ ~orders[o].touched =>
                 code = IF AuthGuard("client", token) = 200 THEN 403
                        ELSE AuthGuard("client", token)
<1> DEFINE c == AtStep(f)
           call == CallOf(f)
           o == OrderOf(f, c.n)
           k == Reached(suite[f], c.n, step[f])
<1>1. outcome[f] = "running"
  BY DEF Doing
<1>2. c.to = "cancel" /\ k = 2 /\ Path(suite[f], c.n)[k] = "PREPARING"
  BY <1>1, AtAStep DEF ComesLate
<1>3. /\ call.to = c.to /\ call.order = o /\ c.to \in Changing /\ c.to \in DOMAIN RoleFor
      /\ ~Creates(call) /\ ArgumentOK(call) /\ RoleFor[c.to] = "client"
  BY <1>2, AtACall DEF Changing, Creates, ArgumentOK, RoleFor
<1>4. orders[o] # None /\ orders[o] \in OrderType /\ orders[o].status \in Statuses
  <2>1. c.n \in 1..2 /\ o \in OrderIds /\ OrderAt(f, c.n, k)
    BY <1>1, AtAStep, AtACall
  <2>2. orders[o] # None
    BY <1>2, <2>1 DEF OrderAt
  <2>3. orders[o] \in OrderType
    BY <2>1, <2>2, OrderOrNone
  <2>4. QED
    BY <2>2, <2>3 DEF OrderType
<1>5. ASSUME ~blind[f], ~orders[o].touched
      PROVE  Code(call, token) = IF AuthGuard("client", token) = 200 THEN 403
                                 ELSE AuthGuard("client", token)
  <2>1. StageOf(orders[o]) = "PREPARING"
    BY <1>1, <1>2, <1>5, AtAStep, AtACall DEF OrderAt
  <2>2. orders[o].status = "cooking"
    BY <1>4, <2>1, StageTells
  <2>3. Handler(call) = ClientCancel(orders[o])
    BY <1>2, <1>3, HandlerIs
  <2>4. Handler(call).code = 403
    BY <2>2, <2>3 DEF ClientCancel, Refused
  <2>5. QED
    BY <1>3, <1>4, <2>4, CodeIs
<1>6. QED
  BY <1>3, <1>4, <1>5

\* A call that is to be refused is refused.
LEMMA IsRefused ==
  ASSUME WellFormed, NEW f \in Flows, OnTrack(f), Doing(f, "call"),
         IsInvalid(suite[f], step[f]) \/ IsForeign(suite[f], step[f])
  PROVE  /\ Process(CallOf(f), TokenFor(f), FALSE) => UNCHANGED backendVars
         /\ Code(CallOf(f), TokenFor(f)) # 200
         /\ \/ Code(CallOf(f), TokenFor(f)) \in AtStep(f).accept
            \/ /\ Authorised(suite[f], step[f])
               /\ AuthGuard(RoleFor[AtStep(f).to], TokenFor(f)) # 200
<1> DEFINE c == AtStep(f)
           call == CallOf(f)
           o == OrderOf(f, c.n)
<1>1. outcome[f] = "running"
  BY DEF Doing
<1>2. CASE IsInvalid(suite[f], step[f])
  <2>1. /\ c.to \in {"create_order", "independent_order"} /\ c.with = "invalid" /\ c.key = FALSE
        /\ (c.by = "nobody" /\ c.accept = None200)
           \/ (c.accept = {400} /\ Authorised(suite[f], step[f]))
    BY SMTT(30), <1>1, <1>2, AtAStep DEF IsInvalid
  <2>2. /\ call.to = c.to /\ call.to \in DOMAIN RoleFor /\ Creates(call) /\ ~AnsweredBefore(call)
        /\ call.with = "invalid" /\ call.to # "dishes"
    BY <2>1, AtACall DEF Creates
  <2>3. Code(call, TokenFor(f)) # 200
    BY <2>2, CodeIs
  <2>4. Process(call, TokenFor(f), FALSE) => UNCHANGED backendVars
    BY <2>3 DEF Process
  <2>5. ASSUME c.by = "nobody" PROVE Code(call, TokenFor(f)) = 401
    <3>1. TokenFor(f) = Empty
      BY <2>5 DEF TokenFor
    <3>2. AuthGuard(RoleFor[call.to], TokenFor(f)) = 401
      BY <3>1 DEF AuthGuard
    <3>3. QED
      BY <2>2, <3>2, CodeIs
  <2>6. AuthGuard(RoleFor[c.to], TokenFor(f)) = 200 => Code(call, TokenFor(f)) = 400
    BY <2>2, CodeIs
  <2>7. CASE c.by = "nobody" /\ c.accept = None200
    BY ZenonT(30), <2>3, <2>4, <2>5, <2>7 DEF None200
  <2>8. CASE c.accept = {400} /\ Authorised(suite[f], step[f])
    BY <2>3, <2>4, <2>6, <2>8
  <2>9. QED
    BY <2>1, <2>7, <2>8
<1>3. CASE IsForeign(suite[f], step[f])
  <2>1. CASE c.to = "give_order_to_courier"
    <3>1. c.accept = None200 /\ Reached(suite[f], c.n, step[f]) = 0
      BY <1>1, <1>3, <2>1, AtAStep DEF IsForeign
    <3>2. orders[o] = None
      BY <1>1, <3>1, AtAStep, AtACall DEF OrderAt
    <3>3. call.to = c.to /\ call.order = o /\ call.to \in Changing /\ call.to \in DOMAIN RoleFor
          /\ ~Creates(call)
      BY <2>1, AtACall DEF Changing, Creates
    <3>4. Code(call, TokenFor(f)) \in {401, 403, 404}
      BY <3>2, <3>3, CodeIs
    <3>5. Code(call, TokenFor(f)) # 200 /\ Code(call, TokenFor(f)) \in c.accept
      BY <3>1, <3>4 DEF None200
    <3>6. Process(call, TokenFor(f), FALSE) => UNCHANGED backendVars
      BY <3>5 DEF Process
    <3>7. QED
      BY <3>5, <3>6
  <2>2. CASE c.to # "give_order_to_courier"
    <3>1. c.to = "dishes" /\ c.by = "courier" /\ c.accept = {0, 403}
      BY SMTT(30), <1>1, <1>3, <2>2, AtAStep DEF IsForeign
    <3>2. Process(call, TokenFor(f), FALSE) => UNCHANGED backendVars
      BY <3>1, AtACall DEF Process
    <3>3. TokenFor(f) = TokenOf("courier", f)
      BY <3>1 DEF TokenFor
    <3>4. TokenFor(f) # Empty /\ TokenFor(f).role = "courier"
      BY <3>3, TokensAreNotEmpty DEF TokenOf, Roles
    <3>5. AuthGuard(RoleFor[call.to], TokenFor(f)) = 403
      BY <3>1, <3>4, AtACall DEF AuthGuard, RoleFor
    <3>6. Code(call, TokenFor(f)) = 403
      BY <3>5, AtACall, CodeIs
    <3>7. Code(call, TokenFor(f)) \in c.accept /\ Code(call, TokenFor(f)) # 200
      BY <3>1, <3>6
    <3>8. QED
      BY <3>2, <3>7
  <2>3. QED
    BY <2>1, <2>2
<1>4. QED
  BY <1>2, <1>3

-----------------------------------------------------------------------------
(* What a call may do to the backend.                                      *)

\* What the backend does with a suite's call that it lets in.
LEMMA CallDoes ==
  ASSUME WellFormed, NEW f \in Flows, OnTrack(f), Doing(f, "call"),
         Process(CallOf(f), TokenFor(f), FALSE),
         CallOf(f).to \in Changing, ArgumentOK(CallOf(f)), Code(CallOf(f), TokenFor(f)) = 200
  PROVE  LET o == OrderOf(f, AtStep(f).n)
             call == CallOf(f)
         IN /\ orders[o] \in OrderType /\ UNCHANGED idempotency /\ OrdersTyped'
            /\ \A p \in OrderIds : p # o => orders'[p] = orders[p]
            /\ Turns(orders[o], orders'[o], Actor[RoleFor[AtStep(f).to]], FALSE)
            /\ StageOf(orders'[o]) = StageOf(Handler(call).order)
            /\ orders'[o].courier = Handler(call).order.courier
<1> DEFINE call == CallOf(f)
           o == OrderOf(f, AtStep(f).n)
<1>1. call.to = AtStep(f).to /\ call.order = o /\ call.order \in OrderIds
  BY AtACall
<1>2. orders[o] \in OrderType
  BY <1>1, CallIsLetIn
<1>3. PICK byUser \in BOOLEAN : byUser = FALSE
  OBVIOUS
<1>4. Process(call, TokenFor(f), byUser)
  BY <1>3
<1>5. PICK new : new = After(call, byUser)
  OBVIOUS
<1>6. UNCHANGED idempotency /\ OrdersTyped'
      /\ \A p \in OrderIds : p # call.order => orders'[p] = orders[p]
  BY <1>1, <1>4, CallChanges
<1>7. orders'[o] = new
  BY <1>1, <1>4, <1>5, CallChanges
<1>8. /\ Turns(orders[o], new, Actor[RoleFor[call.to]], byUser)
      /\ StageOf(new) = StageOf(Handler(call).order)
      /\ new.courier = Handler(call).order.courier
  BY <1>1, <1>2, <1>5, AfterIs
<1>9. Turns(orders[o], orders'[o], Actor[RoleFor[AtStep(f).to]], FALSE)
  BY <1>1, <1>3, <1>7, <1>8
<1>10. QED
  BY <1>1, <1>2, <1>6, <1>7, <1>8, <1>9

\* Nothing, or make the order of its step, or bring that order on.
Effect(f) ==
  LET c == AtStep(f)
      o == OrderOf(f, c.n)
      actor == Actor[RoleFor[c.to]]
  IN /\ OrdersTyped' /\ \A p \in OrderIds : p # o => orders'[p] = orders[p]
     /\ \/ UNCHANGED mockVars
        \/ /\ Makes(suite[f], step[f]) /\ orders[o] = None
           /\ orders'[o] = NewOrder(KindOf(suite[f], c.n))
           /\ idempotency' = IF c.key THEN [idempotency EXCEPT ![f] = o] ELSE idempotency
        \/ /\ orders[o] \in OrderType /\ UNCHANGED idempotency
           /\ Turns(orders[o], orders'[o], actor, FALSE)
           /\ ~blind[f] /\ ~orders[o].touched /\ StageOf(orders'[o]) # StageOf(orders[o]) =>
                Protocol!ValidateTransition(orders[o].kind, StageOf(orders[o]),
                                            StageOf(orders'[o]), actor)

LEMMA NewOrderIs ==
  ASSUME NEW kind \in {"RESTAURANT", "INDEPENDENT"}
  PROVE  /\ NewOrder(kind) \in OrderType /\ StageOf(NewOrder(kind)) = "NEW"
         /\ NewOrder(kind).trail = <<[stage |-> "NEW", by |-> "CLIENT"]>>
         /\ NewOrder(kind).kind = kind /\ ~NewOrder(kind).touched
<1>1. [stage |-> "NEW", by |-> "CLIENT"]
         \in [stage : Stages, by : {"CLIENT", "RESTAURANT", "COURIER", "ADMIN"}]
  BY DEF Stages
<1>2. <<[stage |-> "NEW", by |-> "CLIENT"]>>
         \in Seq([stage : Stages, by : {"CLIENT", "RESTAURANT", "COURIER", "ADMIN"}])
  BY <1>1
<1>3. QED
  BY <1>2 DEF NewOrder, OrderType, Statuses, StageOf

\* If the call of the step is let in, it brings the order to a stage that may follow.
IsLegal(f) ==
  LET call == CallOf(f)
      order == orders[OrderOf(f, AtStep(f).n)]
      stage == StageOf(Handler(call).order)
  IN Code(call, TokenFor(f)) = 200 /\ ~blind[f] /\ ~order.touched =>
       \/ stage = StageOf(order)
       \/ Protocol!ValidateTransition(order.kind, StageOf(order), stage,
                                      Actor[RoleFor[AtStep(f).to]])

LEMMA CallEffect ==
  ASSUME WellFormed, NEW f \in Flows, OnTrack(f), Doing(f, "call"),
         Process(CallOf(f), TokenFor(f), FALSE)
  PROVE  Effect(f)
<1> DEFINE c == AtStep(f)
           call == CallOf(f)
           o == OrderOf(f, c.n)
           token == TokenFor(f)
           actor == Actor[RoleFor[c.to]]
<1>1. outcome[f] = "running"
  BY DEF Doing
<1>2. /\ CallKnown(suite[f], step[f]) /\ call.to = c.to /\ call.order = o /\ o \in OrderIds
      /\ c.n \in 1..2 /\ Keys = Flows
  BY AtACall, IdsAre
<1>3. ASSUME UNCHANGED backendVars PROVE Effect(f)
  BY <1>3 DEF backendVars, mockVars, Effect, WellFormed, OrdersTyped
<1>4. CASE Makes(suite[f], step[f])
  <2> DEFINE new == NewOrder(KindOf(suite[f], c.n))
  <2>1. CASE Code(call, token) = 200
    <3>1. /\ orders[o] = None /\ orders' = [orders EXCEPT ![o] = new]
          /\ idempotency' = IF c.key THEN [idempotency EXCEPT ![f] = o] ELSE idempotency
      BY <1>4, <2>1, MakesIt
    <3>2. new \in OrderType
      BY NewOrderIs DEF KindOf
    <3>3. orders \in [OrderIds -> OrderType \cup {None}]
          /\ idempotency \in [Keys -> OrderIds \cup {None}]
      BY DEF WellFormed, OrdersTyped
    <3> HIDE DEF new
    <3>4. /\ orders'[o] = new /\ orders' \in [OrderIds -> OrderType \cup {None}]
          /\ \A p \in OrderIds : p # o => orders'[p] = orders[p]
      BY <1>2, <3>1, <3>2, <3>3
    <3>5. idempotency' \in [Keys -> OrderIds \cup {None}]
      BY <1>2, <3>1, <3>3
    <3>6. QED
      BY <1>4, <3>1, <3>4, <3>5 DEF Effect, OrdersTyped, new
  <2>2. CASE Code(call, token) # 200
    BY <1>3, <1>4, <2>2, MakesIt
  <2>3. QED
    BY <2>1, <2>2
<1>5. ASSUME call.to \in Changing, ArgumentOK(call), IsLegal(f)
      PROVE  Effect(f)
  <2>1. CASE Code(call, token) # 200
    BY <1>3, <2>1 DEF Process
  <2>2. CASE Code(call, token) = 200
    <3>1. /\ orders[o] \in OrderType /\ UNCHANGED idempotency /\ OrdersTyped'
          /\ \A p \in OrderIds : p # o => orders'[p] = orders[p]
          /\ Turns(orders[o], orders'[o], actor, FALSE)
          /\ StageOf(orders'[o]) = StageOf(Handler(call).order)
      <4>1. call.to \in Changing /\ ArgumentOK(call)
        BY <1>5
      <4>2. orders[o] \in OrderType /\ UNCHANGED idempotency /\ OrdersTyped'
        BY <2>2, <4>1, CallDoes
      <4>3. ASSUME NEW p \in OrderIds, p # o PROVE orders'[p] = orders[p]
        <5>1. PICK byUser \in BOOLEAN : byUser = FALSE
          OBVIOUS
        <5>2. Process(call, token, byUser)
          BY <5>1
        <5>3. \A q \in OrderIds : q # call.order => orders'[q] = orders[q]
          BY <1>2, <2>2, <4>1, <4>2, <5>2, CallChanges
        <5>4. QED
          BY <1>2, <4>3, <5>3
      <4>4. /\ Turns(orders[o], orders'[o], actor, FALSE)
            /\ StageOf(orders'[o]) = StageOf(Handler(call).order)
        BY <2>2, <4>1, CallDoes
      <4>5. QED
        BY <4>2, <4>3, <4>4
    <3>2. ~blind[f] /\ ~orders[o].touched /\ StageOf(orders'[o]) # StageOf(orders[o]) =>
             Protocol!ValidateTransition(orders[o].kind, StageOf(orders[o]),
                                         StageOf(orders'[o]), actor)
      BY <1>5, <2>2, <3>1 DEF IsLegal
    <3>3. QED
      BY <3>1, <3>2 DEF Effect
  <2>3. QED
    BY <2>1, <2>2
<1>6. CASE Moves(suite[f], step[f])
  <2> DEFINE k == Reached(suite[f], c.n, step[f])
             path == Path(suite[f], c.n)
  <2>1. /\ orders[o] \in OrderType /\ k \in 1..5 /\ call.to \in Changing /\ ArgumentOK(call)
        /\ ~blind[f] /\ ~orders[o].touched =>
             /\ StageOf(orders[o]) = path[k]
             /\ StageOf(Handler(call).order) = path[k + 1]
    BY <1>6, MovesIt
  <2>2. Protocol!ValidateTransition(KindOf(suite[f], c.n), path[k], path[k + 1], actor)
    BY <1>1, <1>6, AtAStep DEF Moves
  <2>3. orders[o].kind = KindOf(suite[f], c.n)
    BY <1>1, <1>2, <2>1, AtAStep DEF OrderAt
  <2>4. IsLegal(f)
    BY <2>1, <2>2, <2>3 DEF IsLegal
  <2>5. QED
    BY <1>5, <2>1, <2>4
<1>7. CASE Hands(suite[f], step[f])
  <2>1. call.to \in Changing /\ ArgumentOK(call) /\ IsLegal(f)
    BY <1>7, HandsIt DEF IsLegal
  <2>2. QED
    BY <1>5, <2>1
<1>8. CASE Repeats(suite[f], step[f])
  BY <1>3, <1>8, RepeatsIt
<1>9. CASE ComesLate(suite[f], step[f])
  <2>1. /\ call.to \in Changing /\ ArgumentOK(call)
        /\ ~blind[f] /\ ~orders[o].touched => Code(call, token) # 200
    BY <1>9, ComesTooLate
  <2>2. IsLegal(f)
    BY <2>1 DEF IsLegal
  <2>3. QED
    BY <1>5, <2>1, <2>2
<1>10. CASE IsInvalid(suite[f], step[f]) \/ IsForeign(suite[f], step[f])
  BY <1>3, <1>10, IsRefused
<1>11. QED
  BY <1>2, <1>4, <1>6, <1>7, <1>8, <1>9, <1>10 DEF CallKnown

-----------------------------------------------------------------------------
(* Flows that go on.                                                       *)

\* A step more, or the end.
LEMMA AdvanceSteps ==
  ASSUME WellFormed, NEW f \in Flows, OnTrack(f), outcome[f] = "running", Advance(f),
         UNCHANGED suite
  PROVE  /\ outcome'[f] \in {"running", "passed"} /\ PlaceOf(f)' = step[f] + 1
         /\ outcome'[f] = "passed" => step[f] = Len(Scripts[suite[f]])
         /\ outcome' \in [Flows -> {"none", "running", "passed", "failed"}]
         /\ step' \in [Flows -> Nat]
         /\ \A g \in Flows : outcome'[g] = "running" => step'[g] \in DOMAIN Scripts[suite'[g]]
         /\ \A g \in Flows : g # f => outcome'[g] = outcome[g] /\ step'[g] = step[g]
<1>1. /\ suite[f] \in Suites /\ step[f] \in Nat /\ step[f] \in DOMAIN Scripts[suite[f]]
      /\ outcome \in [Flows -> {"none", "running", "passed", "failed"}]
      /\ step \in [Flows -> Nat]
      /\ \A g \in Flows : outcome[g] = "running" => step[g] \in DOMAIN Scripts[suite[g]]
  BY AtAStep DEF WellFormed, FlowsTyped
<1>2. PICK last \in Nat : last = Len(Scripts[suite[f]]) /\ DOMAIN Scripts[suite[f]] = 1..last
  BY <1>1, ScriptShape
<1>3. CASE step[f] = last
  <2>1. outcome' = [outcome EXCEPT ![f] = "passed"] /\ UNCHANGED step
    BY <1>2, <1>3 DEF Advance
  <2>2. PlaceOf(f)' = step[f] + 1
    BY <1>1, <1>2, <1>3, <2>1 DEF PlaceOf
  <2>3. QED
    BY <1>1, <1>2, <1>3, <2>1, <2>2
<1>4. CASE step[f] # last
  <2>1. step' = [step EXCEPT ![f] = step[f] + 1] /\ UNCHANGED outcome
    BY <1>2, <1>4 DEF Advance
  <2>2. step[f] + 1 \in DOMAIN Scripts[suite[f]]
    BY <1>1, <1>2, <1>4
  <2>3. PlaceOf(f)' = step[f] + 1
    BY <1>1, <2>1 DEF PlaceOf
  <2>4. QED
    BY <1>1, <2>1, <2>2, <2>3
<1>5. QED
  BY <1>3, <1>4

\* A flow nothing happens to stays on its track.
LEMMA TrackFrame ==
  ASSUME NEW f \in Flows, OnTrack(f), suite'[f] = suite[f], outcome'[f] = outcome[f],
         step'[f] = step[f], blind'[f] = blind[f], idempotency'[f] = idempotency[f],
         f \in unheard => f \in unheard',
         \A n \in 1..2 : /\ orders'[OrderOf(f, n)] = orders[OrderOf(f, n)]
                         /\ history'[OrderOf(f, n)] = history[OrderOf(f, n)]
  PROVE  OnTrack(f)'
<1>1. PlaceOf(f)' = PlaceOf(f)
  BY DEF PlaceOf
<1>2. ASSUME NEW n \in 1..2, NEW k, OrderAt(f, n, k) PROVE OrderAt(f, n, k)'
  BY <1>2 DEF OrderAt
<1>3. PICK s : s = suite[f]
  OBVIOUS
<1>4. PICK place : place = PlaceOf(f)
  OBVIOUS
<1>5. ASSUME NEW n \in 1..2, OrderAt(f, n, Reached(suite[f], n, PlaceOf(f)))
      PROVE  OrderAt(f, n, Reached(suite[f], n, PlaceOf(f)))'
  <2>1. OrderAt(f, n, Reached(s, n, place))
    BY <1>3, <1>4, <1>5
  <2>2. OrderAt(f, n, Reached(s, n, place))'
    BY <1>2, <2>1
  <2>3. suite'[f] = s /\ PlaceOf(f)' = place
    BY <1>1, <1>3, <1>4
  <2>4. QED
    BY <2>2, <2>3
<1>6. QED
  BY <1>1, <1>5 DEF OnTrack

\* So does one that goes a step on with its orders.
LEMMA GoesOn ==
  ASSUME NEW f \in Flows, NEW s \in Suites, NEW i \in Nat, s = suite[f],
         suite'[f] = s, outcome'[f] \in {"running", "passed"}, PlaceOf(f)' = i + 1,
         \A n \in 1..2 : OrderAt(f, n, Reached(s, n, i + 1))',
         blind'[f] => s = "flow_b" /\ f \in unheard',
         idempotency'[f] = IF s = "idempotency" /\ i + 1 > 3 THEN OrderOf(f, 1) ELSE None,
         s = "courier_reassignment" /\ outcome'[f] = "passed" =>
           orders'[OrderOf(f, 1)].touched \/ orders'[OrderOf(f, 1)].courier = CourierOf(f, 2)
  PROVE  OnTrack(f)'
<1>1. \A n \in 1..2 : OrderAt(f, n, Reached(suite[f], n, PlaceOf(f)))'
  <2> SUFFICES ASSUME NEW n \in 1..2 PROVE OrderAt(f, n, Reached(suite[f], n, PlaceOf(f)))'
    OBVIOUS
  <2>1. OrderAt(f, n, Reached(s, n, i + 1))'
    OBVIOUS
  <2>2. QED
    BY <2>1
<1>2. QED
  BY <1>1 DEF OnTrack

LEMMA OrderStays ==
  ASSUME NEW f \in Flows, NEW n \in 1..2, NEW k, OrderAt(f, n, k), suite'[f] = suite[f],
         blind'[f] = blind[f], orders'[OrderOf(f, n)] = orders[OrderOf(f, n)],
         history'[OrderOf(f, n)] = history[OrderOf(f, n)]
  PROVE  OrderAt(f, n, k)'
  BY DEF OrderAt

\* An order that is not there, like its history, is the same whatever the flow sees.
LEMMA NoOrderStays ==
  ASSUME NEW f \in Flows, NEW n \in 1..2, OrderAt(f, n, 0), suite'[f] = suite[f],
         orders'[OrderOf(f, n)] = orders[OrderOf(f, n)],
         history'[OrderOf(f, n)] = history[OrderOf(f, n)]
  PROVE  OrderAt(f, n, 0)'
  BY DEF OrderAt

\* A flow that has failed keeps its suite.
LEMMA FailedIsOnTrack ==
  ASSUME NEW f \in Flows, OnTrack(f), suite'[f] = suite[f], outcome[f] = "running",
         outcome'[f] = "failed", blind'[f] = blind[f], f \in unheard => f \in unheard'
  PROVE  OnTrack(f)'
  BY DEF OnTrack

-----------------------------------------------------------------------------
(* Calls that the suite is content with.                                   *)

\* The suite has the backend's answer, or none: then the backend may have had the call.
Answered(f, code) ==
  \/ code = Code(CallOf(f), TokenFor(f)) /\ Process(CallOf(f), TokenFor(f), FALSE)
  \/ code = 0 /\ (UNCHANGED mockVars \/ Process(CallOf(f), TokenFor(f), FALSE))

CallStep(f, code) ==
  /\ Doing(f, "call") /\ Answered(f, code) /\ GoOn(f, CallOf(f), code)
  /\ UNCHANGED <<sessionVars, suite, own, blind, worker>> /\ unheard \subseteq unheard'

LEMMA PathGrows ==
  ASSUME NEW S, NEW seq \in Seq(S), NEW e \in S, NEW k \in Nat, NEW path,
         Len(seq) = k, \A j \in 1..k : seq[j] = path[j], e = path[k + 1]
  PROVE  /\ Len(Append(seq, e)) = k + 1
         /\ \A j \in 1..(k + 1) : Append(seq, e)[j] = path[j]
  BY AppendProperties

LEMMA TrailGrows ==
  ASSUME NEW S, NEW seq \in Seq(S), NEW e \in S, NEW k \in Nat, NEW path,
         Len(seq) = k, \A j \in 1..k : seq[j].stage = path[j], e.stage = path[k + 1]
  PROVE  /\ Len(Append(seq, e)) = k + 1
         /\ \A j \in 1..(k + 1) : Append(seq, e)[j].stage = path[j]
  BY AppendProperties

\* What a step records is a stage.
LEMMA StagesRecorded ==
  ASSUME WellFormed, NEW f \in Flows, OnTrack(f), Doing(f, "call")
  PROVE  AtStep(f).stage \in Stages \cup {None}
<1> DEFINE c == AtStep(f)
<1>1. outcome[f] = "running"
  BY DEF Doing
<1>2. CallKnown(suite[f], step[f]) /\ c = Scripts[suite[f]][step[f]]
  BY <1>1, AtAStep, AtACall
<1>3. CASE Makes(suite[f], step[f])
  BY <1>2, <1>3 DEF Makes, Stages
<1>4. CASE Moves(suite[f], step[f])
  <2> DEFINE next == Path(suite[f], c.n)[Reached(suite[f], c.n, step[f]) + 1]
             now == Path(suite[f], c.n)[Reached(suite[f], c.n, step[f])]
  <2>1. Brings(c.to, c.with, now, next) /\ (c.stage = None \/ c.stage = next)
    BY <1>2, <1>4 DEF Moves
  <2> HIDE DEF next, now
  <2>2. next \in Stages
    BY <2>1 DEF Brings, Stages
  <2>3. QED
    BY <2>1, <2>2
<1>5. CASE c.stage = None
  BY <1>5
<1>6. QED
  BY <1>2, <1>3, <1>4, <1>5 DEF CallKnown, Hands, Repeats, ComesLate, IsInvalid, IsForeign

\* An accepted call is recorded at its order, if at all.
LEMMA AcceptedIsRecorded ==
  ASSUME WellFormed, NEW f \in Flows, OnTrack(f), Doing(f, "call"), NEW code,
         GoOn(f, CallOf(f), code), Accepts(f, CallOf(f), code)
  PROVE  LET c == AtStep(f)
             o == OrderOf(f, c.n)
         IN /\ Advance(f) /\ history' \in [OrderIds -> Seq(Stages)]
            /\ code \in c.accept
            /\ \A p \in OrderIds : p # o => history'[p] = history[p]
            /\ c.stage = None => history'[o] = history[o]
            /\ c.stage # None => history'[o] = Append(history[o], c.stage)
<1> DEFINE c == AtStep(f)
           o == OrderOf(f, c.n)
<1>1. Advance(f) /\ code \in c.accept
      /\ history' = IF c.stage = None THEN history
                    ELSE [history EXCEPT ![CallOf(f).order] = Append(@, c.stage)]
  BY DEF GoOn, Record, Accepts
<1>2. CallOf(f).order = o /\ o \in OrderIds /\ history \in [OrderIds -> Seq(Stages)]
  BY AtACall DEF WellFormed, FlowsTyped
<1>3. CASE c.stage = None
  BY <1>1, <1>2, <1>3
<1>4. CASE c.stage # None
  <2>1. c.stage \in Stages /\ history[o] \in Seq(Stages)
    BY <1>2, <1>4, StagesRecorded
  <2>2. Append(history[o], c.stage) \in Seq(Stages)
    BY <2>1, AppendProperties
  <2>3. history' = [history EXCEPT ![o] = Append(history[o], c.stage)]
    BY <1>1, <1>2, <1>4
  <2>4. QED
    BY <1>1, <1>2, <1>4, <2>2, <2>3
<1>5. QED
  BY <1>3, <1>4

\* Calls that make their order: it is there afterwards, under its key if it has one.
LEMMA AcceptedMakes ==
  ASSUME WellFormed, NEW f \in Flows, OnTrack(f), NEW code, CallStep(f, code),
         Accepts(f, CallOf(f), code), Makes(suite[f], step[f]),
         NEW c, c = AtStep(f), NEW i \in Nat, i = step[f], NEW s, s = suite[f]
  PROVE  /\ OrderAt(f, c.n, Reached(s, c.n, i + 1))'
         /\ idempotency'[f] = IF s = "idempotency" /\ i + 1 > 3 THEN OrderOf(f, 1) ELSE None
<1> USE DEF CallStep
<1>1. outcome[f] = "running"
  BY DEF Doing
<1>2. PICK o : o = OrderOf(f, c.n)
  OBVIOUS
<1>3. /\ c.accept = {200} /\ (c.key = TRUE <=> s = "idempotency" /\ i = 3)
      /\ (c.key => c.n = 1) /\ (s = "idempotency" /\ ~c.key => i > 3)
      /\ Reached(s, c.n, i) = 0 /\ Reached(s, c.n, i + 1) = 1 /\ Path(s, c.n)[1] = "NEW"
      /\ (s \in {"flow_a", "flow_b"} => c.stage = "NEW")
  BY <1>1, AtAStep DEF Makes
<1>4. c.n \in 1..2 /\ o \in OrderIds /\ c.key \in BOOLEAN /\ Keys = Flows
  <2>1. CallKnown(suite[f], step[f]) /\ c.n \in 1..2 /\ o \in OrderIds
    BY <1>2, AtACall
  <2>2. QED
    BY <1>1, <2>1, AtAStep, IdsAre DEF CallKnown
<1>5. code = 200 /\ Code(CallOf(f), TokenFor(f)) = 200 /\ Process(CallOf(f), TokenFor(f), FALSE)
  <2>1. code = 200
    BY <1>3, AcceptedIsRecorded
  <2>2. code # 0
    BY <2>1
  <2>3. code = Code(CallOf(f), TokenFor(f)) /\ Process(CallOf(f), TokenFor(f), FALSE)
    BY <2>2, Zenon DEF Answered
  <2>4. QED
    BY <2>1, <2>3
<1>6. /\ orders' = [orders EXCEPT ![o] = NewOrder(KindOf(s, c.n))]
      /\ idempotency' = IF c.key THEN [idempotency EXCEPT ![f] = o] ELSE idempotency
  BY <1>2, <1>5, MakesIt
<1>7. orders'[o] = NewOrder(KindOf(s, c.n))
  BY <1>4, <1>6 DEF WellFormed, OrdersTyped
<1>8. s \in {"flow_a", "flow_b"} =>
         Len(history'[o]) = 1 /\ \A j \in 1..1 : history'[o][j] = Path(s, c.n)[j]
  <2> SUFFICES ASSUME s \in {"flow_a", "flow_b"}
               PROVE  Len(history'[o]) = 1 /\ \A j \in 1..1 : history'[o][j] = Path(s, c.n)[j]
    OBVIOUS
  <2>1. Len(history[o]) = 0 /\ history[o] \in Seq(Stages)
    BY <1>1, <1>2, <1>3, <1>4, AtAStep DEF OrderAt, WellFormed, FlowsTyped
  <2>2. "NEW" \in Stages /\ "NEW" # None
    BY AbsenceAssumption DEF Stages
  <2>3. history'[o] = Append(history[o], "NEW")
    BY <1>2, <1>3, <2>2, AcceptedIsRecorded
  <2>4. QED
    BY <1>3, <2>1, <2>2, <2>3, AppendProperties
<1>9. OrderAt(f, c.n, 1)'
  <2>1. /\ orders'[o] # None /\ orders'[o].kind = KindOf(s, c.n) /\ StageOf(orders'[o]) = "NEW"
        /\ orders'[o].trail = <<[stage |-> "NEW", by |-> "CLIENT"]>>
    BY <1>7, NewOrderIs, AbsenceAssumption DEF KindOf
  <2>2. /\ Len(orders'[o].trail) = 1
        /\ \A j \in 1..1 : orders'[o].trail[j].stage = Path(s, c.n)[j]
    BY <1>3, <2>1
  <2>3. suite'[f] = s
    OBVIOUS
  <2>4. QED
    BY <1>2, <1>3, <1>8, <2>1, <2>2, <2>3 DEF OrderAt
<1>10. idempotency'[f] = IF s = "idempotency" /\ i + 1 > 3 THEN OrderOf(f, 1) ELSE None
  <2>1. CASE c.key
    <3>1. idempotency'[f] = o
      BY <1>4, <1>6, <2>1 DEF WellFormed, OrdersTyped
    <3>2. QED
      BY <1>2, <1>3, <1>4, <2>1, <3>1
  <2>2. CASE ~c.key
    <3>1. idempotency'[f] = idempotency[f] /\ (s = "idempotency" => i > 3)
      BY <1>3, <1>6, <2>2
    <3>2. QED
      BY <1>1, <3>1, AtAStep
  <2>3. QED
    BY <1>4, <2>1, <2>2
<1>11. QED
  BY <1>3, <1>9, <1>10

\* Calls that move their order on: it goes a stage further, and so does its history.
LEMMA AcceptedMoves ==
  ASSUME WellFormed, NEW f \in Flows, OnTrack(f), NEW code, CallStep(f, code),
         Accepts(f, CallOf(f), code), Moves(suite[f], step[f]),
         NEW c, c = AtStep(f), NEW i \in Nat, i = step[f], NEW s, s = suite[f]
  PROVE  OrderAt(f, c.n, Reached(s, c.n, i + 1))' /\ UNCHANGED idempotency
<1> USE DEF CallStep
<1>1. outcome[f] = "running"
  BY DEF Doing
<1>2. PICK o : o = OrderOf(f, c.n)
  OBVIOUS
<1>3. PICK k : k = Reached(s, c.n, i)
  OBVIOUS
<1>4. PICK path : path = Path(s, c.n)
  OBVIOUS
<1>5. /\ c.accept = {200} /\ k \in 1..5 /\ Reached(s, c.n, i + 1) = k + 1
      /\ Brings(c.to, c.with, path[k], path[k + 1])
      /\ (s \in {"flow_a", "flow_b"} => c.stage = path[k + 1])
  BY <1>1, <1>3, <1>4, AtAStep DEF Moves
<1>6. c.n \in 1..2 /\ o \in OrderIds
  BY <1>2, AtACall
<1>7. code = 200 /\ Code(CallOf(f), TokenFor(f)) = 200 /\ Process(CallOf(f), TokenFor(f), FALSE)
  <2>1. code = 200
    BY <1>5, AcceptedIsRecorded
  <2>2. code # 0
    BY <2>1
  <2>3. code = Code(CallOf(f), TokenFor(f)) /\ Process(CallOf(f), TokenFor(f), FALSE)
    BY <2>2, Zenon DEF Answered
  <2>4. QED
    BY <2>1, <2>3
<1>8. OrderAt(f, c.n, k)
  BY <1>1, <1>3, <1>6, AtAStep
<1>9. /\ CallOf(f).to \in Changing /\ ArgumentOK(CallOf(f)) /\ orders[o] \in OrderType
      /\ ~blind[f] /\ ~orders[o].touched =>
           /\ StageOf(orders[o]) = path[k]
           /\ StageOf(Handler(CallOf(f)).order) = path[k + 1]
  BY <1>2, <1>3, <1>4, MovesIt
<1>10. PICK actor : actor = Actor[RoleFor[c.to]]
  OBVIOUS
<1>11. /\ UNCHANGED idempotency /\ OrdersTyped'
       /\ Turns(orders[o], orders'[o], actor, FALSE)
       /\ StageOf(orders'[o]) = StageOf(Handler(CallOf(f)).order)
  BY <1>2, <1>7, <1>9, <1>10, CallDoes
<1>12. path[k] # path[k + 1] /\ path[k + 1] \in Stages
  BY <1>5 DEF Brings, Stages
<1>13. orders'[o] # None /\ orders'[o].kind = KindOf(s, c.n)
  BY <1>2, <1>5, <1>8, <1>11, AbsenceAssumption DEF Turns, OrderAt
<1>14. ASSUME ~blind'[f], ~orders'[o].touched
       PROVE  /\ Len(orders'[o].trail) = k + 1 /\ StageOf(orders'[o]) = path[k + 1]
              /\ \A j \in 1..(k + 1) : orders'[o].trail[j].stage = path[j]
  <2>1. ~blind[f] /\ ~orders[o].touched
    BY <1>11, <1>14 DEF Turns
  <2>2. StageOf(orders'[o]) = path[k + 1] /\ StageOf(orders[o]) = path[k]
    BY <1>9, <1>11, <2>1
  <2>3. orders'[o].trail = Append(orders[o].trail, [stage |-> path[k + 1], by |-> actor])
    BY <1>11, <1>12, <1>14, <2>1, <2>2 DEF Turns
  <2>4. Len(orders[o].trail) = k /\ \A j \in 1..k : orders[o].trail[j].stage = path[j]
    BY <1>2, <1>4, <1>5, <1>8, <2>1 DEF OrderAt
  <2>5. [stage |-> path[k + 1], by |-> actor]
           \in [stage : Stages, by : {"CLIENT", "RESTAURANT", "COURIER", "ADMIN"}]
    BY <1>5, <1>10, <1>12 DEF Brings, RoleFor, Actor
  <2>6. orders[o].trail \in Seq([stage : Stages, by : {"CLIENT", "RESTAURANT", "COURIER", "ADMIN"}])
    BY <1>9 DEF OrderType
  <2>7. PICK e : e = [stage |-> path[k + 1], by |-> actor]
    OBVIOUS
  <2>8. Len(Append(orders[o].trail, e)) = k + 1
        /\ \A j \in 1..(k + 1) : Append(orders[o].trail, e)[j].stage = path[j]
    BY <1>5, <2>4, <2>5, <2>6, <2>7, TrailGrows
  <2>9. QED
    BY <2>2, <2>3, <2>7, <2>8
<1>15. ASSUME s \in {"flow_a", "flow_b"}
       PROVE  /\ Len(history'[o]) = k + 1
              /\ \A j \in 1..(k + 1) : history'[o][j] = path[j]
  <2>1. Len(history[o]) = k /\ \A j \in 1..k : history[o][j] = path[j]
    BY <1>2, <1>4, <1>8, <1>15 DEF OrderAt
  <2>2. history[o] \in Seq(Stages)
    BY <1>6 DEF WellFormed, FlowsTyped
  <2>3. c.stage = path[k + 1] /\ c.stage # None
    BY <1>5, <1>12, <1>15, AbsenceAssumption
  <2>4. history'[o] = Append(history[o], path[k + 1])
    BY <1>2, <2>3, AcceptedIsRecorded
  <2>5. QED
    BY <1>5, <1>12, <2>1, <2>2, <2>4, PathGrows
<1>16. OrderAt(f, c.n, k + 1)'
  <2>1. suite'[f] = s /\ k + 1 # 0
    BY <1>5
  <2>2. QED
    BY <1>2, <1>4, <1>13, <1>14, <1>15, <2>1 DEF OrderAt
<1>17. QED
  BY <1>5, <1>11, <1>16

\* Calls that hand an order over: it stays where it is.
LEMMA AcceptedHands ==
  ASSUME WellFormed, NEW f \in Flows, OnTrack(f), NEW code, CallStep(f, code),
         Accepts(f, CallOf(f), code), Hands(suite[f], step[f]),
         NEW c, c = AtStep(f), NEW i \in Nat, i = step[f], NEW s, s = suite[f]
  PROVE  /\ OrderAt(f, c.n, Reached(s, c.n, i + 1))' /\ UNCHANGED idempotency
         /\ c.to = "give_order_to_courier" /\ ~blind[f] =>
              orders'[OrderOf(f, c.n)].courier = CourierOf(f, c.with)
<1> USE DEF CallStep
<1>1. outcome[f] = "running"
  BY DEF Doing
<1>2. PICK o : o = OrderOf(f, c.n)
  OBVIOUS
<1>3. PICK k : k = Reached(s, c.n, i)
  OBVIOUS
<1>4. /\ c.to = "give_order_to_courier" => c.accept = {200}
      /\ k \in 1..4 /\ Reached(s, c.n, i + 1) = k /\ c.stage = None
  BY SMTT(30), <1>1, <1>3, AtAStep DEF Hands, SameReached
<1>5. c.n \in 1..2 /\ o \in OrderIds
  BY <1>2, AtACall
<1>6. OrderAt(f, c.n, k)
  BY <1>1, <1>3, <1>5, AtAStep
<1>7. /\ CallOf(f).to \in Changing /\ ArgumentOK(CallOf(f)) /\ orders[o] \in OrderType
      /\ ~blind[f] /\ ~orders[o].touched =>
           StageOf(Handler(CallOf(f)).order) = StageOf(orders[o])
      /\ Code(CallOf(f), TokenFor(f)) = 200 =>
           Handler(CallOf(f)).order.courier = CallOf(f).with
  BY <1>2, HandsIt
<1>8. history'[o] = history[o] /\ suite'[f] = s /\ blind'[f] = blind[f]
  BY <1>2, <1>4, AcceptedIsRecorded
<1>9. CASE UNCHANGED mockVars /\ c.to # "give_order_to_courier"
  BY <1>2, <1>4, <1>5, <1>6, <1>8, <1>9, OrderStays DEF mockVars
<1>10. CASE /\ Process(CallOf(f), TokenFor(f), FALSE)
            /\ Code(CallOf(f), TokenFor(f)) = 200
  <2>1. /\ UNCHANGED idempotency
        /\ Turns(orders[o], orders'[o], Actor[RoleFor[c.to]], FALSE)
        /\ StageOf(orders'[o]) = StageOf(Handler(CallOf(f)).order)
        /\ orders'[o].courier = Handler(CallOf(f)).order.courier
    BY <1>2, <1>7, <1>10, CallDoes
  <2>2. orders'[o] # None /\ orders'[o].kind = orders[o].kind
    BY <2>1, AbsenceAssumption DEF Turns
  <2>3. ASSUME ~blind[f], ~orders'[o].touched
        PROVE  /\ ~orders[o].touched /\ orders'[o].trail = orders[o].trail
               /\ StageOf(orders'[o]) = StageOf(orders[o])
    BY <1>7, <2>1, <2>3 DEF Turns
  <2>4. OrderAt(f, c.n, k)'
    BY <1>2, <1>4, <1>6, <1>8, <2>2, <2>3 DEF OrderAt
  <2>5. c.to = "give_order_to_courier" /\ ~blind[f] => orders'[o].courier = CourierOf(f, c.with)
    BY <1>7, <1>10, <2>1, AtACall
  <2>6. QED
    BY <1>2, <1>4, <2>1, <2>4, <2>5
<1>11. CASE c.to = "give_order_to_courier"
  <2>1. code = 200
    BY <1>4, <1>11, AcceptedIsRecorded
  <2>2. code # 0
    BY <2>1
  <2>3. code = Code(CallOf(f), TokenFor(f)) /\ Process(CallOf(f), TokenFor(f), FALSE)
    BY <2>2, Zenon DEF Answered
  <2>4. QED
    BY <1>10, <2>1, <2>3
<1>12. CASE /\ Process(CallOf(f), TokenFor(f), FALSE) /\ c.to # "give_order_to_courier"
            /\ Code(CallOf(f), TokenFor(f)) # 200
  <2>1. UNCHANGED mockVars
    BY <1>12 DEF Process, backendVars, mockVars
  <2>2. QED
    BY <1>9, <1>12, <2>1
<1>13. UNCHANGED mockVars \/ Process(CallOf(f), TokenFor(f), FALSE)
  BY Zenon DEF Answered
<1>14. QED
  BY <1>9, <1>10, <1>11, <1>12, <1>13

\* Calls that are answered from memory, or refused as they should be: nothing changes.
LEMMA AcceptedOthers ==
  ASSUME WellFormed, NEW f \in Flows, OnTrack(f), NEW code, CallStep(f, code),
         Accepts(f, CallOf(f), code),
         \/ Repeats(suite[f], step[f]) \/ ComesLate(suite[f], step[f])
         \/ IsInvalid(suite[f], step[f]) \/ IsForeign(suite[f], step[f]),
         NEW c, c = AtStep(f), NEW i \in Nat, i = step[f], NEW s, s = suite[f]
  PROVE  OrderAt(f, c.n, Reached(s, c.n, i + 1))' /\ UNCHANGED mockVars
<1> USE DEF CallStep
<1>1. outcome[f] = "running"
  BY DEF Doing
<1>2. PICK k : k = Reached(s, c.n, i)
  OBVIOUS
<1>3. Reached(s, c.n, i + 1) = k /\ c.stage = None /\ c.n \in 1..2 /\ OrderOf(f, c.n) \in OrderIds
  <2>1. c.n \in 1..2 /\ OrderOf(f, c.n) \in OrderIds
    BY AtACall
  <2>2. SameReached(s, c.n, i) /\ c.stage = None
    BY ZenonT(30), <1>1, AtAStep DEF Repeats, ComesLate, IsInvalid, IsForeign
  <2>3. QED
    BY <1>2, <2>1, <2>2 DEF SameReached
<1>4. UNCHANGED mockVars \/ Process(CallOf(f), TokenFor(f), FALSE)
  BY Zenon DEF Answered
<1>5. UNCHANGED backendVars => UNCHANGED mockVars
  BY DEF backendVars, mockVars
<1>6. UNCHANGED mockVars
  <2>1. CASE Repeats(suite[f], step[f])
    BY <1>4, <1>5, <2>1, RepeatsIt
  <2>2. CASE ComesLate(suite[f], step[f])
    <3>1. c.accept = {403}
      BY <1>1, <2>2, AtAStep DEF ComesLate
    <3>2. code = 403
      BY <3>1, AcceptedIsRecorded
    <3>3. code # 0 /\ code # 200
      BY <3>2
    <3>4. Code(CallOf(f), TokenFor(f)) # 200 /\ Process(CallOf(f), TokenFor(f), FALSE)
      BY <3>3, Zenon DEF Answered
    <3>5. QED
      BY <1>5, <3>4 DEF Process
  <2>3. CASE IsInvalid(suite[f], step[f]) \/ IsForeign(suite[f], step[f])
    BY <1>4, <1>5, <2>3, IsRefused
  <2>4. QED
    BY <2>1, <2>2, <2>3
<1>7. OrderAt(f, c.n, k)
  BY <1>1, <1>2, <1>3, AtAStep
<1>8. history'[OrderOf(f, c.n)] = history[OrderOf(f, c.n)]
  BY <1>3, AcceptedIsRecorded
<1>9. suite'[f] = suite[f] /\ blind'[f] = blind[f]
      /\ orders'[OrderOf(f, c.n)] = orders[OrderOf(f, c.n)]
  BY <1>6 DEF mockVars
<1>10. OrderAt(f, c.n, k)'
  BY <1>3, <1>7, <1>8, <1>9, OrderStays
<1>11. QED
  BY <1>3, <1>6, <1>10

\* The reassignment suite ends with the second courier.
LEMMA LastHands ==
  /\ Hands("courier_reassignment", 8)
  /\ Scripts["courier_reassignment"][8].to = "give_order_to_courier"
  /\ Scripts["courier_reassignment"][8].n = 1 /\ Scripts["courier_reassignment"][8].with = 2
<1>1. Scripts["courier_reassignment"][8] = Call("give_order_to_courier", 1, 2, {200})
  BY CourierReassignmentEntries
<1>2. StepKnown("courier_reassignment", 8)
  BY CourierReassignmentKnown
<1>3. CallKnown("courier_reassignment", 8)
  BY <1>1, <1>2 DEF StepKnown, FixtureKnown, AdoptKnown, ParallelKnown, Call
<1>4. Reached("courier_reassignment", 1, 8) = 2 /\ Path("courier_reassignment", 1)[2] = "COURIER_ASSIGNED"
  BY DEF Reached, Path
<1>5. QED
  BY <1>1, <1>3, <1>4
     DEF CallKnown, Makes, Moves, Brings, Repeats, ComesLate, IsInvalid, IsForeign, Call, KindOf

\* A call, heard or lost, keeps its flow on its track.
LEMMA CallKeepsTrack ==
  ASSUME WellFormed, NEW f \in Flows, OnTrack(f), NEW code, CallStep(f, code)
  PROVE  OnTrack(f)'
<1> USE DEF CallStep
<1>1. outcome[f] = "running" /\ suite'[f] = suite[f] /\ blind'[f] = blind[f]
      /\ (f \in unheard => f \in unheard')
  BY DEF Doing
<1>2. PICK c : c = AtStep(f)
  OBVIOUS
<1>3. PICK s \in Suites : s = suite[f]
  BY <1>1, AtAStep
<1>4. PICK i \in Nat : i = step[f]
  BY <1>1, AtAStep
<1>5. PICK o : o = OrderOf(f, c.n)
  OBVIOUS
<1>6. /\ CallKnown(s, i) /\ c = Scripts[s][i] /\ c.n \in 1..2 /\ o \in OrderIds
      /\ \A n \in 1..2 : OrderAt(f, n, Reached(s, n, i))
      /\ idempotency[f] = IF s = "idempotency" /\ i > 3 THEN OrderOf(f, 1) ELSE None
  BY <1>1, <1>2, <1>3, <1>4, <1>5, AtAStep, AtACall
<1>7. CASE ~Accepts(f, CallOf(f), code)
  <2>1. outcome' = [outcome EXCEPT ![f] = "failed"]
    BY <1>7 DEF GoOn, Fail
  <2>2. outcome'[f] = "failed"
    BY <2>1 DEF WellFormed, FlowsTyped
  <2>3. QED
    BY <1>1, <2>2, FailedIsOnTrack
<1>8. CASE Accepts(f, CallOf(f), code)
  <2>1. /\ Advance(f) /\ \A p \in OrderIds : p # o => history'[p] = history[p]
    BY <1>2, <1>5, <1>8, AcceptedIsRecorded
  <2>2. /\ outcome'[f] \in {"running", "passed"} /\ PlaceOf(f)' = i + 1
        /\ outcome'[f] = "passed" => i = Len(Scripts[s])
    BY <1>1, <1>3, <1>4, <2>1, AdvanceSteps
  <2>3. Process(CallOf(f), TokenFor(f), FALSE) => Effect(f)
    BY CallEffect
  <2>4. UNCHANGED mockVars \/ Process(CallOf(f), TokenFor(f), FALSE)
    BY Zenon DEF Answered
  <2>5. \A p \in OrderIds : p # o => orders'[p] = orders[p]
    <3>1. CASE UNCHANGED mockVars
      BY <3>1 DEF mockVars
    <3>2. CASE Effect(f)
      BY <1>2, <1>5, <3>2 DEF Effect
    <3>3. QED
      BY <2>3, <2>4, <3>1, <3>2
  <2>6. ASSUME NEW n \in 1..2, n # c.n PROVE OrderAt(f, n, Reached(s, n, i + 1))'
    <3>1. Reached(s, n, i + 1) = Reached(s, n, i)
      BY <1>2, <1>6, <2>6 DEF CallKnown, SameReached
    <3>2. OrderOf(f, n) \in OrderIds /\ OrderOf(f, n) # o
      BY <1>5, <2>6, IdsAre
    <3>3. PICK k : k = Reached(s, n, i)
      OBVIOUS
    <3>4. OrderAt(f, n, k)
      BY <1>6, <3>3
    <3>5. OrderAt(f, n, k)'
      BY <1>1, <2>1, <2>5, <3>2, <3>4, OrderStays
    <3>6. QED
      BY <3>1, <3>3, <3>5
  <2>7. /\ OrderAt(f, c.n, Reached(s, c.n, i + 1))'
        /\ idempotency'[f] = IF s = "idempotency" /\ i + 1 > 3 THEN OrderOf(f, 1) ELSE None
    <3>1. CASE Makes(s, i)
      BY <1>2, <1>3, <1>4, <1>8, <3>1, AcceptedMakes
    <3>2. ~(s = "idempotency" /\ i = 3) \/ Makes(s, i)
      BY <1>6 DEF CallKnown
    <3>3. ASSUME OrderAt(f, c.n, Reached(s, c.n, i + 1))', UNCHANGED idempotency, ~Makes(s, i)
          PROVE  idempotency'[f] = IF s = "idempotency" /\ i + 1 > 3 THEN OrderOf(f, 1) ELSE None
      BY <1>6, <3>2, <3>3
    <3>4. CASE Moves(s, i)
      BY <1>2, <1>3, <1>4, <1>8, <3>1, <3>3, <3>4, AcceptedMoves
    <3>5. CASE Hands(s, i)
      BY <1>2, <1>3, <1>4, <1>8, <3>1, <3>3, <3>5, AcceptedHands
    <3>6. CASE Repeats(s, i) \/ ComesLate(s, i) \/ IsInvalid(s, i) \/ IsForeign(s, i)
      BY <1>2, <1>3, <1>4, <1>8, <3>1, <3>3, <3>6, AcceptedOthers DEF mockVars
    <3>7. QED
      BY <1>6, <3>1, <3>4, <3>5, <3>6 DEF CallKnown
  <2>8. ASSUME s = "courier_reassignment", outcome'[f] = "passed"
        PROVE  orders'[OrderOf(f, 1)].courier = CourierOf(f, 2)
    <3>1. i = 8
      BY <2>2, <2>8, CourierReassignmentEntries
    <3>2. Hands(s, i) /\ c.to = "give_order_to_courier" /\ c.n = 1 /\ c.with = 2
      BY <1>6, <2>8, <3>1, LastHands
    <3>3. ~blind[f]
      BY <1>3, <2>8 DEF OnTrack
    <3>4. QED
      BY <1>2, <1>3, <1>4, <1>8, <3>2, <3>3, AcceptedHands
  <2>9. blind'[f] => s = "flow_b" /\ f \in unheard'
    BY <1>1, <1>3 DEF OnTrack
  <2>10. \A n \in 1..2 : OrderAt(f, n, Reached(s, n, i + 1))'
    <3>1. TAKE n \in 1..2
    <3>2. CASE n = c.n
      BY <2>7, <3>2
    <3>3. QED
      BY <2>6, <3>2
  <2>11. QED
    BY <1>1, <1>3, <2>2, <2>7, <2>8, <2>9, <2>10, GoesOn
<1>9. QED
  BY <1>7, <1>8

-----------------------------------------------------------------------------
(* Each action keeps the model well formed and every flow on its track.    *)

\* What a step of one flow leaves alone.
OthersAlone(f) ==
  \A g \in Flows : g # f =>
    /\ suite'[g] = suite[g] /\ outcome'[g] = outcome[g] /\ step'[g] = step[g]
    /\ blind'[g] = blind[g] /\ idempotency'[g] = idempotency[g]
    /\ g \in unheard => g \in unheard'
    /\ \A n \in 1..2 : /\ orders'[OrderOf(g, n)] = orders[OrderOf(g, n)]
                       /\ history'[OrderOf(g, n)] = history[OrderOf(g, n)]

LEMMA OneMoves ==
  ASSUME Tracks, NEW f \in Flows, OnTrack(f)', OthersAlone(f)
  PROVE  Tracks'
<1> SUFFICES ASSUME NEW g \in Flows PROVE OnTrack(g)'
  BY DEF Tracks
<1>1. CASE g = f
  BY <1>1
<1>2. CASE g # f
  <2>1. OnTrack(g)
    BY DEF Tracks
  <2>2. QED
    BY <1>2, <2>1, TrackFrame DEF OthersAlone
<1>3. QED
  BY <1>1, <1>2

LEMMA StartKeeps ==
  ASSUME WellFormed, Tracks, NEW f \in Flows, NEW s \in Suites, Start(f, s)
  PROVE  WellFormed' /\ Tracks'
<1>1. /\ outcome[f] = "none" /\ suite' = [suite EXCEPT ![f] = s]
      /\ outcome' = [outcome EXCEPT ![f] = "running"]
      /\ UNCHANGED <<orders, idempotency, pool, active, step, own, blind, worker, history,
                     unheard, lost, emptied, meddled, manual>>
  BY DEF Start, mockVars, sessionVars, ghosts, losses
<1>2. /\ OnTrack(f) /\ OrdersTyped /\ SessionTypeOK /\ FlowsTyped /\ GhostsTyped
  BY DEF Tracks, WellFormed
<1>3. suite'[f] = s /\ outcome'[f] = "running"
  BY <1>1, <1>2 DEF FlowsTyped
<1>4. /\ step[f] = 1 /\ ~blind[f] /\ idempotency[f] = None
      /\ \A n \in 1..2 : orders[OrderOf(f, n)] = None /\ history[OrderOf(f, n)] = <<>>
  BY <1>1, <1>2 DEF OnTrack
<1>5. 1 \in DOMAIN Scripts[s]
  BY ScriptShape
<1>6. WellFormed'
  <2>1. OrdersTyped' /\ SessionTypeOK' /\ GhostsTyped'
    BY <1>1, <1>2 DEF OrdersTyped, SessionTypeOK, GhostsTyped
  <2>2. FlowsTyped'
    <3>1. ASSUME NEW g \in Flows, outcome'[g] = "running"
          PROVE  step'[g] \in DOMAIN Scripts[suite'[g]]
      <4>1. CASE g = f
        BY <1>1, <1>3, <1>4, <1>5, <4>1
      <4>2. CASE g # f
        BY <1>1, <1>2, <3>1, <4>2 DEF FlowsTyped
      <4>3. QED
        BY <4>1, <4>2
    <3>2. QED
      BY <1>1, <1>2, <3>1 DEF FlowsTyped
  <2>3. QED
    BY <2>1, <2>2 DEF WellFormed
<1>7. OnTrack(f)'
  <2>1. PlaceOf(f)' = 1
    BY <1>1, <1>3, <1>4 DEF PlaceOf
  <2>2. ASSUME NEW n \in 1..2 PROVE OrderAt(f, n, 0)'
    BY <1>1, <1>4 DEF OrderAt
  <2>3. ASSUME NEW n \in 1..2 PROVE OrderAt(f, n, Reached(suite[f], n, PlaceOf(f)))'
    BY <1>3, <2>1, <2>2, NothingAtFirst
  <2>4. QED
    BY <1>1, <1>3, <1>4, <2>1, <2>3 DEF OnTrack
<1>8. OthersAlone(f)
  BY <1>1, <1>2 DEF OthersAlone, FlowsTyped
<1>9. QED
  BY <1>6, <1>7, <1>8, OneMoves

\* A login, an adopted session or the workers' end is a step on for the flow, and nothing
\* to the orders of its script.
LEMMA WalksOn ==
  ASSUME WellFormed, NEW f \in Flows, OnTrack(f), outcome[f] = "running",
         \/ FixtureKnown(suite[f], step[f]) \/ AdoptKnown(suite[f], step[f])
         \/ ParallelKnown(suite[f], step[f]),
         Advance(f), UNCHANGED <<orders, idempotency, suite, history>>,
         f \in unheard => f \in unheard',
         \/ blind'[f] = blind[f]
         \/ /\ f \in unheard' /\ suite[f] = "flow_b"
            /\ \A n \in 1..2 : Reached(suite[f], n, step[f]) = 0
  PROVE  OnTrack(f)'
<1>1. PICK s \in Suites : s = suite[f]
  BY AtAStep
<1>2. PICK i \in Nat : i = step[f]
  BY AtAStep
<1>3. /\ \A n \in 1..2 : Reached(s, n, i + 1) = Reached(s, n, i)
      /\ s = "idempotency" => i # 3
      /\ Scripts[s][i].do # "call"
  BY <1>1, <1>2 DEF FixtureKnown, AdoptKnown, ParallelKnown, SameReached
<1>4. /\ \A n \in 1..2 : OrderAt(f, n, Reached(s, n, i))
      /\ idempotency[f] = IF s = "idempotency" /\ i > 3 THEN OrderOf(f, 1) ELSE None
  BY <1>1, <1>2, AtAStep
<1>5. /\ outcome'[f] \in {"running", "passed"} /\ PlaceOf(f)' = i + 1
      /\ outcome'[f] = "passed" => i = Len(Scripts[s])
  BY <1>1, <1>2, AdvanceSteps
<1>6. ASSUME NEW n \in 1..2 PROVE OrderAt(f, n, Reached(s, n, i + 1))'
  <2>1. PICK k : k = Reached(s, n, i)
    OBVIOUS
  <2>2. OrderAt(f, n, k)
    BY <1>4, <2>1
  <2>3. OrderAt(f, n, k)'
    <3>1. CASE blind'[f] = blind[f]
      BY <2>2, <3>1, OrderStays
    <3>2. CASE \A m \in 1..2 : Reached(suite[f], m, step[f]) = 0
      <4>1. k = 0
        BY <1>1, <1>2, <2>1, <3>2
      <4>2. OrderAt(f, n, 0)
        BY <2>2, <4>1
      <4>3. OrderAt(f, n, 0)'
        BY <4>2, NoOrderStays
      <4>4. QED
        BY <4>1, <4>3
    <3>3. QED
      BY <3>1, <3>2
  <2>4. QED
    BY <1>3, <2>1, <2>3
<1>7. idempotency'[f] = IF s = "idempotency" /\ i + 1 > 3 THEN OrderOf(f, 1) ELSE None
  BY <1>3, <1>4
<1>8. blind'[f] => s = "flow_b" /\ f \in unheard'
  BY <1>1 DEF OnTrack
<1>9. ~(s = "courier_reassignment" /\ outcome'[f] = "passed")
  BY <1>3, <1>5, CourierReassignmentEntries, LastHands, CourierReassignmentKnown
     DEF Call
<1>10. QED
  BY <1>1, <1>5, <1>6, <1>7, <1>8, <1>9, GoesOn

LEMMA TokensAre ==
  ASSUME NEW role \in Roles, NEW owner \in Flows \cup {User}
  PROVE  TokenOf(role, owner) \in Tokens /\ TokenOf(role, owner).role = role
  BY SuiteAssumption DEF TokenOf

LEMMA AddTyped ==
  ASSUME SessionTypeOK, NEW role \in Roles, NEW t \in Tokens \cup {Empty}, NEW setActive,
         AddToken(role, t, setActive)
  PROVE  SessionTypeOK'
  BY DEF SessionTypeOK, AddToken

LEMMA LogInKeeps ==
  ASSUME WellFormed, Tracks, NEW f \in Flows, LogIn(f)
  PROVE  WellFormed' /\ Tracks'
<1>1. PICK role : role = AtStep(f).role
  OBVIOUS
<1>2. /\ outcome[f] = "running" /\ AtStep(f).do = "fixture" /\ AddToken(role, TokenOf(role, f), TRUE)
      /\ own' = (IF role = "client" THEN [own EXCEPT ![f] = TokenOf(role, f)] ELSE own)
      /\ Advance(f) /\ UNCHANGED <<orders, idempotency, suite, blind, worker, history,
                                   unheard, lost, emptied, meddled, manual>>
  BY <1>1 DEF LogIn, Doing, mockVars, ghosts, losses
<1>3. /\ OnTrack(f) /\ OrdersTyped /\ SessionTypeOK /\ FlowsTyped /\ GhostsTyped
  BY DEF Tracks, WellFormed
<1>4. FixtureKnown(suite[f], step[f]) /\ role \in Roles
  <2>1. FixtureKnown(suite[f], step[f])
    BY <1>2, <1>3, AtAStep DEF StepKnown, CallKnown, AdoptKnown, ParallelKnown
  <2>2. QED
    BY <1>1, <1>2, <1>3, <2>1, AtAStep DEF FixtureKnown
<1>5. TokenOf(role, f) \in Tokens
  BY <1>4, TokensAre
<1>6. WellFormed'
  <2>1. OrdersTyped' /\ GhostsTyped'
    BY <1>2, <1>3 DEF OrdersTyped, GhostsTyped
  <2>2. SessionTypeOK'
    BY <1>2, <1>3, <1>4, <1>5, AddTyped
  <2>3. FlowsTyped'
    BY <1>2, <1>3, <1>5, AdvanceSteps DEF FlowsTyped
  <2>4. QED
    BY <2>1, <2>2, <2>3 DEF WellFormed
<1>7. OnTrack(f)'
  BY <1>2, <1>3, <1>4, WalksOn
<1>8. OthersAlone(f)
  BY <1>2, <1>3, AdvanceSteps DEF OthersAlone
<1>9. QED
  BY <1>6, <1>7, <1>8, OneMoves

LEMMA LogInLostKeeps ==
  ASSUME WellFormed, Tracks, NEW f \in Flows, LogInLost(f)
  PROVE  WellFormed' /\ Tracks'
<1>1. PICK role : role = AtStep(f).role
  OBVIOUS
<1>2. /\ outcome[f] = "running" /\ AtStep(f).do = "fixture"
      /\ lost < MaxLost /\ lost' = lost + 1 /\ unheard' = unheard \cup {f}
      /\ IF AtStep(f).must THEN Fail(f) /\ UNCHANGED <<own, blind>>
         ELSE /\ Advance(f)
              /\ own' = (IF role = "client" THEN [own EXCEPT ![f] = Empty] ELSE own)
              /\ blind' = (IF role = "courier" THEN [blind EXCEPT ![f] = TRUE] ELSE blind)
      /\ UNCHANGED <<orders, idempotency, pool, active, suite, worker, history, emptied, meddled, manual>>
  BY <1>1 DEF LogInLost, Loses, Doing, mockVars, sessionVars
<1>3. /\ OnTrack(f) /\ OrdersTyped /\ SessionTypeOK /\ FlowsTyped /\ GhostsTyped
  BY DEF Tracks, WellFormed
<1>4. FixtureKnown(suite[f], step[f])
  BY <1>2, <1>3, AtAStep DEF StepKnown, CallKnown, AdoptKnown, ParallelKnown
<1>5. AtStep(f).must \in BOOLEAN /\ role \in Roles
      /\ (role = "courier" /\ ~AtStep(f).must =>
            suite[f] = "flow_b" /\ \A n \in 1..2 : Reached(suite[f], n, step[f]) = 0)
  BY <1>1, <1>2, <1>3, <1>4, AtAStep DEF FixtureKnown
<1>6. OrdersTyped' /\ GhostsTyped' /\ SessionTypeOK'
  BY <1>2, <1>3, SuiteAssumption DEF OrdersTyped, GhostsTyped, SessionTypeOK
<1>7. CASE AtStep(f).must
  <2>1. outcome' = [outcome EXCEPT ![f] = "failed"] /\ UNCHANGED <<step, own, blind>>
    BY <1>2, <1>7 DEF Fail
  <2>2. FlowsTyped'
    BY <1>2, <1>3, <2>1 DEF FlowsTyped
  <2>3. OnTrack(f)'
    BY <1>2, <1>3, <2>1, FailedIsOnTrack DEF FlowsTyped
  <2>4. OthersAlone(f)
    BY <1>2, <1>3, <2>1 DEF OthersAlone, FlowsTyped
  <2>5. QED
    BY <1>6, <2>2, <2>3, <2>4, OneMoves DEF WellFormed
<1>8. CASE ~AtStep(f).must
  <2>1. /\ Advance(f)
        /\ own' = (IF role = "client" THEN [own EXCEPT ![f] = Empty] ELSE own)
        /\ blind' = (IF role = "courier" THEN [blind EXCEPT ![f] = TRUE] ELSE blind)
    BY <1>2, <1>8
  <2>2. FlowsTyped'
    BY <1>2, <1>3, <2>1, AdvanceSteps DEF FlowsTyped
  <2>3. OnTrack(f)'
    BY <1>2, <1>3, <1>4, <1>5, <1>8, <2>1, WalksOn
  <2>4. OthersAlone(f)
    BY <1>2, <1>3, <2>1, AdvanceSteps DEF OthersAlone
  <2>5. QED
    BY <1>6, <2>2, <2>3, <2>4, OneMoves DEF WellFormed
<1>9. QED
  BY <1>5, <1>7, <1>8

LEMMA AdoptKeeps ==
  ASSUME WellFormed, Tracks, NEW f \in Flows, AdoptSession(f)
  PROVE  WellFormed' /\ Tracks'
<1>1. /\ outcome[f] = "running" /\ AtStep(f).do = "adopt" /\ AddToken("client", own[f], TRUE)
      /\ emptied' = (emptied \/ own[f] = Empty)
      /\ Advance(f) /\ UNCHANGED <<orders, idempotency, suite, own, blind, worker, history,
                                   unheard, lost, meddled, manual>>
  BY DEF AdoptSession, Doing, mockVars, losses
<1>2. /\ OnTrack(f) /\ OrdersTyped /\ SessionTypeOK /\ FlowsTyped /\ GhostsTyped
  BY DEF Tracks, WellFormed
<1>3. AdoptKnown(suite[f], step[f])
  BY <1>1, <1>2, AtAStep DEF StepKnown, CallKnown, FixtureKnown, ParallelKnown
<1>4. WellFormed'
  <2>1. OrdersTyped' /\ GhostsTyped'
    BY <1>1, <1>2, Zenon DEF OrdersTyped, GhostsTyped
  <2>2. SessionTypeOK'
    BY <1>1, <1>2, AddTyped DEF FlowsTyped, Roles
  <2>3. FlowsTyped'
    BY <1>1, <1>2, AdvanceSteps DEF FlowsTyped
  <2>4. QED
    BY <2>1, <2>2, <2>3 DEF WellFormed
<1>5. OnTrack(f)'
  BY <1>1, <1>2, <1>3, WalksOn
<1>6. OthersAlone(f)
  BY <1>1, <1>2, AdvanceSteps DEF OthersAlone
<1>7. QED
  BY <1>4, <1>5, <1>6, OneMoves

LEMMA CallKeeps ==
  ASSUME WellFormed, Tracks, NEW f \in Flows, NEW code, CallStep(f, code), GhostsTyped'
  PROVE  WellFormed' /\ Tracks'
<1> USE DEF CallStep
<1>1. /\ outcome[f] = "running" /\ OnTrack(f) /\ OrdersTyped /\ SessionTypeOK /\ FlowsTyped
  BY DEF Doing, Tracks, WellFormed
<1>2. /\ UNCHANGED <<pool, active, suite, own, blind, worker>> /\ GoOn(f, CallOf(f), code)
      /\ \A g \in Flows : g \in unheard => g \in unheard'
  BY DEF sessionVars
<1>3. PICK o \in OrderIds : o = OrderOf(f, AtStep(f).n)
  BY <1>1, AtACall
<1>4. \A g \in Flows, n \in 1..2 : g # f => OrderOf(g, n) \in OrderIds /\ OrderOf(g, n) # o
  BY <1>3, IdsAre
<1>5. /\ OrdersTyped' /\ \A p \in OrderIds : p # o => orders'[p] = orders[p]
      /\ \A g \in Flows : g # f => idempotency'[g] = idempotency[g]
  <2>1. CASE UNCHANGED mockVars
    BY <1>1, <2>1 DEF mockVars, OrdersTyped
  <2>2. CASE Process(CallOf(f), TokenFor(f), FALSE)
    <3>1. Effect(f)
      BY <1>1, <2>2, CallEffect
    <3>2. /\ OrdersTyped' /\ \A p \in OrderIds : p # o => orders'[p] = orders[p]
      BY <1>3, <3>1 DEF Effect
    <3>3. \/ UNCHANGED idempotency
          \/ idempotency' = (IF AtStep(f).key THEN [idempotency EXCEPT ![f] = OrderOf(f, AtStep(f).n)]
                             ELSE idempotency)
      BY <3>1 DEF Effect, mockVars
    <3>4. \A g \in Flows : g # f => idempotency'[g] = idempotency[g]
      BY <1>1, <3>3, IdsAre DEF OrdersTyped
    <3>5. QED
      BY <3>2, <3>4
  <2>3. QED
    BY <2>1, <2>2, Zenon DEF Answered
<1>6. /\ FlowsTyped' /\ \A p \in OrderIds : p # o => history'[p] = history[p]
      /\ \A g \in Flows : g # f => outcome'[g] = outcome[g] /\ step'[g] = step[g]
  <2>1. CASE Accepts(f, CallOf(f), code)
    <3>1. /\ Advance(f) /\ history' \in [OrderIds -> Seq(Stages)]
          /\ \A p \in OrderIds : p # o => history'[p] = history[p]
      BY <1>1, <1>3, <2>1, AcceptedIsRecorded
    <3>2. QED
      BY <1>1, <1>2, <3>1, AdvanceSteps DEF FlowsTyped
  <2>2. CASE ~Accepts(f, CallOf(f), code)
    <3>1. outcome' = [outcome EXCEPT ![f] = "failed"] /\ UNCHANGED <<step, history>>
      BY <1>2, <2>2 DEF GoOn, Record, Fail
    <3>2. QED
      BY <1>1, <1>2, <3>1 DEF FlowsTyped
  <2>3. QED
    BY <2>1, <2>2
<1>7. WellFormed'
  BY <1>1, <1>2, <1>5, <1>6 DEF WellFormed, SessionTypeOK
<1>8. OnTrack(f)'
  BY <1>1, CallKeepsTrack
<1>9. OthersAlone(f)
  BY <1>2, <1>4, <1>5, <1>6 DEF OthersAlone
<1>10. QED
  BY <1>7, <1>8, <1>9, OneMoves

LEMMA HandlerCourier ==
  ASSUME NEW call, call.to \in Changing, orders[call.order] \in OrderType
  PROVE  \/ Handler(call).order.courier = orders[call.order].courier
         \/ /\ call.to \in {"give_order_to_courier", "take_order"}
            /\ Handler(call).order.courier = call.with
<1> DEFINE order == orders[call.order]
           Kept(other) == other.courier = order.courier
           Given(other) == other.courier = call.with
<1>1. Kept(order)
  OBVIOUS
<1>2. \A status : Kept([order EXCEPT !.status = status])
  BY DEF OrderType
<1>3. Given([order EXCEPT !.courier = call.with])
  BY DEF OrderType
<1>4. \/ Kept(Handler(call).order)
      \/ call.to \in {"give_order_to_courier", "take_order"} /\ Given(Handler(call).order)
  <2> HIDE DEF Kept, Given
  <2>1. CASE call.to = "cancel"
    BY <1>1, <1>2, <2>1, HandlerIs DEF ClientCancel, Done, Refused
  <2>2. CASE call.to = "give_order_to_courier"
    BY <1>1, <1>3, <2>2, HandlerIs DEF AdminAssignCourier, Done, Refused
  <2>3. CASE call.to = "cancel_order"
    BY <1>2, <2>3, HandlerIs DEF AdminCancelOrder, Done
  <2>4. CASE call.to = "order_status"
    BY <1>1, <1>2, <2>4, HandlerIs DEF RestOrderStatus, Done, Refused
  <2>5. CASE call.to = "take_order"
    BY <1>3, <2>5, HandlerIs DEF CourierTakeOrder, Done
  <2>6. CASE call.to = "change_status"
    BY <1>1, <1>2, <2>6, HandlerIs DEF CourierChangeStatus, Done, Refused
  <2>7. QED
    BY <2>1, <2>2, <2>3, <2>4, <2>5, <2>6 DEF Changing
<1>5. QED
  BY <1>4

\* A user's call may touch the order, and otherwise leaves it at its stage.
LEMMA UserCallDoes ==
  ASSUME WellFormed, NEW o \in OrderIds, ManualCall(o)
  PROVE  /\ UNCHANGED <<idempotency, sessionVars, flowVars, losses, emptied, meddled>>
         /\ manual < MaxManual /\ manual' = manual + 1
         /\ OrdersTyped' /\ \A p \in OrderIds : p # o => orders'[p] = orders[p]
         /\ orders[o] \in OrderType /\ orders'[o] \in OrderType
         /\ orders'[o].kind = orders[o].kind /\ orders'[o].trail = orders[o].trail
         /\ orders[o].touched => orders'[o].touched
         /\ ~orders'[o].touched => StageOf(orders'[o]) = StageOf(orders[o])
         /\ orders'[o].courier \in {orders[o].courier, CourierOf(o[1], 2)}
<1>1. /\ orders[o] # None /\ manual < MaxManual /\ manual' = manual + 1
      /\ UNCHANGED <<sessionVars, flowVars, losses, emptied, meddled>>
  BY DEF ManualCall, losses
<1>2. PICK byUser \in BOOLEAN : byUser = TRUE
  OBVIOUS
<1>3. PICK call, token :
         /\ call.order = o /\ call.to \in Changing
         /\ call.to = "order_status" => call.with \in ManualStatuses
         /\ call.to \in {"give_order_to_courier", "take_order"} => call.with = CourierOf(o[1], 2)
         /\ Code(call, token) = 200 /\ Process(call, token, TRUE)
  <2>1. PICK to \in Changing :
           \E with \in IF to \in {"order_status", "change_status"} THEN ManualStatuses
                       ELSE IF to \in {"give_order_to_courier", "take_order"}
                       THEN {CourierOf(o[1], 2)} ELSE {None} :
             LET call == [to |-> to, order |-> o, with |-> with, key |-> None]
                 token == SessionToken(RoleFor[to])
             IN Code(call, token) = 200 /\ Process(call, token, TRUE)
    BY DEF ManualCall, Changing
  <2>2. PICK with \in IF to \in {"order_status", "change_status"} THEN ManualStatuses
                      ELSE IF to \in {"give_order_to_courier", "take_order"}
                      THEN {CourierOf(o[1], 2)} ELSE {None} :
             LET call == [to |-> to, order |-> o, with |-> with, key |-> None]
                 token == SessionToken(RoleFor[to])
             IN Code(call, token) = 200 /\ Process(call, token, TRUE)
    BY <2>1
  <2>3. PICK call : call = [to |-> to, order |-> o, with |-> with, key |-> None]
    OBVIOUS
  <2>4. Code(call, SessionToken(RoleFor[to])) = 200
        /\ Process(call, SessionToken(RoleFor[to]), TRUE)
    BY <2>2, <2>3
  <2>5. call.order = o /\ call.to = to /\ call.with = with
    BY <2>3
  <2>6. /\ to = "order_status" => with \in ManualStatuses
        /\ to \in {"give_order_to_courier", "take_order"} => with = CourierOf(o[1], 2)
    BY <2>2
  <2>7. QED
    BY <2>1, <2>4, <2>5, <2>6
<1>4. ArgumentOK(call)
  BY <1>3, IdsAre, SuiteAssumption DEF ArgumentOK
<1>5. Process(call, token, byUser)
  BY <1>2, <1>3
<1>6. orders[o] \in OrderType
  BY <1>1, OrderOrNone
<1>7. PICK new : new = After(call, byUser)
  OBVIOUS
<1>8. /\ UNCHANGED idempotency /\ OrdersTyped'
      /\ \A p \in OrderIds : p # call.order => orders'[p] = orders[p]
      /\ orders'[call.order] = new
  BY <1>3, <1>4, <1>5, <1>7, CallChanges
<1>9. /\ Turns(orders[o], new, Actor[RoleFor[call.to]], byUser)
      /\ new.courier = Handler(call).order.courier
  BY <1>3, <1>4, <1>6, <1>7, AfterIs
<1>10. Handler(call).order.courier \in {orders[o].courier, CourierOf(o[1], 2)}
  BY <1>3, <1>6, HandlerCourier
<1>11. /\ new \in OrderType /\ new.kind = orders[o].kind /\ new.trail = orders[o].trail
       /\ orders[o].touched => new.touched
       /\ ~new.touched => StageOf(new) = StageOf(orders[o])
  BY <1>2, <1>9 DEF Turns
<1>12. QED
  BY <1>1, <1>3, <1>6, <1>8, <1>9, <1>10, <1>11

LEMMA ManualCallKeeps ==
  ASSUME WellFormed, Tracks, NEW o \in OrderIds, ManualCall(o)
  PROVE  WellFormed' /\ Tracks'
<1>1. /\ UNCHANGED <<idempotency, pool, active, suite, step, outcome, own, blind, worker, history,
                     unheard, lost, emptied, meddled>>
      /\ manual < MaxManual /\ manual' = manual + 1
      /\ OrdersTyped' /\ \A p \in OrderIds : p # o => orders'[p] = orders[p]
      /\ orders[o] # None /\ orders'[o] # None
      /\ orders'[o].kind = orders[o].kind /\ orders'[o].trail = orders[o].trail
      /\ orders[o].touched => orders'[o].touched
      /\ ~orders'[o].touched => StageOf(orders'[o]) = StageOf(orders[o])
      /\ orders'[o].courier \in {orders[o].courier, CourierOf(o[1], 2)}
  BY UserCallDoes, AbsenceAssumption DEF sessionVars, flowVars, losses
<1>2. WellFormed'
  <2>1. manual' \in 0..MaxManual
    BY <1>1, SuiteAssumption DEF WellFormed, GhostsTyped
  <2>2. QED
    BY <1>1, <2>1 DEF WellFormed, SessionTypeOK, FlowsTyped, GhostsTyped
<1>3. PICK f \in Flows, m \in 1..(2 + Workers) : f = o[1] /\ o = OrderOf(f, m)
  BY IdsAre
<1>4. \A g \in Flows, n \in 1..2 : OrderOf(g, n) \in OrderIds /\ (OrderOf(g, n) = o <=> g = f /\ n = m)
  BY <1>3, IdsAre
<1>5. OthersAlone(f)
  BY <1>1, <1>4 DEF OthersAlone
<1>6. ASSUME NEW n \in 1..2, NEW k, OrderAt(f, n, k) PROVE OrderAt(f, n, k)'
  <2>1. CASE n # m
    BY <1>1, <1>4, <1>6, <2>1, OrderStays
  <2>2. CASE n = m
    BY SMTT(30), <1>1, <1>3, <1>6, <2>2 DEF OrderAt
  <2>3. QED
    BY <2>1, <2>2
<1>7. ASSUME m \in 1..2 PROVE OnTrack(f)'
  <2>1. PICK s : s = suite[f]
    OBVIOUS
  <2>2. PICK i : i = PlaceOf(f)
    OBVIOUS
  <2>3. s = suite'[f] /\ i = PlaceOf(f)'
    BY <1>1, <2>1, <2>2 DEF PlaceOf
  <2>4. OnTrack(f)
    BY DEF Tracks
  <2>5. outcome[f] = "none" => o # OrderOf(f, m)
    BY <1>1, <1>7, <2>4 DEF OnTrack
  <2>6. ASSUME outcome[f] \in {"running", "passed"}, NEW n \in 1..2
        PROVE  OrderAt(f, n, Reached(suite[f], n, PlaceOf(f)))'
    <3>1. OrderAt(f, n, Reached(s, n, i))
      BY <2>1, <2>2, <2>4, <2>6 DEF OnTrack
    <3>2. OrderAt(f, n, Reached(s, n, i))'
      BY <1>6, <3>1
    <3>3. QED
      BY <2>3, <3>2
  <2>7. suite[f] = "courier_reassignment" /\ outcome[f] = "passed" =>
          \/ orders'[OrderOf(f, 1)].touched
          \/ orders'[OrderOf(f, 1)].courier = CourierOf(f, 2)
    <3> SUFFICES ASSUME suite[f] = "courier_reassignment", outcome[f] = "passed"
                 PROVE  \/ orders'[OrderOf(f, 1)].touched
                        \/ orders'[OrderOf(f, 1)].courier = CourierOf(f, 2)
      OBVIOUS
    <3>1. orders[OrderOf(f, 1)].touched \/ orders[OrderOf(f, 1)].courier = CourierOf(f, 2)
      BY <2>4 DEF OnTrack
    <3>2. CASE m = 1
      BY <1>1, <1>3, <3>1, <3>2
    <3>3. CASE m # 1
      BY <1>1, <1>4, <3>1, <3>3
    <3>4. QED
      BY <3>2, <3>3
  <2>8. outcome'[f] # "none"
    BY <1>1, <1>3, <2>5
  <2>9. /\ suite'[f] \in Suites
        /\ blind'[f] => suite'[f] = "flow_b" /\ f \in unheard'
    BY <1>1, <2>4, <2>8 DEF OnTrack
  <2>10. outcome'[f] \in {"running", "passed"} =>
           /\ \A n \in 1..2 : OrderAt(f, n, Reached(suite[f], n, PlaceOf(f)))'
           /\ idempotency'[f] = IF suite'[f] = "idempotency" /\ PlaceOf(f)' > 3
                               THEN OrderOf(f, 1) ELSE None
    <3> SUFFICES ASSUME outcome'[f] \in {"running", "passed"}
                 PROVE  /\ \A n \in 1..2 : OrderAt(f, n, Reached(suite[f], n, PlaceOf(f)))'
                        /\ idempotency'[f] = IF suite'[f] = "idempotency" /\ PlaceOf(f)' > 3
                                            THEN OrderOf(f, 1) ELSE None
      OBVIOUS
    <3>1. outcome[f] \in {"running", "passed"}
      BY <1>1
    <3>2. idempotency[f] = IF s = "idempotency" /\ i > 3 THEN OrderOf(f, 1) ELSE None
      BY <2>1, <2>2, <2>4, <3>1 DEF OnTrack
    <3>3. idempotency'[f] = IF suite'[f] = "idempotency" /\ PlaceOf(f)' > 3
                            THEN OrderOf(f, 1) ELSE None
      BY <1>1, <2>3, <3>2
    <3>4. QED
      BY <2>6, <3>1, <3>3
  <2>11. QED
    BY <1>1, <2>7, <2>8, <2>9, <2>10 DEF OnTrack
<1>8. ASSUME m \notin 1..2 PROVE OnTrack(f)'
  BY <1>1, <1>4, <1>8, TrackFrame DEF Tracks
<1>9. QED
  BY <1>2, <1>5, <1>7, <1>8, OneMoves

LEMMA ChangeSessionsKeeps ==
  ASSUME WellFormed, Tracks, ChangeSessions
  PROVE  WellFormed' /\ Tracks'
<1>1. /\ manual < MaxManual /\ manual' = manual + 1 /\ meddled' = TRUE
      /\ UNCHANGED <<orders, idempotency, suite, step, outcome, own, blind, worker, history,
                     unheard, lost>>
  BY DEF ChangeSessions, mockVars, flowVars, losses
<1>2. OrdersTyped /\ SessionTypeOK /\ FlowsTyped /\ GhostsTyped
  BY DEF WellFormed
<1>3. SessionTypeOK'
  <2>1. ASSUME NEW role \in UserRoles, AddToken(role, Empty, TRUE) PROVE SessionTypeOK'
    BY <1>2, <2>1, AddTyped, SuiteAssumption
  <2>2. CASE SwitchAndBack
    BY <1>2, <2>2 DEF SwitchAndBack, Restore, SessionTypeOK
  <2>3. ASSUME NEW role \in UserRoles, NEW setActive \in BOOLEAN,
               AddToken(role, TokenOf(role, User), setActive)
        PROVE  SessionTypeOK'
    <3>1. role \in Roles /\ TokenOf(role, User) \in Tokens
      BY SuiteAssumption, TokensAre
    <3>2. QED
      BY <1>2, <2>3, <3>1, AddTyped
  <2>4. ASSUME NEW role \in UserRoles, NEW t \in pool[role],
               SetActiveProfile(role, t) \/ DeleteProfile(role, t)
        PROVE  SessionTypeOK'
    <3>1. role \in Roles /\ pool[role] \subseteq Tokens \cup {Empty}
      BY <1>2, SuiteAssumption DEF SessionTypeOK
    <3>2. CASE SetActiveProfile(role, t)
      BY <1>2, <3>1, <3>2 DEF SetActiveProfile, SessionTypeOK
    <3>3. CASE DeleteProfile(role, t)
      BY <1>2, <3>1, <3>3 DEF DeleteProfile, SessionTypeOK
    <3>4. QED
      BY <2>4, <3>2, <3>3
  <2>5. QED
    BY <2>1, <2>2, <2>3, <2>4 DEF ChangeSessions
<1>4. emptied' \in BOOLEAN
  BY <1>2 DEF ChangeSessions, GhostsTyped
<1>5. WellFormed'
  <2>1. manual' \in 0..MaxManual
    BY <1>1, <1>2, SuiteAssumption DEF GhostsTyped
  <2>2. QED
    BY <1>1, <1>2, <1>3, <1>4, <2>1 DEF WellFormed, OrdersTyped, FlowsTyped, GhostsTyped
<1>6. ASSUME NEW f \in Flows PROVE OnTrack(f)'
  BY <1>1, TrackFrame DEF Tracks
<1>7. QED
  BY <1>5, <1>6 DEF Tracks

-----------------------------------------------------------------------------
(* The workers.                                                            *)

\* A worker's call is let in, whatever else goes on, and makes its order.
LEMMA WorkersCallDoes ==
  ASSUME NEW f \in Flows, NEW w \in 1..Workers
  PROVE  /\ Code(WorkersCall(f, w), WorkersToken(f)) = 200
         /\ Shown(WorkersCall(f, w)) = WorkersOrder(f, w)
         /\ Process(WorkersCall(f, w), WorkersToken(f), FALSE) =>
              /\ orders' = [orders EXCEPT ![WorkersOrder(f, w)] = NewOrder("INDEPENDENT")]
              /\ UNCHANGED idempotency
<1>1. PICK call : call = WorkersCall(f, w)
  OBVIOUS
<1>2. PICK token : token = WorkersToken(f)
  OBVIOUS
<1>3. /\ call.to = "independent_order" /\ call.order = WorkersOrder(f, w)
      /\ call.key = None /\ call.with = "valid"
  BY <1>1 DEF WorkersCall
<1>4. /\ Creates(call) /\ ~AnsweredBefore(call) /\ RoleFor[call.to] = "client"
      /\ call.to \in DOMAIN RoleFor /\ call.to # "dishes"
  BY <1>3 DEF Creates, AnsweredBefore, RoleFor
<1>5. AuthGuard("client", token) = 200
  <2>1. token # Empty
    BY <1>2, TokensAreNotEmpty DEF WorkersToken, Roles
  <2>2. QED
    BY <2>1 DEF AuthGuard
<1>6. Code(call, token) = 200
  BY <1>3, <1>4, <1>5, CodeIs
<1>7. Shown(call) = WorkersOrder(f, w)
  BY <1>3, <1>4 DEF Shown
<1>8. ASSUME Process(call, token, FALSE)
      PROVE  /\ orders' = [orders EXCEPT ![WorkersOrder(f, w)] = NewOrder("INDEPENDENT")]
             /\ UNCHANGED idempotency
  <2>1. CreateOrder(call)
    BY <1>4, <1>6, <1>8 DEF Process
  <2>2. QED
    BY <1>3, <1>4, <2>1 DEF CreateOrder, NewOrder
<1>9. QED
  BY <1>1, <1>2, <1>6, <1>7, <1>8

\* The order of a worker is made.
MakesOrder(f, w) ==
  /\ orders' = [orders EXCEPT ![WorkersOrder(f, w)] = NewOrder("INDEPENDENT")]
  /\ UNCHANGED idempotency

\* What a worker does: log in, place its order or fail, with the order placed or not.
WorkerTurns(f, w, to) ==
  \/ worker[f][w] = "login" /\ to = "order" /\ UNCHANGED mockVars
  \/ worker[f][w] \in {"login", "order"} /\ to = "failed" /\ f \in unheard' /\ UNCHANGED mockVars
  \/ /\ worker[f][w] = "order" /\ MakesOrder(f, w)
     /\ to = "done" \/ (to = "failed" /\ f \in unheard')

WorkerStep(f, w) ==
  /\ Doing(f, "parallel")
  /\ UNCHANGED <<suite, step, outcome, own, blind, history>> /\ unheard \subseteq unheard'
  /\ \E to \in {"order", "done", "failed"} :
       WorkerGoes(f, w, to) /\ WorkerTurns(f, w, to)

LEMMA WorkersStep ==
  ASSUME WellFormed, NEW f \in Flows, NEW w \in 1..Workers,
         WorkerLogsIn(f, w) \/ WorkerOrders(f, w) \/ WorkerFails(f, w)
  PROVE  WorkerStep(f, w) /\ SessionTypeOK' /\ GhostsTyped'
<1>1. SessionTypeOK /\ GhostsTyped
  BY DEF WellFormed
<1>2. CASE WorkerLogsIn(f, w)
  <2>1. /\ Doing(f, "parallel") /\ worker[f][w] = "login"
        /\ AddToken("client", WorkersToken(f), TRUE) /\ WorkerGoes(f, w, "order")
        /\ UNCHANGED <<mockVars, suite, step, outcome, own, blind, history,
                       unheard, lost, emptied, meddled, manual>>
    BY <1>2 DEF WorkerLogsIn, WorkerAt, ghosts, losses
  <2>2. WorkerTurns(f, w, "order")
    BY <2>1 DEF WorkerTurns
  <2>3. "client" \in Roles
    BY DEF Roles
  <2>4. WorkersToken(f) \in Tokens
    BY <2>3, TokensAre DEF WorkersToken
  <2>5. SessionTypeOK'
    BY <1>1, <2>1, <2>3, <2>4, AddTyped
  <2>6. GhostsTyped'
    BY <1>1, <2>1 DEF GhostsTyped
  <2>7. QED
    BY <2>1, <2>2, <2>5, <2>6 DEF WorkerStep
<1>3. CASE WorkerOrders(f, w)
  <2>1. /\ Doing(f, "parallel") /\ worker[f][w] = "order"
        /\ Process(WorkersCall(f, w), WorkersToken(f), FALSE)
        /\ UNCHANGED <<pool, active, suite, step, outcome, own, blind, history,
                       unheard, lost, emptied, meddled, manual>>
    BY <1>3 DEF WorkerOrders, WorkerAt, sessionVars, ghosts, losses
  <2>2. WorkerGoes(f, w, "done")
    BY <1>3, WorkersCallDoes DEF WorkerOrders
  <2>3. WorkerTurns(f, w, "done")
    BY <2>1, WorkersCallDoes DEF WorkerTurns, MakesOrder
  <2>4. SessionTypeOK' /\ GhostsTyped'
    BY <1>1, <2>1 DEF SessionTypeOK, GhostsTyped
  <2>5. QED
    BY <2>1, <2>2, <2>3, <2>4 DEF WorkerStep
<1>4. CASE WorkerFails(f, w)
  <2>1. /\ Doing(f, "parallel") /\ worker[f][w] \in {"login", "order"}
        /\ WorkerGoes(f, w, "failed") /\ Loses(f)
        /\ UNCHANGED <<pool, active, suite, step, outcome, own, blind, history,
                       emptied, meddled, manual>>
    BY <1>4 DEF WorkerFails, WorkerAt, sessionVars
  <2>2. \/ UNCHANGED mockVars
        \/ /\ worker[f][w] = "order"
           /\ Process(WorkersCall(f, w), WorkersToken(f), FALSE)
    BY <1>4, Zenon DEF WorkerFails, WorkerAt
  <2>3. f \in unheard' /\ unheard \subseteq unheard'
    BY <2>1 DEF Loses
  <2>4. WorkerTurns(f, w, "failed")
    BY <2>1, <2>2, <2>3, WorkersCallDoes DEF WorkerTurns, MakesOrder
  <2>5. SessionTypeOK' /\ GhostsTyped'
    BY <1>1, <2>1, SuiteAssumption DEF SessionTypeOK, GhostsTyped, Loses
  <2>6. QED
    BY <2>1, <2>3, <2>4, <2>5 DEF WorkerStep
<1>5. QED
  BY <1>2, <1>3, <1>4

\* Only its own order, its own place and nothing of the script.
LEMMA WorkerTouches ==
  ASSUME WellFormed, NEW f \in Flows, NEW w \in 1..Workers, WorkerStep(f, w)
  PROVE  /\ OrdersTyped' /\ FlowsTyped' /\ UNCHANGED idempotency
         /\ \A p \in OrderIds : p # WorkersOrder(f, w) => orders'[p] = orders[p]
         /\ \A g \in Flows, v \in 1..Workers : g # f \/ v # w => worker'[g][v] = worker[g][v]
<1>1. OrdersTyped /\ FlowsTyped /\ WorkersOrder(f, w) \in OrderIds
  BY IdsAre DEF WellFormed
<1>2. PICK to \in {"order", "done", "failed"} : WorkerGoes(f, w, to) /\ WorkerTurns(f, w, to)
  BY DEF WorkerStep
<1>3. UNCHANGED mockVars \/ MakesOrder(f, w)
  BY <1>2 DEF WorkerTurns
<1>4. /\ OrdersTyped' /\ UNCHANGED idempotency
      /\ \A p \in OrderIds : p # WorkersOrder(f, w) => orders'[p] = orders[p]
  <2>1. CASE UNCHANGED mockVars
    BY <1>1, <2>1 DEF mockVars, OrdersTyped
  <2>2. CASE MakesOrder(f, w)
    <3>1. PICK new : new = NewOrder("INDEPENDENT")
      OBVIOUS
    <3>2. new \in OrderType
      BY <3>1, NewOrderIs
    <3>3. orders' = [orders EXCEPT ![WorkersOrder(f, w)] = new] /\ UNCHANGED idempotency
      BY <2>2, <3>1 DEF MakesOrder
    <3>4. QED
      BY <1>1, <3>2, <3>3 DEF OrdersTyped
  <2>3. QED
    BY <1>3, <2>1, <2>2
<1>5. worker' = [worker EXCEPT ![f][w] = to]
  BY <1>2 DEF WorkerGoes
<1>6. /\ worker' \in [Flows -> [1..Workers -> {"login", "order", "done", "failed"}]]
      /\ \A g \in Flows, v \in 1..Workers : g # f \/ v # w => worker'[g][v] = worker[g][v]
  BY <1>1, <1>2, <1>5 DEF FlowsTyped
<1>7. FlowsTyped'
  BY <1>1, <1>6 DEF FlowsTyped, WorkerStep
<1>8. QED
  BY <1>4, <1>6, <1>7

LEMMA WorkerKeeps ==
  ASSUME WellFormed, Tracks, NEW f \in Flows, NEW w \in 1..Workers, WorkerStep(f, w),
         SessionTypeOK', GhostsTyped'
  PROVE  WellFormed' /\ Tracks'
<1>1. WellFormed'
  BY WorkerTouches DEF WellFormed
<1>2. ASSUME NEW g \in Flows PROVE OnTrack(g)'
  <2>1. /\ suite'[g] = suite[g] /\ outcome'[g] = outcome[g] /\ step'[g] = step[g]
        /\ blind'[g] = blind[g] /\ (g \in unheard => g \in unheard')
        /\ \A n \in 1..2 : history'[OrderOf(g, n)] = history[OrderOf(g, n)]
    BY DEF WorkerStep
  <2>2. idempotency'[g] = idempotency[g]
    BY WorkerTouches
  <2>3. ASSUME NEW n \in 1..2 PROVE orders'[OrderOf(g, n)] = orders[OrderOf(g, n)]
    <3>1. OrderOf(g, n) \in OrderIds /\ OrderOf(g, n) # WorkersOrder(f, w)
      BY IdsAre, WorkersOrdersAre
    <3>2. QED
      BY <3>1, WorkerTouches
  <2>4. OnTrack(g)
    BY DEF Tracks
  <2>5. QED
    BY <2>1, <2>2, <2>3, <2>4, TrackFrame
<1>3. QED
  BY <1>1, <1>2 DEF Tracks

\* Where the workers are at work.
LEMMA InTheParallelStep ==
  ASSUME WellFormed, NEW f \in Flows, OnTrack(f), Doing(f, "parallel")
  PROVE  /\ outcome[f] = "running" /\ suite[f] = "idempotency" /\ ~blind[f]
         /\ ParallelKnown(suite[f], step[f])
<1>1. outcome[f] = "running" /\ AtStep(f).do = "parallel"
  BY DEF Doing
<1>2. ParallelKnown(suite[f], step[f])
  BY <1>1, AtAStep DEF StepKnown, FixtureKnown, AdoptKnown, CallKnown
<1>3. QED
  BY <1>1, <1>2 DEF ParallelKnown, OnTrack

LEMMA JoinKeeps ==
  ASSUME WellFormed, Tracks, NEW f \in Flows, Join(f)
  PROVE  WellFormed' /\ Tracks'
<1>1. /\ Doing(f, "parallel") /\ (Advance(f) \/ Fail(f))
      /\ UNCHANGED <<orders, idempotency, pool, active, suite, own, blind, worker, history,
                     unheard, lost, emptied, meddled, manual>>
  BY DEF Join, mockVars, sessionVars, ghosts, losses
<1>2. /\ OnTrack(f) /\ OrdersTyped /\ SessionTypeOK /\ FlowsTyped /\ GhostsTyped
  BY DEF Tracks, WellFormed
<1>3. outcome[f] = "running" /\ ParallelKnown(suite[f], step[f])
  BY <1>1, <1>2, InTheParallelStep
<1>4. OrdersTyped' /\ SessionTypeOK' /\ GhostsTyped'
  BY <1>1, <1>2 DEF OrdersTyped, SessionTypeOK, GhostsTyped
<1>5. CASE Advance(f)
  <2>1. FlowsTyped'
    BY <1>1, <1>2, <1>3, <1>5, AdvanceSteps DEF FlowsTyped
  <2>2. OnTrack(f)'
    BY <1>1, <1>2, <1>3, <1>5, WalksOn
  <2>3. OthersAlone(f)
    BY <1>1, <1>2, <1>3, <1>5, AdvanceSteps DEF OthersAlone
  <2>4. QED
    BY <1>4, <2>1, <2>2, <2>3, OneMoves DEF WellFormed
<1>6. CASE Fail(f)
  <2>1. outcome' = [outcome EXCEPT ![f] = "failed"] /\ UNCHANGED step
    BY <1>6 DEF Fail
  <2>2. FlowsTyped'
    BY <1>1, <1>2, <2>1 DEF FlowsTyped
  <2>3. OnTrack(f)'
    BY <1>1, <1>2, <1>3, <2>1, FailedIsOnTrack DEF FlowsTyped
  <2>4. OthersAlone(f)
    BY <1>1, <1>2, <2>1 DEF OthersAlone, FlowsTyped
  <2>5. QED
    BY <1>4, <2>2, <2>3, <2>4, OneMoves DEF WellFormed
<1>7. QED
  BY <1>1, <1>5, <1>6

-----------------------------------------------------------------------------
(* Type correctness.                                                       *)

\* The two ways a suite's call may go are steps of one kind.
LEMMA CallsAreSteps ==
  ASSUME WellFormed, NEW f \in Flows, CallBackend(f) \/ CallLost(f)
  PROVE  GhostsTyped' /\ \E code : CallStep(f, code)
<1>1. CASE CallBackend(f)
  <2>1. PICK code : code = Code(CallOf(f), TokenFor(f))
    OBVIOUS
  <2>2. UNCHANGED <<unheard, lost, emptied, meddled, manual>>
    BY <1>1 DEF CallBackend, ghosts, losses
  <2>3. CallStep(f, code)
    BY <1>1, <2>1, <2>2, Zenon DEF CallBackend, CallStep, Answered
  <2>4. GhostsTyped'
    BY <2>2 DEF WellFormed, GhostsTyped
  <2>5. QED
    BY <2>3, <2>4
<1>2. CASE CallLost(f)
  <2>1. PICK code : code = 0
    OBVIOUS
  <2>2. Loses(f) /\ UNCHANGED <<emptied, meddled, manual>>
    BY <1>2 DEF CallLost
  <2>3. Answered(f, code)
    BY <1>2, <2>1, Zenon DEF CallLost, Answered
  <2>4. CallStep(f, code)
    BY <1>2, <2>1, <2>2, <2>3 DEF CallLost, CallStep, Loses
  <2>5. GhostsTyped'
    BY <2>2, SuiteAssumption DEF WellFormed, GhostsTyped, Loses
  <2>6. QED
    BY <2>4, <2>5
<1>3. QED
  BY <1>1, <1>2

\* Workers have no order before they place it and one when they are done; only those of
\* the idempotency suite work, none failed with nothing lost, and it passed with all done.
CrewAt(f) ==
  \A w \in 1..Workers :
    /\ worker[f][w] \in {"login", "order"} => orders[WorkersOrder(f, w)] = None
    /\ worker[f][w] = "done" => orders[WorkersOrder(f, w)] # None
    /\ worker[f][w] = "failed" => f \in unheard
    /\ outcome[f] = "none" \/ suite[f] # "idempotency" => worker[f][w] = "login"
    /\ suite[f] = "idempotency" /\ outcome[f] = "passed" => worker[f][w] = "done"

Crews == \A f \in Flows : CrewAt(f)

\* A crew nothing happens to.
LEMMA CrewStays ==
  ASSUME NEW f \in Flows, CrewAt(f),
         \A w \in 1..Workers :
           /\ worker'[f][w] = worker[f][w]
           /\ orders'[WorkersOrder(f, w)] = None <=> orders[WorkersOrder(f, w)] = None,
         f \in unheard => f \in unheard',
         outcome[f] = "none" \/ (suite'[f] = suite[f] /\ outcome'[f] # "none"),
         suite'[f] = "idempotency" /\ outcome'[f] = "passed" =>
           suite[f] = "idempotency" /\ outcome[f] = "passed"
  PROVE  CrewAt(f)'
<1>1. SUFFICES ASSUME NEW w \in 1..Workers
               PROVE  /\ worker'[f][w] \in {"login", "order"} => orders'[WorkersOrder(f, w)] = None
                      /\ worker'[f][w] = "done" => orders'[WorkersOrder(f, w)] # None
                      /\ worker'[f][w] = "failed" => f \in unheard'
                      /\ outcome'[f] = "none" \/ suite'[f] # "idempotency" => worker'[f][w] = "login"
                      /\ suite'[f] = "idempotency" /\ outcome'[f] = "passed"
                           => worker'[f][w] = "done"
  BY DEF CrewAt, WorkersOrder, OrderOf
<1>2. /\ worker[f][w] \in {"login", "order"} => orders[WorkersOrder(f, w)] = None
      /\ worker[f][w] = "done" => orders[WorkersOrder(f, w)] # None
      /\ worker[f][w] = "failed" => f \in unheard
      /\ outcome[f] = "none" \/ suite[f] # "idempotency" => worker[f][w] = "login"
      /\ suite[f] = "idempotency" /\ outcome[f] = "passed" => worker[f][w] = "done"
  BY DEF CrewAt
<1>3. QED
  BY <1>2

\* The idempotency suite passes at the end of the parallel step and nowhere else.
LEMMA PassesInParallel ==
  ASSUME WellFormed, NEW f \in Flows, OnTrack(f), outcome[f] = "running",
         AtStep(f).do # "parallel", Advance(f) \/ Fail(f), UNCHANGED suite,
         suite'[f] = "idempotency"
  PROVE  outcome'[f] # "passed"
<1>1. CASE Advance(f)
  <2>1. outcome'[f] = "passed" => step[f] = 5
    BY <1>1, AdvanceSteps, IdempotencyEntries
  <2>2. step[f] # 5
    BY AtAStep, IdempotencyEntries DEF InParallel
  <2>3. QED
    BY <2>1, <2>2
<1>2. CASE Fail(f)
  BY <1>2 DEF Fail, WellFormed, FlowsTyped
<1>3. QED
  BY <1>1, <1>2

\* A step of one flow that leaves the workers and their orders alone.
LEMMA CrewsStay ==
  ASSUME WellFormed, Tracks, Crews, NEW f \in Flows,
         outcome[f] = "running", AtStep(f).do # "parallel",
         Advance(f) \/ Fail(f), UNCHANGED <<suite, worker>>, unheard \subseteq unheard',
         \A g \in Flows, w \in 1..Workers :
           orders'[WorkersOrder(g, w)] = orders[WorkersOrder(g, w)]
  PROVE  Crews'
<1>1. OnTrack(f) /\ \A g \in Flows : CrewAt(g)
  BY DEF Tracks, Crews
<1>2. suite'[f] = "idempotency" => outcome'[f] # "passed"
  BY <1>1, PassesInParallel
<1>3. outcome'[f] # "none" /\ \A g \in Flows : g # f => outcome'[g] = outcome[g]
  BY <1>1, AdvanceSteps DEF Fail, WellFormed, FlowsTyped
<1>4. ASSUME NEW g \in Flows PROVE CrewAt(g)'
  <2>1. outcome[g] = "none" \/ (suite'[g] = suite[g] /\ outcome'[g] # "none")
    BY <1>3
  <2>2. suite'[g] = "idempotency" /\ outcome'[g] = "passed" =>
          suite[g] = "idempotency" /\ outcome[g] = "passed"
    BY <1>2, <1>3
  <2>3. QED
    BY <1>1, <2>1, <2>2, CrewStays
<1>5. QED
  BY <1>4 DEF Crews

LEMMA CallKeepsCrews ==
  ASSUME WellFormed, Tracks, Crews, NEW f \in Flows, NEW code, CallStep(f, code)
  PROVE  Crews'
<1>1. /\ OnTrack(f) /\ Doing(f, "call") /\ (Advance(f) \/ Fail(f))
      /\ UNCHANGED <<suite, worker>> /\ unheard \subseteq unheard'
  BY DEF Tracks, CallStep, GoOn
<1>2. outcome[f] = "running" /\ AtStep(f).do = "call"
  BY <1>1 DEF Doing
<1>3. ASSUME NEW g \in Flows, NEW w \in 1..Workers
      PROVE  orders'[WorkersOrder(g, w)] = orders[WorkersOrder(g, w)]
  <2>1. PICK o : o = OrderOf(f, AtStep(f).n)
    OBVIOUS
  <2>2. WorkersOrder(g, w) \in OrderIds /\ WorkersOrder(g, w) # o
    BY <1>1, <2>1, AtACall, IdsAre, WorkersOrdersAre
  <2>3. CASE UNCHANGED mockVars
    BY <2>3 DEF mockVars
  <2>4. CASE Process(CallOf(f), TokenFor(f), FALSE)
    <3>1. Effect(f)
      BY <1>1, <2>4, CallEffect
    <3>2. \A p \in OrderIds : p # o => orders'[p] = orders[p]
      BY <2>1, <3>1 DEF Effect
    <3>3. QED
      BY <2>2, <3>2
  <2>5. QED
    BY <2>3, <2>4, Zenon DEF CallStep, Answered
<1>4. QED
  BY <1>1, <1>2, <1>3, CrewsStay

LEMMA WorkerKeepsCrews ==
  ASSUME WellFormed, Tracks, Crews, NEW f \in Flows, NEW w \in 1..Workers, WorkerStep(f, w)
  PROVE  Crews'
<1>1. /\ UNCHANGED <<suite, outcome>> /\ unheard \subseteq unheard' /\ Doing(f, "parallel")
  BY DEF WorkerStep
<1>2. outcome[f] = "running" /\ suite[f] = "idempotency"
  BY <1>1, InTheParallelStep DEF Tracks
<1>3. PICK to \in {"order", "done", "failed"} : WorkerGoes(f, w, to) /\ WorkerTurns(f, w, to)
  BY DEF WorkerStep
<1>4. worker'[f][w] = to
  BY <1>3 DEF WorkerGoes, WellFormed, FlowsTyped
<1>5. PICK o \in OrderIds : o = WorkersOrder(f, w)
  BY IdsAre
<1>6. worker[f][w] \in {"login", "order"} => orders[o] = None
  BY <1>5 DEF Crews, CrewAt
<1>7. MakesOrder(f, w) => orders'[o] # None
  <2>1. PICK new : new = NewOrder("INDEPENDENT")
    OBVIOUS
  <2>2. new # None
    BY <2>1, NewOrderIs, AbsenceAssumption
  <2>3. QED
    BY <1>5, <2>1, <2>2 DEF MakesOrder, WellFormed, OrdersTyped
<1>8. /\ to = "order" => orders'[o] = None
      /\ to = "done" => orders'[o] # None
      /\ to = "failed" => f \in unheard'
  BY <1>3, <1>6, <1>7 DEF WorkerTurns, mockVars
<1>9. ASSUME NEW v \in 1..Workers
      PROVE  /\ worker'[f][v] \in {"login", "order"} => orders'[WorkersOrder(f, v)] = None
             /\ worker'[f][v] = "done" => orders'[WorkersOrder(f, v)] # None
             /\ worker'[f][v] = "failed" => f \in unheard'
  <2>1. CASE v = w
    BY <1>3, <1>4, <1>5, <1>8, <2>1
  <2>2. CASE v # w
    <3>1. WorkersOrder(f, v) \in OrderIds /\ WorkersOrder(f, v) # WorkersOrder(f, w)
      BY <2>2, IdsAre, WorkersOrdersAre
    <3>2. /\ orders'[WorkersOrder(f, v)] = orders[WorkersOrder(f, v)]
          /\ worker'[f][v] = worker[f][v]
      BY <2>2, <3>1, WorkerTouches
    <3>3. QED
      BY <1>1, <3>2 DEF Crews, CrewAt
  <2>3. QED
    BY <2>1, <2>2
<1>10. CrewAt(f)'
  BY <1>1, <1>2, <1>9 DEF CrewAt, WorkersOrder, OrderOf
<1>11. ASSUME NEW g \in Flows, g # f PROVE CrewAt(g)'
  <2>1. CrewAt(g)
    BY DEF Crews
  <2>2. ASSUME NEW v \in 1..Workers
        PROVE  /\ worker'[g][v] = worker[g][v]
               /\ orders'[WorkersOrder(g, v)] = orders[WorkersOrder(g, v)]
    <3>1. WorkersOrder(g, v) \in OrderIds /\ WorkersOrder(g, v) # WorkersOrder(f, w)
      BY <1>11, IdsAre, WorkersOrdersAre
    <3>2. QED
      BY <1>11, <3>1, WorkerTouches
  <2>3. QED
    BY <1>1, <2>1, <2>2, CrewStays
<1>12. QED
  BY <1>10, <1>11 DEF Crews

LEMMA JoinKeepsCrews ==
  ASSUME WellFormed, Tracks, Crews, NEW f \in Flows, Join(f)
  PROVE  Crews'
<1>1. /\ Doing(f, "parallel") /\ (Advance(f) \/ Fail(f))
      /\ UNCHANGED <<orders, suite, worker, unheard>>
      /\ \A w \in 1..Workers : worker[f][w] \in {"done", "failed"}
  BY DEF Join, mockVars, ghosts, losses
<1>2. OnTrack(f) /\ \A g \in Flows : CrewAt(g)
  BY DEF Tracks, Crews
<1>3. outcome[f] = "running"
  BY <1>1 DEF Doing
<1>4. outcome'[f] # "none" /\ \A g \in Flows : g # f => outcome'[g] = outcome[g]
  BY <1>1, <1>2, <1>3, AdvanceSteps DEF Fail, WellFormed, FlowsTyped
<1>5. ASSUME NEW g \in Flows, g # f PROVE CrewAt(g)'
  BY <1>1, <1>2, <1>4, <1>5, CrewStays
<1>6. CrewAt(f)'
  <2>1. CASE outcome'[f] # "passed"
    BY <1>1, <1>2, <1>4, <2>1, CrewStays
  <2>2. CASE outcome'[f] = "passed"
    <3>1. ~Fail(f)
      BY <1>3, <2>2 DEF Fail, WellFormed, FlowsTyped
    <3>2. \A w \in 1..Workers : worker[f][w] = "done"
      BY <3>1 DEF Join
    <3>3. suite[f] = "idempotency"
      BY <1>1, <1>2, InTheParallelStep
    <3>4. ASSUME NEW w \in 1..Workers
          PROVE  worker'[f][w] = "done" /\ orders'[WorkersOrder(f, w)] # None
      BY <1>1, <1>2, <3>2 DEF CrewAt
    <3>5. QED
      BY <1>1, <2>2, <3>3, <3>4 DEF CrewAt, WorkersOrder, OrderOf
  <2>3. QED
    BY <2>1, <2>2
<1>7. QED
  BY <1>5, <1>6 DEF Crews

LEMMA CrewsKeep ==
  WellFormed /\ Tracks /\ Crews /\ [Next]_vars => Crews'
<1> SUFFICES ASSUME WellFormed, Tracks, Crews, [Next]_vars PROVE Crews'
  OBVIOUS
<1>1. ASSUME UNCHANGED <<orders, suite, outcome, worker, unheard>> PROVE Crews'
  <2>1. ASSUME NEW g \in Flows PROVE CrewAt(g)'
    BY <1>1, CrewStays DEF Crews
  <2>2. QED
    BY <2>1 DEF Crews
<1>2. ASSUME NEW f \in Flows, NEW s \in Suites, Start(f, s) PROVE Crews'
  <2>1. /\ outcome[f] = "none" /\ suite' = [suite EXCEPT ![f] = s]
        /\ outcome' = [outcome EXCEPT ![f] = "running"] /\ UNCHANGED <<orders, worker, unheard>>
    BY <1>2 DEF Start, mockVars, ghosts, losses
  <2>2. FlowsTyped
    BY DEF WellFormed
  <2>3. ASSUME NEW g \in Flows PROVE CrewAt(g)'
    <3>1. CrewAt(g)
      BY DEF Crews
    <3>2. CASE g = f
      <4>1. outcome'[g] # "passed"
        BY <2>1, <2>2, <3>2 DEF FlowsTyped
      <4>2. QED
        BY <2>1, <2>2, <3>1, <3>2, <4>1, CrewStays
    <3>3. CASE g # f
      <4>1. outcome'[g] = outcome[g] /\ suite'[g] = suite[g]
        BY <2>1, <2>2, <3>3 DEF FlowsTyped
      <4>2. QED
        BY <2>1, <3>1, <4>1, CrewStays
    <3>4. QED
      BY <3>2, <3>3
  <2>4. QED
    BY <2>3 DEF Crews
<1>3. ASSUME NEW f \in Flows, LogIn(f) \/ LogInLost(f) \/ AdoptSession(f) PROVE Crews'
  <2>1. /\ outcome[f] = "running" /\ AtStep(f).do \in {"fixture", "adopt"}
        /\ Advance(f) \/ Fail(f)
        /\ UNCHANGED <<orders, suite, worker>> /\ unheard \subseteq unheard'
    BY <1>3 DEF LogIn, LogInLost, AdoptSession, Doing, mockVars, ghosts, losses, Loses
  <2>2. QED
    BY <2>1, CrewsStay
<1>4. ASSUME NEW f \in Flows, CallBackend(f) \/ CallLost(f) PROVE Crews'
  BY <1>4, CallsAreSteps, CallKeepsCrews
<1>5. ASSUME NEW f \in Flows, NEW w \in 1..Workers,
             WorkerLogsIn(f, w) \/ WorkerOrders(f, w) \/ WorkerFails(f, w)
      PROVE  Crews'
  BY <1>5, WorkersStep, WorkerKeepsCrews
<1>6. ASSUME NEW o \in OrderIds, ManualCall(o) PROVE Crews'
  <2>1. /\ UNCHANGED <<suite, outcome, worker, unheard>>
        /\ \A p \in OrderIds : p # o => orders'[p] = orders[p]
        /\ orders[o] # None /\ orders'[o] # None
    BY <1>6, UserCallDoes, AbsenceAssumption DEF flowVars, losses
  <2>2. ASSUME NEW g \in Flows PROVE CrewAt(g)'
    <3>1. CrewAt(g)
      BY DEF Crews
    <3>2. ASSUME NEW w \in 1..Workers
          PROVE  orders'[WorkersOrder(g, w)] = None <=> orders[WorkersOrder(g, w)] = None
      BY <2>1, IdsAre
    <3>3. QED
      BY <2>1, <3>1, <3>2, CrewStays
  <2>3. QED
    BY <2>2 DEF Crews
<1>7. CASE ChangeSessions
  BY <1>1, <1>7 DEF ChangeSessions, mockVars, flowVars, losses
<1>8. CASE UNCHANGED vars
  BY <1>1, <1>8 DEF vars, mockVars, flowVars, ghosts, losses
<1>9. QED
  BY <1>2, <1>3, <1>4, <1>5, <1>6, <1>7, <1>8, JoinKeepsCrews DEF Next, FlowStep

LEMMA FlowsStart == Init => WellFormed /\ Tracks /\ Crews
<1> SUFFICES ASSUME Init PROVE WellFormed /\ Tracks /\ Crews
  OBVIOUS
<1>1. /\ orders = [o \in OrderIds |-> None] /\ idempotency = [k \in Keys |-> None]
      /\ pool = [r \in Roles |-> {}] /\ active = [r \in Roles |-> None]
      /\ suite = [f \in Flows |-> None] /\ step = [f \in Flows |-> 1]
      /\ outcome = [f \in Flows |-> "none"] /\ own = [f \in Flows |-> Empty]
      /\ blind = [f \in Flows |-> FALSE] /\ history = [o \in OrderIds |-> <<>>]
      /\ worker = [f \in Flows |-> [w \in 1..Workers |-> "login"]]
      /\ unheard = {} /\ lost = 0 /\ emptied = FALSE /\ meddled = FALSE /\ manual = 0
  BY DEF Init, BackendInit, SessionInit
<1>2. OrdersTyped /\ SessionTypeOK
  BY <1>1 DEF OrdersTyped, SessionTypeOK
<1>3. FlowsTyped
  <2>1. <<>> \in Seq(Stages)
    OBVIOUS
  <2>2. QED
    BY <1>1, <2>1 DEF FlowsTyped
<1>4. GhostsTyped
  <2>1. manual \in 0..MaxManual /\ lost \in 0..MaxLost
    BY <1>1, SuiteAssumption
  <2>2. emptied \in BOOLEAN /\ meddled \in BOOLEAN
    BY <1>1, Zenon
  <2>3. QED
    BY <1>1, <2>1, <2>2 DEF GhostsTyped
<1>5. ASSUME NEW f \in Flows PROVE OnTrack(f)
  <2>1. \A n \in 1..2 : OrderOf(f, n) \in OrderIds
    BY IdsAre
  <2>2. Keys = Flows
    BY IdsAre
  <2>3. QED
    BY <1>1, <2>1, <2>2 DEF OnTrack
<1>6. ASSUME NEW f \in Flows PROVE CrewAt(f)
  BY <1>1, IdsAre DEF CrewAt
<1>7. QED
  BY <1>2, <1>3, <1>4, <1>5, <1>6 DEF WellFormed, Tracks, Crews

LEMMA FlowsKeep == WellFormed /\ Tracks /\ [Next]_vars => WellFormed' /\ Tracks'
<1> SUFFICES ASSUME WellFormed, Tracks, [Next]_vars PROVE WellFormed' /\ Tracks'
  OBVIOUS
<1>1. ASSUME NEW f \in Flows, CallBackend(f) \/ CallLost(f) PROVE WellFormed' /\ Tracks'
  BY <1>1, CallsAreSteps, CallKeeps
<1>2. ASSUME NEW f \in Flows, NEW w \in 1..Workers,
             WorkerLogsIn(f, w) \/ WorkerOrders(f, w) \/ WorkerFails(f, w)
      PROVE  WellFormed' /\ Tracks'
  BY <1>2, WorkersStep, WorkerKeeps
<1>3. ASSUME NEW f \in Flows, FlowStep(f) PROVE WellFormed' /\ Tracks'
  BY <1>1, <1>2, <1>3, StartKeeps, LogInKeeps, LogInLostKeeps, AdoptKeeps, JoinKeeps
     DEF FlowStep
<1>4. CASE UNCHANGED vars
  <2>1. UNCHANGED <<orders, idempotency, pool, active, suite, step, outcome, own, blind, worker, history,
                    unheard, lost, emptied, meddled, manual>>
    BY <1>4 DEF vars, mockVars, sessionVars, flowVars, ghosts, losses
  <2>2. WellFormed'
    BY <2>1 DEF WellFormed, OrdersTyped, SessionTypeOK, FlowsTyped, GhostsTyped
  <2>3. ASSUME NEW f \in Flows PROVE OnTrack(f)'
    BY <2>1, TrackFrame DEF Tracks
  <2>4. QED
    BY <2>2, <2>3 DEF Tracks
<1>5. QED
  BY <1>3, <1>4, ManualCallKeeps, ChangeSessionsKeeps DEF Next

LEMMA FlowsStayOnTrack == Spec => [](WellFormed /\ Tracks /\ Crews)
  BY FlowsStart, FlowsKeep, CrewsKeep, PTL DEF Spec

\* Whatever the suites, however they overlap and whatever is lost: orders stay orders,
\* sessions sessions, and a running suite is at a step of its script.
THEOREM FlowsTypeOK == Spec => []TypeOK
<1>1. WellFormed => TypeOK
  BY DEF WellFormed, TypeOK, BackendTypeOK, OrdersTyped, FlowsTyped, GhostsTyped
<1>2. QED
  BY <1>1, FlowsStayOnTrack, PTL

-----------------------------------------------------------------------------
(* Suites that passed.                                                     *)

\* How far the orders of a suite have come when it ends.
LEMMA InTheEnd ==
  ASSUME WellFormed, NEW f \in Flows, OnTrack(f), outcome[f] = "passed", NEW n \in 1..2,
         NEW s, s = suite[f]
  PROVE  /\ s \in {"flow_a", "flow_b", "cancellation", "security_rbac", "idempotency",
                   "courier_reassignment", "input_validation"}
         /\ s = "flow_a" /\ n = 1 => OrderAt(f, n, 6)
         /\ s = "flow_b" /\ n = 1 => OrderAt(f, n, 4)
         /\ s = "cancellation" /\ n \in {1, 2} => OrderAt(f, n, 2)
         /\ s = "idempotency" /\ n = 1 => OrderAt(f, n, 1)
         /\ s = "courier_reassignment" /\ n = 1 => OrderAt(f, n, 2)
         /\ \/ s = "idempotency" /\ n = 2
            \/ s \in {"security_rbac", "input_validation"}
            => OrderAt(f, n, 0)
<1>1. s \in Suites
  BY DEF OnTrack
<1>2. s \in {"flow_a", "flow_b", "cancellation", "security_rbac", "idempotency",
             "courier_reassignment", "input_validation"}
  BY <1>1, ScriptShape DEF Scripts
<1>3. PICK k : k = Reached(s, n, Len(Scripts[s]) + 1)
  OBVIOUS
<1>4. OrderAt(f, n, k)
  BY <1>3 DEF OnTrack, PlaceOf
<1>5. PICK i : i = Len(Scripts[s]) + 1
  OBVIOUS
<1>6. /\ s = "flow_a" => i = 12
      /\ s = "flow_b" => i = 8
      /\ s = "cancellation" => i = 11
      /\ s = "idempotency" => i = 6
      /\ s = "courier_reassignment" => i = 9
  <2>1. Len(Scripts["flow_a"]) = 11 /\ Len(Scripts["flow_b"]) = 7
    BY FlowAEntries, FlowBEntries
  <2>2. Len(Scripts["cancellation"]) = 10 /\ Len(Scripts["idempotency"]) = 5
    BY CancellationEntries, IdempotencyEntries
  <2>3. Len(Scripts["courier_reassignment"]) = 8
    BY CourierReassignmentEntries
  <2>4. PICK last : last = Len(Scripts[s])
    OBVIOUS
  <2>5. i = last + 1
    BY <1>5, <2>4
  <2>6. /\ s = "flow_a" => last = 11
        /\ s = "flow_b" => last = 7
        /\ s = "cancellation" => last = 10
        /\ s = "idempotency" => last = 5
        /\ s = "courier_reassignment" => last = 8
    BY <2>1, <2>2, <2>3, <2>4, Zenon
  <2>7. QED
    BY <2>5, <2>6
<1>7. /\ Reached("flow_a", 1, 12) = 6
      /\ Reached("flow_b", 1, 8) = 4
      /\ Reached("cancellation", 1, 11) = 2
      /\ Reached("cancellation", 2, 11) = 2
  BY DEF Reached
<1>8. /\ Reached("idempotency", 1, 6) = 1
      /\ Reached("idempotency", 2, 6) = 0
      /\ Reached("courier_reassignment", 1, 9) = 2
  BY DEF Reached
<1>9. k = Reached(s, n, i)
  BY <1>3, <1>5
<1>10. s \in {"security_rbac", "input_validation"} => k = 0
  BY <1>3 DEF Reached
<1>11. QED
  BY <1>2, <1>4, <1>6, <1>7, <1>8, <1>9, <1>10

\* A flow whose orders have gone the whole way, as its history says.
LEMMA WholeWay ==
  ASSUME WellFormed, NEW f \in Flows, suite[f] \in {"flow_a", "flow_b"}, ~blind[f],
         NEW path \in Seq(Stages), path = Path(suite[f], 1), NEW k, k = Len(path), k # 0,
         OrderAt(f, 1, k)
  PROVE  /\ orders[OrderOf(f, 1)] # None /\ history[OrderOf(f, 1)] = path
         /\ TouchedByUsers(OrderOf(f, 1)) \/ StagesOf(OrderOf(f, 1)) = path
<1>1. PICK o \in OrderIds : o = OrderOf(f, 1)
  BY IdsAre
<1>2. history[o] \in Seq(Stages)
  BY DEF WellFormed, FlowsTyped
<1>3. orders[o] # None /\ Len(history[o]) = k /\ \A i \in 1..k : history[o][i] = path[i]
  BY <1>1 DEF OrderAt
<1>4. history[o] = path
  BY <1>2, <1>3, SeqEqual
<1>5. ASSUME ~orders[o].touched PROVE StagesOf(o) = path
  <2>1. Len(orders[o].trail) = k /\ \A i \in 1..k : orders[o].trail[i].stage = path[i]
    BY <1>1, <1>5 DEF OrderAt
  <2>2. orders[o].trail \in Seq([stage : Stages, by : {"CLIENT", "RESTAURANT", "COURIER", "ADMIN"}])
    BY <1>3, OrderOrNone DEF OrderType
  <2>3. DOMAIN orders[o].trail = 1..k
    BY <2>1, <2>2
  <2>4. path = [i \in 1..k |-> path[i]]
    OBVIOUS
  <2>5. StagesOf(o) = [i \in 1..k |-> orders[o].trail[i].stage]
    BY <2>3 DEF StagesOf
  <2>6. [i \in 1..k |-> orders[o].trail[i].stage] = [i \in 1..k |-> path[i]]
    BY <2>1
  <2>7. QED
    BY <2>4, <2>5, <2>6
<1>6. QED
  BY <1>1, <1>3, <1>4, <1>5 DEF TouchedByUsers

\* The order that is at a stage, as far as users let it be, has its status.
LEMMA EndsAt ==
  ASSUME WellFormed, NEW f \in Flows, ~blind[f], NEW n \in 1..2, NEW k, k # 0, OrderAt(f, n, k)
  PROVE  /\ orders[OrderOf(f, n)] # None
         /\ TouchedByUsers(OrderOf(f, n)) \/
              /\ Path(suite[f], n)[k] = "CANCELLED" => Status(f, n) = "cancelled"
              /\ Path(suite[f], n)[k] = "PREPARING" => Status(f, n) = "cooking"
<1>1. PICK order : order = orders[OrderOf(f, n)]
  OBVIOUS
<1>2. order # None /\ OrderOf(f, n) \in OrderIds
  BY <1>1, IdsAre DEF OrderAt
<1>3. order.status \in Statuses
  BY <1>1, <1>2, OrderOrNone DEF OrderType
<1>4. order.touched \/ StageOf(order) = Path(suite[f], n)[k]
  BY <1>1 DEF OrderAt
<1>5. /\ StageOf(order) = "PREPARING" => order.status = "cooking"
      /\ StageOf(order) = "CANCELLED" => order.status = "cancelled"
  BY <1>3, StageTells
<1>6. QED
  BY <1>1, <1>2, <1>4, <1>5 DEF TouchedByUsers, Status

\* A passed suite has done what it claims, in whosever session its calls were made.
LEMMA PassedOnTrack == WellFormed /\ Tracks /\ Crews => PassedMeansDone
<1> SUFFICES ASSUME WellFormed, Tracks, Crews,
                    NEW f \in Flows, outcome[f] = "passed", ~blind[f]
             PROVE  LET made == {n \in 1..(2 + Workers) : orders[OrderOf(f, n)] # None}
                        changed == \E n \in made : TouchedByUsers(OrderOf(f, n))
                    IN /\ suite[f] = "flow_a" =>
                            /\ history[OrderOf(f, 1)] = FlowAPath
                            /\ changed \/ StagesOf(OrderOf(f, 1)) = FlowAPath
                       /\ suite[f] = "flow_b" =>
                            /\ history[OrderOf(f, 1)] = FlowBPath
                            /\ changed \/ StagesOf(OrderOf(f, 1)) = FlowBPath
                       /\ suite[f] = "cancellation" =>
                            changed \/ (Status(f, 1) = "cancelled" /\ Status(f, 2) = "cooking")
                       /\ suite[f] = "idempotency" => made = {1} \cup 3..(2 + Workers)
                       /\ suite[f] = "courier_reassignment" =>
                            changed \/ orders[OrderOf(f, 1)].courier = CourierOf(f, 2)
                       /\ suite[f] \in {"security_rbac", "input_validation"} => made = {}
  BY DEF PassedMeansDone
<1> DEFINE made == {n \in 1..(2 + Workers) : orders[OrderOf(f, n)] # None}
           changed == \E n \in made : TouchedByUsers(OrderOf(f, n))
<1>1. OnTrack(f) /\ CrewAt(f)
  BY DEF Tracks, Crews
<1>2. \A n \in 1..2 : orders[OrderOf(f, n)] # None /\ TouchedByUsers(OrderOf(f, n)) => changed
  BY SuiteAssumption
<1>3. ASSUME suite[f] = "flow_a"
      PROVE  history[OrderOf(f, 1)] = FlowAPath /\ (changed \/ StagesOf(OrderOf(f, 1)) = FlowAPath)
  <2>1. FlowAPath \in Seq(Stages) /\ Len(FlowAPath) = 6 /\ FlowAPath = Path(suite[f], 1)
    BY <1>3 DEF FlowAPath, Stages, Path
  <2>2. OrderAt(f, 1, 6)
    BY <1>1, <1>3, InTheEnd
  <2>3. PICK path \in Seq(Stages) : path = FlowAPath
    BY <2>1
  <2>4. PICK k : k = 6
    OBVIOUS
  <2>5. k = Len(path) /\ k # 0 /\ path = Path(suite[f], 1)
    BY <2>1, <2>3, <2>4
  <2>6. OrderAt(f, 1, k) /\ suite[f] \in {"flow_a", "flow_b"}
    BY <1>3, <2>2, <2>4
  <2>7. /\ orders[OrderOf(f, 1)] # None /\ history[OrderOf(f, 1)] = path
        /\ TouchedByUsers(OrderOf(f, 1)) \/ StagesOf(OrderOf(f, 1)) = path
    BY <2>5, <2>6, WholeWay
  <2>8. QED
    BY <1>2, <2>3, <2>7
<1>4. ASSUME suite[f] = "flow_b"
      PROVE  history[OrderOf(f, 1)] = FlowBPath /\ (changed \/ StagesOf(OrderOf(f, 1)) = FlowBPath)
  <2>1. FlowBPath \in Seq(Stages) /\ Len(FlowBPath) = 4 /\ FlowBPath = Path(suite[f], 1)
    BY <1>4 DEF FlowBPath, Stages, Path
  <2>2. OrderAt(f, 1, 4)
    BY <1>1, <1>4, InTheEnd
  <2>3. PICK path \in Seq(Stages) : path = FlowBPath
    BY <2>1
  <2>4. PICK k : k = 4
    OBVIOUS
  <2>5. k = Len(path) /\ k # 0 /\ path = Path(suite[f], 1)
    BY <2>1, <2>3, <2>4
  <2>6. OrderAt(f, 1, k) /\ suite[f] \in {"flow_a", "flow_b"}
    BY <1>4, <2>2, <2>4
  <2>7. /\ orders[OrderOf(f, 1)] # None /\ history[OrderOf(f, 1)] = path
        /\ TouchedByUsers(OrderOf(f, 1)) \/ StagesOf(OrderOf(f, 1)) = path
    BY <2>5, <2>6, WholeWay
  <2>8. QED
    BY <1>2, <2>3, <2>7
<1>5. ASSUME suite[f] = "cancellation"
      PROVE  changed \/ (Status(f, 1) = "cancelled" /\ Status(f, 2) = "cooking")
  <2>1. OrderAt(f, 1, 2) /\ OrderAt(f, 2, 2)
    BY <1>1, <1>5, InTheEnd
  <2>2. Path(suite[f], 1)[2] = "CANCELLED" /\ Path(suite[f], 2)[2] = "PREPARING"
    BY <1>5 DEF Path
  <2>3. orders[OrderOf(f, 1)] # None /\ (TouchedByUsers(OrderOf(f, 1)) \/ Status(f, 1) = "cancelled")
    BY <2>1, <2>2, EndsAt
  <2>4. orders[OrderOf(f, 2)] # None /\ (TouchedByUsers(OrderOf(f, 2)) \/ Status(f, 2) = "cooking")
    BY <2>1, <2>2, EndsAt
  <2>5. QED
    BY <1>2, <2>3, <2>4
<1>6. ASSUME suite[f] = "idempotency" PROVE made = {1} \cup 3..(2 + Workers)
  <2>1. OrderAt(f, 1, 1) /\ OrderAt(f, 2, 0)
    BY <1>1, <1>6, InTheEnd
  <2>2. orders[OrderOf(f, 1)] # None /\ orders[OrderOf(f, 2)] = None
    BY <2>1 DEF OrderAt
  <2>3. ASSUME NEW n \in 3..(2 + Workers) PROVE orders[OrderOf(f, n)] # None
    <3>1. PICK w \in 1..Workers : n = 2 + w
      BY SuiteAssumption
    <3>2. orders[WorkersOrder(f, w)] # None
      BY <1>1, <1>6 DEF CrewAt
    <3>3. QED
      BY <3>1, <3>2 DEF WorkersOrder
  <2>4. \A n \in 1..(2 + Workers) : n = 1 \/ n = 2 \/ n \in 3..(2 + Workers)
    BY SuiteAssumption
  <2>5. \A n \in {1, 2} \cup 3..(2 + Workers) : n \in 1..(2 + Workers)
    BY SuiteAssumption
  <2>6. 2 \notin 3..(2 + Workers)
    BY SuiteAssumption
  <2>7. QED
    BY <2>2, <2>3, <2>4, <2>5, <2>6
<1>7. ASSUME suite[f] = "courier_reassignment"
      PROVE  changed \/ orders[OrderOf(f, 1)].courier = CourierOf(f, 2)
  <2>1. OrderAt(f, 1, 2)
    BY <1>1, <1>7, InTheEnd
  <2>2. orders[OrderOf(f, 1)] # None
    BY <2>1 DEF OrderAt
  <2>3. orders[OrderOf(f, 1)].touched \/ orders[OrderOf(f, 1)].courier = CourierOf(f, 2)
    BY <1>1, <1>7 DEF OnTrack
  <2>4. QED
    BY <1>2, <2>2, <2>3 DEF TouchedByUsers
<1>8. ASSUME suite[f] \in {"security_rbac", "input_validation"} PROVE made = {}
  <2>1. \A n \in 1..2 : OrderAt(f, n, 0)
    BY <1>1, <1>8, InTheEnd
  <2>2. \A n \in 1..2 : orders[OrderOf(f, n)] = None
    BY <2>1 DEF OrderAt
  <2>3. \A w \in 1..Workers : orders[WorkersOrder(f, w)] = None
    BY <1>1, <1>8 DEF CrewAt
  <2>4. ASSUME NEW n \in 1..(2 + Workers) PROVE orders[OrderOf(f, n)] = None
    BY <2>2, <2>3, EveryOrder
  <2>5. QED
    BY <2>4
<1>9. QED
  BY <1>3, <1>4, <1>5, <1>6, <1>7, <1>8

\* What a passed suite claims has been done on the backend: its orders went the whole way
\* of their flow or stopped where they were cancelled, one key made one order, and no
\* refused call left an order behind.
THEOREM PassedIsDone == Spec => []PassedMeansDone
  BY FlowsStayOnTrack, PassedOnTrack, PTL

-----------------------------------------------------------------------------
(* The protocol of orders.                                                 *)

\* A step that touches no order: a flow may turn blind to its courier, if it has none.
Quiet ==
  /\ UNCHANGED <<orders, history>>
  /\ \A f \in Flows :
       \/ blind'[f] = blind[f]
       \/ blind'[f] = TRUE /\ \A n \in 1..(2 + Workers) : orders[OrderOf(f, n)] = None

LEMMA LogInLostIsQuiet ==
  ASSUME WellFormed, Tracks, Crews, NEW f \in Flows, LogInLost(f)
  PROVE  Quiet
<1>1. /\ outcome[f] = "running" /\ AtStep(f).do = "fixture" /\ UNCHANGED <<orders, history>>
      /\ \/ blind' = blind
         \/ AtStep(f).role = "courier" /\ ~AtStep(f).must /\ blind' = [blind EXCEPT ![f] = TRUE]
  BY DEF LogInLost, Doing, mockVars
<1>2. OnTrack(f) /\ blind \in [Flows -> BOOLEAN]
  BY DEF Tracks, WellFormed, FlowsTyped
<1>3. CASE blind' = blind
  BY <1>1, <1>3 DEF Quiet
<1>4. CASE blind' = [blind EXCEPT ![f] = TRUE] /\ AtStep(f).role = "courier" /\ ~AtStep(f).must
  <2>1. FixtureKnown(suite[f], step[f]) /\ AtStep(f) = Scripts[suite[f]][step[f]]
    BY <1>1, <1>2, AtAStep DEF StepKnown, CallKnown, AdoptKnown, ParallelKnown
  <2>2. \A n \in 1..2 : Reached(suite[f], n, step[f]) = 0
    BY <1>4, <2>1 DEF FixtureKnown
  <2>3. \A n \in 1..2 : OrderAt(f, n, Reached(suite[f], n, step[f]))
    BY <1>1, <1>2, AtAStep
  <2>4. \A n \in 1..2 : orders[OrderOf(f, n)] = None
    BY <2>2, <2>3 DEF OrderAt
  <2>5. \A w \in 1..Workers : orders[WorkersOrder(f, w)] = None
    BY <1>4, <2>1 DEF FixtureKnown, Crews, CrewAt
  <2>6. ASSUME NEW n \in 1..(2 + Workers) PROVE orders[OrderOf(f, n)] = None
    BY <2>4, <2>5, EveryOrder
  <2>7. \A g \in Flows : IF g = f THEN blind'[g] = TRUE ELSE blind'[g] = blind[g]
    BY <1>2, <1>4
  <2>8. QED
    BY <1>1, <2>6, <2>7 DEF Quiet
<1>5. QED
  BY <1>1, <1>3, <1>4

\* Orders change in a suite's call or a worker's or a user's, and in no other step.
LEMMA WhoChangesOrders ==
  ASSUME WellFormed, Tracks, Crews, [Next]_vars
  PROVE  \/ Quiet
         \/ \E f \in Flows : \E code : CallStep(f, code)
         \/ \E f \in Flows : \E w \in 1..Workers : WorkerStep(f, w)
         \/ \E o \in OrderIds : ManualCall(o)
<1>1. ASSUME UNCHANGED <<orders, history, blind>> PROVE Quiet
  BY <1>1 DEF Quiet
<1>2. CASE UNCHANGED vars
  BY <1>1, <1>2 DEF vars, mockVars, flowVars
<1>3. CASE ChangeSessions
  BY <1>1, <1>3 DEF ChangeSessions, mockVars, flowVars, losses
<1>4. ASSUME NEW f \in Flows, FlowStep(f)
      PROVE  \/ Quiet \/ \E code : CallStep(f, code)
             \/ \E w \in 1..Workers : WorkerStep(f, w)
  <2>1. ASSUME NEW s \in Suites, Start(f, s) PROVE Quiet
    BY <1>1, <2>1 DEF Start, mockVars
  <2>2. CASE LogIn(f)
    BY <1>1, <2>2 DEF LogIn, mockVars
  <2>3. CASE LogInLost(f)
    BY <2>3, LogInLostIsQuiet
  <2>4. CASE AdoptSession(f)
    BY <1>1, <2>4 DEF AdoptSession, mockVars
  <2>5. CASE CallBackend(f) \/ CallLost(f)
    BY <2>5, CallsAreSteps
  <2>6. ASSUME NEW w \in 1..Workers,
               WorkerLogsIn(f, w) \/ WorkerOrders(f, w) \/ WorkerFails(f, w)
        PROVE  WorkerStep(f, w)
    BY <2>6, WorkersStep
  <2>7. CASE Join(f)
    BY <1>1, <2>7 DEF Join, mockVars
  <2>8. QED
    BY <1>4, <2>1, <2>2, <2>3, <2>4, <2>5, <2>6, <2>7 DEF FlowStep
<1>5. QED
  BY <1>2, <1>3, <1>4 DEF Next

\* The order a worker changes is its own, and was not there before.
LEMMA WorkerMakes ==
  ASSUME WellFormed, Crews, NEW f \in Flows, NEW w \in 1..Workers, WorkerStep(f, w),
         NEW p \in OrderIds, orders'[p] # orders[p]
  PROVE  /\ p = WorkersOrder(f, w) /\ orders[p] = None
         /\ orders'[p] = NewOrder("INDEPENDENT")
<1>1. p = WorkersOrder(f, w)
  BY WorkerTouches
<1>2. PICK to \in {"order", "done", "failed"} : WorkerTurns(f, w, to)
  BY DEF WorkerStep
<1>3. worker[f][w] = "order" /\ MakesOrder(f, w)
  BY <1>2 DEF WorkerTurns, mockVars
<1>4. orders[p] = None
  BY <1>1, <1>3 DEF Crews, CrewAt
<1>5. PICK new : new = NewOrder("INDEPENDENT")
  OBVIOUS
<1>6. orders' = [orders EXCEPT ![p] = new]
  BY <1>1, <1>3, <1>5 DEF MakesOrder
<1>7. orders'[p] = new
  BY <1>6 DEF WellFormed, OrdersTyped
<1>8. QED
  BY <1>1, <1>4, <1>5, <1>7

\* The trail of one order.
TrailOf(order) ==
  /\ Len(order.trail) >= 1
  /\ ~order.touched => Protocol!Stage(order.trail) = StageOf(order)

LEMMA TurnsKeepsTrail ==
  ASSUME NEW before \in OrderType, NEW after, NEW actor, NEW byUser \in BOOLEAN,
         Turns(before, after, actor, byUser), TrailOf(before)
  PROVE  TrailOf(after)
<1>1. CASE after.trail = before.trail
  <2>1. after.touched \/ (~before.touched /\ StageOf(after) = StageOf(before))
    BY <1>1, AppendProperties DEF Turns, OrderType
  <2>2. QED
    BY <1>1, <2>1 DEF TrailOf
<1>2. CASE after.trail # before.trail
  <2>1. PICK e : e = [stage |-> StageOf(after), by |-> actor]
    OBVIOUS
  <2>2. after.trail = Append(before.trail, e) /\ after \in OrderType
    BY <1>2, <2>1 DEF Turns
  <2>3. PICK S : before.trail \in Seq(S) /\ after.trail \in Seq(S)
    BY <2>2 DEF OrderType
  <2>4. PICK n \in Nat : n = Len(before.trail)
    BY <2>3
  <2>5. Len(after.trail) = n + 1 /\ after.trail[n + 1] = e
    BY <2>2, <2>3, <2>4
  <2>6. e.stage = StageOf(after)
    BY <2>1
  <2>7. QED
    BY <2>4, <2>5, <2>6 DEF TrailOf, Protocol!Stage
<1>3. QED
  BY <1>1, <1>2

LEMMA TrailsKeep ==
  ASSUME WellFormed, Tracks, Crews, Trails, [Next]_vars
  PROVE  Trails'
<1>1. \A o \in OrderIds : orders[o] # None => orders[o] \in OrderType /\ TrailOf(orders[o])
  BY OrderOrNone DEF Trails, TrailOf
<1>2. SUFFICES ASSUME NEW p \in OrderIds, orders'[p] # None, orders'[p] # orders[p]
               PROVE  TrailOf(orders'[p])
  <2>1. ASSUME NEW p \in OrderIds, orders'[p] # None PROVE TrailOf(orders'[p])
    BY <1>1, <1>2, <2>1
  <2>2. QED
    BY <2>1 DEF Trails, TrailOf
<1>3. ASSUME NEW f \in Flows, NEW code, CallStep(f, code) PROVE TrailOf(orders'[p])
  <2>1. OnTrack(f) /\ Doing(f, "call")
    BY <1>3 DEF Tracks, CallStep
  <2>2. UNCHANGED mockVars \/ Process(CallOf(f), TokenFor(f), FALSE)
    BY <1>3, Zenon DEF CallStep, Answered
  <2>3. Process(CallOf(f), TokenFor(f), FALSE)
    BY <1>2, <2>2 DEF mockVars
  <2>4. Effect(f)
    BY <2>1, <2>3, CallEffect
  <2>5. p = OrderOf(f, AtStep(f).n)
    BY <1>2, <2>4 DEF Effect
  <2>6. PICK actor : actor = Actor[RoleFor[AtStep(f).to]]
    OBVIOUS
  <2>7. \/ orders'[p] = NewOrder(KindOf(suite[f], AtStep(f).n))
        \/ orders[p] \in OrderType /\ Turns(orders[p], orders'[p], actor, FALSE)
    BY <1>2, <2>4, <2>5, <2>6 DEF Effect, mockVars
  <2>8. CASE orders'[p] = NewOrder(KindOf(suite[f], AtStep(f).n))
    <3>1. KindOf(suite[f], AtStep(f).n) \in {"RESTAURANT", "INDEPENDENT"}
      BY DEF KindOf
    <3>2. /\ orders'[p].trail = <<[stage |-> "NEW", by |-> "CLIENT"]>>
          /\ StageOf(orders'[p]) = "NEW"
      BY <2>8, <3>1, NewOrderIs
    <3>3. QED
      BY <3>2 DEF TrailOf, Protocol!Stage
  <2>9. CASE orders[p] \in OrderType /\ Turns(orders[p], orders'[p], actor, FALSE)
    <3>1. TrailOf(orders[p])
      BY <1>1, <2>9, AbsenceAssumption
    <3>2. PICK byUser \in BOOLEAN : byUser = FALSE
      OBVIOUS
    <3>3. Turns(orders[p], orders'[p], actor, byUser)
      BY <2>9, <3>2
    <3>4. QED
      BY <2>9, <3>1, <3>3, TurnsKeepsTrail
  <2>10. QED
    BY <2>7, <2>8, <2>9
<1>4. ASSUME NEW o \in OrderIds, ManualCall(o) PROVE TrailOf(orders'[p])
  <2>1. /\ p = o /\ orders[o] \in OrderType /\ orders'[o].trail = orders[o].trail
        /\ orders[o].touched => orders'[o].touched
        /\ ~orders'[o].touched => StageOf(orders'[o]) = StageOf(orders[o])
    BY <1>2, <1>4, UserCallDoes
  <2>2. TrailOf(orders[o])
    BY <1>1, <2>1, AbsenceAssumption
  <2>3. QED
    BY <2>1, <2>2 DEF TrailOf
<1>5. ASSUME NEW f \in Flows, NEW w \in 1..Workers, WorkerStep(f, w) PROVE TrailOf(orders'[p])
  <2>1. orders'[p] = NewOrder("INDEPENDENT")
    BY <1>2, <1>5, WorkerMakes
  <2>2. PICK new : new = NewOrder("INDEPENDENT")
    OBVIOUS
  <2>3. new.trail = <<[stage |-> "NEW", by |-> "CLIENT"]>> /\ StageOf(new) = "NEW"
    BY <2>2, NewOrderIs
  <2>4. TrailOf(new)
    BY <2>3 DEF TrailOf, Protocol!Stage
  <2>5. QED
    BY <2>1, <2>2, <2>4
<1>6. QED
  BY <1>2, <1>3, <1>4, <1>5, WhoChangesOrders DEF Quiet

\* What the protocol sees of an order.
ProtocolKind(o) == IF ProtocolTrail(o) = <<>> THEN "none" ELSE orders[o].kind

SameView(o) == ProtocolTrail(o)' = ProtocolTrail(o) /\ ProtocolKind(o)' = ProtocolKind(o)

LEMMA ViewStays ==
  ASSUME NEW o \in OrderIds, blind'[o[1]] = blind[o[1]],
         \/ orders'[o] = orders[o]
         \/ /\ orders[o] # None /\ orders'[o] # None
            /\ orders'[o].trail = orders[o].trail /\ orders'[o].kind = orders[o].kind
  PROVE  SameView(o)
  BY DEF SameView, ProtocolTrail, ProtocolKind

LEMMA AllStay ==
  ASSUME \A o \in OrderIds : SameView(o)
  PROVE  UNCHANGED Protocol!protocolVars
<1>1. [o \in OrderIds |-> ProtocolTrail(o)]' = [o \in OrderIds |-> ProtocolTrail(o)]
  BY DEF SameView
<1>2. [o \in OrderIds |-> ProtocolKind(o)]' = [o \in OrderIds |-> ProtocolKind(o)]
  BY DEF SameView
<1>3. QED
  BY <1>1, <1>2 DEF Protocol!protocolVars, ProtocolKind

\* One order changes: by a creation or a move of the protocol.
LEMMA OneIsCreated ==
  ASSUME NEW o \in OrderIds, \A p \in OrderIds : p # o => SameView(p),
         NEW k \in {"RESTAURANT", "INDEPENDENT"}, ProtocolTrail(o) = <<>>,
         ProtocolTrail(o)' = <<[stage |-> "NEW", by |-> "CLIENT"]>>, ProtocolKind(o)' = k
  PROVE  Protocol!Next
<1> DEFINE kinds == [p \in OrderIds |-> ProtocolKind(p)]
           trails == [p \in OrderIds |-> ProtocolTrail(p)]
<1>1. kinds[o] = "none"
  BY DEF ProtocolKind
<1>2. kinds' = [kinds EXCEPT ![o] = k]
  BY DEF SameView
<1>3. trails' = [trails EXCEPT ![o] = <<[stage |-> "NEW", by |-> "CLIENT"]>>]
  BY DEF SameView
<1>4. Protocol!Create(o, k)
  BY <1>1, <1>2, <1>3 DEF Protocol!Create, ProtocolKind
<1>5. QED
  BY <1>4 DEF Protocol!Next, Protocol!Kinds

LEMMA OneIsMoved ==
  ASSUME NEW o \in OrderIds, \A p \in OrderIds : p # o => SameView(p),
         ProtocolKind(o) # "none", ProtocolKind(o)' = ProtocolKind(o),
         NEW to, NEW actor,
         Protocol!ValidateTransition(ProtocolKind(o), Protocol!Stage(ProtocolTrail(o)), to, actor),
         ProtocolTrail(o)' = Append(ProtocolTrail(o), [stage |-> to, by |-> actor])
  PROVE  Protocol!Next
<1> DEFINE kinds == [p \in OrderIds |-> ProtocolKind(p)]
           trails == [p \in OrderIds |-> ProtocolTrail(p)]
           next == Protocol!Followers(kinds[o], Protocol!Stage(trails[o]))
<1>1. kinds[o] = ProtocolKind(o) /\ trails[o] = ProtocolTrail(o)
  OBVIOUS
<1>2. kinds[o] # "none" /\ to \in DOMAIN next /\ actor \in next[to]
  BY <1>1 DEF Protocol!ValidateTransition
<1>3. kinds' = kinds
  BY DEF SameView
<1>4. trails' = [trails EXCEPT ![o] = Append(trails[o], [stage |-> to, by |-> actor])]
  <2>1. PICK new : new = Append(ProtocolTrail(o), [stage |-> to, by |-> actor])
    OBVIOUS
  <2>2. ProtocolTrail(o)' = new
    BY <2>1
  <2>3. trails' = [trails EXCEPT ![o] = new]
    BY <2>2 DEF SameView
  <2>4. QED
    BY <1>1, <2>1, <2>3
<1>5. Protocol!Move(o)
  BY <1>2, <1>3, <1>4 DEF Protocol!Move, ProtocolKind
<1>6. QED
  BY <1>5 DEF Protocol!Next

\* A suite's call does to its order what the protocol allows, if anything.
LEMMA CallFollows ==
  ASSUME WellFormed, Tracks, Trails, NEW f \in Flows, NEW code, CallStep(f, code)
  PROVE  Protocol!Next \/ UNCHANGED Protocol!protocolVars
<1>1. OnTrack(f) /\ Doing(f, "call") /\ blind' = blind
  BY DEF Tracks, CallStep
<1>2. UNCHANGED mockVars \/ Process(CallOf(f), TokenFor(f), FALSE)
  BY Zenon DEF CallStep, Answered
<1>3. PICK o : o = OrderOf(f, AtStep(f).n)
  OBVIOUS
<1>4. o \in OrderIds /\ o[1] = f
  BY <1>1, <1>3, AtACall DEF OrderOf
<1>5. PICK actor : actor = Actor[RoleFor[AtStep(f).to]]
  OBVIOUS
<1>6. CASE UNCHANGED mockVars
  BY <1>1, <1>6, ViewStays, AllStay DEF mockVars
<1>7. ASSUME Effect(f) PROVE Protocol!Next \/ UNCHANGED Protocol!protocolVars
  <2>1. \A p \in OrderIds : p # o => orders'[p] = orders[p]
    BY <1>3, <1>7 DEF Effect
  <2>2. \A p \in OrderIds : p # o => SameView(p)
    BY <1>1, <2>1, ViewStays
  <2>3. ASSUME SameView(o) PROVE UNCHANGED Protocol!protocolVars
    BY <2>2, <2>3, AllStay
  <2>4. CASE blind[f]
    <3>1. SameView(o)
      BY <1>1, <1>4, <2>4 DEF SameView, ProtocolTrail, ProtocolKind
    <3>2. QED
      BY <2>3, <3>1
  <2>5. CASE ~blind[f] /\ orders[o] = None /\ orders'[o] = NewOrder(KindOf(suite[f], AtStep(f).n))
    <3>1. PICK k \in {"RESTAURANT", "INDEPENDENT"} : k = KindOf(suite[f], AtStep(f).n)
      BY DEF KindOf
    <3>2. /\ orders'[o].trail = <<[stage |-> "NEW", by |-> "CLIENT"]>> /\ orders'[o].kind = k
          /\ orders'[o] # None
      BY <2>5, <3>1, NewOrderIs, AbsenceAssumption
    <3>3. ProtocolTrail(o) = <<>>
      BY <2>5 DEF ProtocolTrail
    <3>4. ProtocolTrail(o)' = <<[stage |-> "NEW", by |-> "CLIENT"]>>
      BY <1>1, <1>4, <2>5, <3>2 DEF ProtocolTrail
    <3>5. ProtocolKind(o)' = k
      BY <3>2, <3>4 DEF ProtocolKind
    <3>6. QED
      BY <1>4, <2>2, <3>1, <3>3, <3>4, <3>5, OneIsCreated
  <2>6. CASE /\ ~blind[f] /\ orders[o] \in OrderType /\ Turns(orders[o], orders'[o], actor, FALSE)
             /\ ~blind[f] /\ ~orders[o].touched /\ StageOf(orders'[o]) # StageOf(orders[o]) =>
                  Protocol!ValidateTransition(orders[o].kind, StageOf(orders[o]),
                                              StageOf(orders'[o]), actor)
    <3>1. /\ orders[o] # None /\ orders'[o] # None /\ orders'[o] \in OrderType
          /\ orders'[o].kind = orders[o].kind
      BY <2>6, AbsenceAssumption DEF Turns
    <3>2. CASE orders'[o].trail = orders[o].trail
      BY <1>1, <1>4, <2>3, <3>1, <3>2, ViewStays
    <3>3. CASE orders'[o].trail # orders[o].trail
      <4>1. PICK to : to = StageOf(orders'[o])
        OBVIOUS
      <4>2. /\ ~orders[o].touched /\ to # StageOf(orders[o])
            /\ orders'[o].trail = Append(orders[o].trail, [stage |-> to, by |-> actor])
        BY <2>6, <3>3, <4>1 DEF Turns
      <4>3. Len(orders[o].trail) >= 1 /\ Protocol!Stage(orders[o].trail) = StageOf(orders[o])
        BY <1>4, <3>1, <4>2 DEF Trails
      <4>4. ProtocolTrail(o) = orders[o].trail /\ ProtocolTrail(o)' = orders'[o].trail
        BY <1>1, <1>4, <2>6, <3>1 DEF ProtocolTrail
      <4>5. orders[o].trail # <<>>
        BY <4>3
      <4>6. orders'[o].trail # <<>>
        <5>1. PICK S : orders[o].trail \in Seq(S)
          BY <2>6 DEF OrderType
        <5>2. Len(orders'[o].trail) = Len(orders[o].trail) + 1
          BY <4>2, <5>1
        <5>3. QED
          BY <4>3, <5>1, <5>2
      <4>7. ProtocolKind(o) = orders[o].kind /\ ProtocolKind(o)' = orders[o].kind
        BY <3>1, <4>4, <4>5, <4>6 DEF ProtocolKind
      <4>8. orders[o].kind # "none"
        BY <2>6 DEF OrderType
      <4>9. Protocol!ValidateTransition(ProtocolKind(o), Protocol!Stage(ProtocolTrail(o)), to, actor)
        BY <2>6, <4>1, <4>2, <4>3, <4>4, <4>7
      <4>10. ProtocolTrail(o)' = Append(ProtocolTrail(o), [stage |-> to, by |-> actor])
        BY <4>2, <4>4
      <4>11. QED
        BY <1>4, <2>2, <4>7, <4>8, <4>9, <4>10, OneIsMoved
    <3>4. QED
      BY <3>2, <3>3
  <2>7. CASE orders'[o] = orders[o]
    BY <1>1, <1>4, <2>3, <2>7, ViewStays
  <2>8. QED
    BY <1>3, <1>5, <1>7, <2>4, <2>5, <2>6, <2>7 DEF Effect, mockVars
<1>8. QED
  BY <1>1, <1>2, <1>6, <1>7, CallEffect

LEMMA StepFollows ==
  ASSUME WellFormed, Tracks, Crews, Trails, [Next]_vars
  PROVE  Protocol!Next \/ UNCHANGED Protocol!protocolVars
<1>1. CASE Quiet
  <2>1. ASSUME NEW o \in OrderIds PROVE SameView(o)
    <3>1. PICK f \in Flows, n \in 1..(2 + Workers) : f = o[1] /\ o = OrderOf(f, n)
      BY IdsAre
    <3>2. orders'[o] = orders[o]
      BY <1>1 DEF Quiet
    <3>3. CASE blind'[f] = blind[f]
      BY <3>1, <3>2, <3>3, ViewStays
    <3>4. CASE orders[o] = None
      BY <3>2, <3>4 DEF SameView, ProtocolTrail, ProtocolKind
    <3>5. QED
      BY <1>1, <3>1, <3>3, <3>4 DEF Quiet
  <2>2. QED
    BY <2>1, AllStay
<1>2. ASSUME NEW o \in OrderIds, ManualCall(o) PROVE UNCHANGED Protocol!protocolVars
  <2>1. /\ blind' = blind /\ \A p \in OrderIds : p # o => orders'[p] = orders[p]
        /\ orders[o] \in OrderType /\ orders'[o] \in OrderType
        /\ orders'[o].kind = orders[o].kind /\ orders'[o].trail = orders[o].trail
    BY <1>2, UserCallDoes DEF flowVars
  <2>2. orders[o] # None /\ orders'[o] # None
    BY <2>1, AbsenceAssumption
  <2>3. \A p \in OrderIds : SameView(p)
    BY <2>1, <2>2, ViewStays
  <2>4. QED
    BY <2>3, AllStay
<1>3. ASSUME NEW f \in Flows, NEW w \in 1..Workers, WorkerStep(f, w)
      PROVE  Protocol!Next \/ UNCHANGED Protocol!protocolVars
  <2>1. PICK o \in OrderIds : o = WorkersOrder(f, w) /\ o[1] = f
    <3>1. WorkersOrder(f, w)[1] = f
      BY DEF WorkersOrder, OrderOf
    <3>2. QED
      BY <3>1, IdsAre
  <2>2. blind' = blind /\ ~blind[f]
    BY <1>3, InTheParallelStep DEF WorkerStep, Tracks
  <2>3. \A p \in OrderIds : p # o => orders'[p] = orders[p]
    BY <1>3, <2>1, WorkerMakes
  <2>4. \A p \in OrderIds : p # o => SameView(p)
    BY <2>2, <2>3, ViewStays
  <2>5. CASE orders'[o] = orders[o]
    <3>1. \A p \in OrderIds : SameView(p)
      BY <2>2, <2>3, <2>5, ViewStays
    <3>2. QED
      BY <3>1, AllStay
  <2>6. CASE orders'[o] # orders[o]
    <3>1. PICK k \in {"RESTAURANT", "INDEPENDENT"} : k = "INDEPENDENT"
      OBVIOUS
    <3>2. orders[o] = None /\ orders'[o] = NewOrder(k)
      BY <1>3, <2>6, <3>1, WorkerMakes
    <3>3. PICK new : new = orders'[o]
      OBVIOUS
    <3>4. /\ new # None /\ new.kind = k
          /\ new.trail = <<[stage |-> "NEW", by |-> "CLIENT"]>>
      BY <3>2, <3>3, NewOrderIs, AbsenceAssumption
    <3>5. ProtocolTrail(o) = <<>>
      BY <3>2 DEF ProtocolTrail
    <3>6. ProtocolTrail(o)' = <<[stage |-> "NEW", by |-> "CLIENT"]>>
      BY <2>1, <2>2, <3>3, <3>4 DEF ProtocolTrail
    <3>7. ProtocolKind(o)' = k
      BY <3>3, <3>4, <3>6 DEF ProtocolKind
    <3>8. Protocol!Next
      BY <2>4, <3>5, <3>6, <3>7, OneIsCreated
    <3>9. QED
      BY <3>8
  <2>7. QED
    BY <2>5, <2>6
<1>4. QED
  BY <1>1, <1>2, <1>3, CallFollows, WhoChangesOrders

LEMMA ProtocolStarts == Init => Protocol!Init /\ Trails
<1> SUFFICES ASSUME Init PROVE Protocol!Init /\ Trails
  OBVIOUS
<1>1. \A o \in OrderIds : orders[o] = None
  BY DEF Init, BackendInit
<1>2. \A o \in OrderIds : ProtocolTrail(o) = <<>>
  BY <1>1 DEF ProtocolTrail
<1>3. QED
  BY <1>1, <1>2 DEF Protocol!Init, Trails

\* Whatever the suites, their number and their overlaps, and whatever is lost or done by
\* users: what the backend does to an order on behalf of its suite is a behaviour of the
\* order state machine (order_sm.go), each stage put there by a role that may.
THEOREM FlowsFollowProtocol == Spec => FollowsProtocol
<1>1. WellFormed /\ Tracks /\ Crews /\ Trails /\ [Next]_vars
        => Trails' /\ [Protocol!Next]_(Protocol!protocolVars)
  BY TrailsKeep, StepFollows
<1>2. QED
  BY <1>1, FlowsStart, FlowsKeep, CrewsKeep, ProtocolStarts, PTL DEF Spec, FollowsProtocol, Protocol!Spec

-----------------------------------------------------------------------------
(* What the suites record.                                                 *)

\* The recorded stages are among those of the trail, in that order.
Among(past, trail) ==
  \A i \in 1..Len(past) : \E a \in 1..Len(trail) :
    /\ past[i] = trail[a].stage
    /\ \A j \in 1..(i - 1) : \E b \in 1..(a - 1) : past[j] = trail[b].stage

LEMMA AmongStays ==
  ASSUME NEW S, NEW T, NEW past \in Seq(S), NEW trail \in Seq(T), NEW e \in T,
         Among(past, trail)
  PROVE  Among(past, Append(trail, e))
<1>1. PICK more : more = Append(trail, e)
  OBVIOUS
<1>2. PICK n \in Nat : n = Len(trail)
  OBVIOUS
<1>3. Len(more) = n + 1 /\ \A a \in 1..n : more[a] = trail[a]
  BY <1>1, <1>2, AppendProperties
<1>4. ASSUME NEW i \in 1..Len(past)
      PROVE  \E a \in 1..Len(more) :
               /\ past[i] = more[a].stage
               /\ \A j \in 1..(i - 1) : \E b \in 1..(a - 1) : past[j] = more[b].stage
  <2>1. PICK a \in 1..n :
           /\ past[i] = trail[a].stage
           /\ \A j \in 1..(i - 1) : \E b \in 1..(a - 1) : past[j] = trail[b].stage
    BY <1>2, <1>4 DEF Among
  <2>2. a \in 1..Len(more) /\ past[i] = more[a].stage
    BY <1>2, <1>3, <2>1
  <2>3. ASSUME NEW j \in 1..(i - 1) PROVE \E b \in 1..(a - 1) : past[j] = more[b].stage
    <3>1. PICK b \in 1..(a - 1) : past[j] = trail[b].stage
      BY <2>1
    <3>2. b \in 1..n
      BY <1>2
    <3>3. QED
      BY <1>3, <3>1, <3>2
  <2>4. QED
    BY <2>2, <2>3
<1>5. QED
  BY <1>1, <1>4 DEF Among

LEMMA AmongGrows ==
  ASSUME NEW S, NEW T, NEW past \in Seq(S), NEW trail \in Seq(T), NEW e \in T,
         e.stage \in S, Among(past, trail)
  PROVE  Among(Append(past, e.stage), Append(trail, e))
<1>1. PICK more : more = Append(trail, e)
  OBVIOUS
<1>2. PICK grown : grown = Append(past, e.stage)
  OBVIOUS
<1>3. PICK n \in Nat : n = Len(trail)
  OBVIOUS
<1>4. PICK m \in Nat : m = Len(past)
  OBVIOUS
<1>5. Len(more) = n + 1 /\ more[n + 1] = e /\ \A a \in 1..n : more[a] = trail[a]
  BY <1>1, <1>3, AppendProperties
<1>6. Len(grown) = m + 1 /\ grown[m + 1] = e.stage /\ \A i \in 1..m : grown[i] = past[i]
  BY <1>2, <1>4, AppendProperties
<1>7. Among(past, more)
  BY <1>1, AmongStays
<1>8. ASSUME NEW i \in 1..Len(grown)
      PROVE  \E a \in 1..Len(more) :
               /\ grown[i] = more[a].stage
               /\ \A j \in 1..(i - 1) : \E b \in 1..(a - 1) : grown[j] = more[b].stage
  <2>1. CASE i # m + 1
    <3>1. i \in 1..m
      BY <1>6, <2>1
    <3>2. PICK a \in 1..Len(more) :
             /\ past[i] = more[a].stage
             /\ \A j \in 1..(i - 1) : \E b \in 1..(a - 1) : past[j] = more[b].stage
      BY <1>4, <1>7, <3>1 DEF Among
    <3>3. ASSUME NEW j \in 1..(i - 1) PROVE \E b \in 1..(a - 1) : grown[j] = more[b].stage
      <4>1. j \in 1..m
        BY <3>1
      <4>2. PICK b \in 1..(a - 1) : past[j] = more[b].stage
        BY <3>2
      <4>3. QED
        BY <1>6, <4>1, <4>2
    <3>4. QED
      BY <1>6, <3>1, <3>2, <3>3
  <2>2. CASE i = m + 1
    <3>1. ASSUME NEW j \in 1..m PROVE \E b \in 1..n : grown[j] = more[b].stage
      <4>1. PICK b \in 1..n : past[j] = trail[b].stage
        BY <1>3, <1>4 DEF Among
      <4>2. QED
        BY <1>5, <1>6, <4>1
    <3>2. PICK last : last = n + 1
      OBVIOUS
    <3>3. i - 1 = m /\ last - 1 = n /\ last \in 1..Len(more)
      BY <1>5, <2>2, <3>2
    <3>4. grown[i] = more[last].stage
      BY <1>5, <1>6, <2>2, <3>2
    <3>5. \A j \in 1..(i - 1) : \E b \in 1..(last - 1) : grown[j] = more[b].stage
      BY <3>1, <3>3
    <3>6. QED
      BY <3>3, <3>4, <3>5
  <2>3. QED
    BY <2>1, <2>2
<1>9. QED
  BY <1>1, <1>2, <1>8 DEF Among

HistoryTrue(o) ==
  history[o] # <<>> =>
    /\ orders[o] # None
    /\ blind[o[1]] \/ orders[o].touched \/ Among(history[o], orders[o].trail)

Histories == \A o \in OrderIds : HistoryTrue(o)

LEMMA HistoriesAreTrue == WellFormed /\ Histories => HistoryIsTrue
<1> SUFFICES ASSUME WellFormed, Histories, NEW o \in OrderIds, history[o] # <<>>
             PROVE  /\ orders[o] # None
                    /\ blind[o[1]] \/ TouchedByUsers(o) \/
                         LET went == StagesOf(o) IN
                         \A i \in DOMAIN history[o] : \E a \in DOMAIN went :
                           /\ history[o][i] = went[a]
                           /\ \A j \in 1..(i - 1) : \E b \in 1..(a - 1) : history[o][j] = went[b]
  BY DEF HistoryIsTrue
<1> DEFINE went == StagesOf(o)
<1>1. /\ orders[o] # None
      /\ blind[o[1]] \/ orders[o].touched \/ Among(history[o], orders[o].trail)
  BY DEF Histories, HistoryTrue
<1>2. CASE Among(history[o], orders[o].trail)
  <2>1. PICK trail : trail = orders[o].trail
    OBVIOUS
  <2>2. orders[o] \in OrderType
    BY <1>1, OrderOrNone
  <2>3. trail \in Seq([stage : Stages, by : {"CLIENT", "RESTAURANT", "COURIER", "ADMIN"}])
    BY <2>1, <2>2 DEF OrderType
  <2>4. Len(trail) \in Nat /\ DOMAIN trail = 1..Len(trail)
    BY <2>3
  <2>5. DOMAIN went = 1..Len(trail) /\ \A a \in 1..Len(trail) : went[a] = trail[a].stage
    BY <2>1, <2>4 DEF StagesOf
  <2>6. history[o] \in Seq(Stages)
    BY DEF WellFormed, FlowsTyped
  <2>7. DOMAIN history[o] = 1..Len(history[o])
    BY <2>6
  <2> HIDE DEF went
  <2>8. ASSUME NEW i \in DOMAIN history[o]
        PROVE  \E a \in DOMAIN went :
                 /\ history[o][i] = went[a]
                 /\ \A j \in 1..(i - 1) : \E b \in 1..(a - 1) : history[o][j] = went[b]
    <3>. i \in 1..Len(history[o]) /\ Among(history[o], trail)
      BY <1>2, <2>1, <2>7, <2>8
    <3>1. PICK a \in 1..Len(trail) :
             /\ history[o][i] = trail[a].stage
             /\ \A j \in 1..(i - 1) : \E b \in 1..(a - 1) : history[o][j] = trail[b].stage
      BY DEF Among
    <3>2. ASSUME NEW j \in 1..(i - 1) PROVE \E b \in 1..(a - 1) : history[o][j] = went[b]
      <4>1. PICK b \in 1..(a - 1) : history[o][j] = trail[b].stage
        BY <3>1
      <4>2. b \in 1..Len(trail)
        BY <2>4
      <4>3. QED
        BY <2>5, <4>1, <4>2
    <3>3. QED
      BY <2>5, <3>1, <3>2
  <2>9. QED
    BY <1>1, <2>8 DEF went
<1>3. QED
  BY <1>1, <1>2 DEF TouchedByUsers

\* A history that does not grow stays true of an order that only goes on.
LEMMA HistoryStays ==
  ASSUME WellFormed, NEW o \in OrderIds, HistoryTrue(o), history'[o] = history[o],
         blind[o[1]] => blind'[o[1]],
         \/ orders'[o] = orders[o]
         \/ orders[o] = None
         \/ /\ orders[o] \in OrderType /\ orders'[o] \in OrderType
            /\ orders[o].touched => orders'[o].touched
            /\ orders'[o].trail = orders[o].trail
         \/ /\ orders[o] \in OrderType
            /\ \E actor : \E byUser \in BOOLEAN : Turns(orders[o], orders'[o], actor, byUser)
  PROVE  HistoryTrue(o)'
<1>1. CASE history[o] = <<>>
  BY <1>1 DEF HistoryTrue
<1>2. CASE history[o] # <<>>
  <2>1. orders[o] # None
    BY <1>2 DEF HistoryTrue
  <2>2. orders[o] \in OrderType /\ history[o] \in Seq(Stages)
    BY <2>1, OrderOrNone DEF WellFormed, FlowsTyped
  <2>3. CASE orders'[o] = orders[o]
    BY <2>3 DEF HistoryTrue
  <2>4. CASE /\ orders'[o] \in OrderType
             /\ orders[o].touched => orders'[o].touched
             /\ orders'[o].trail = orders[o].trail
    <3>1. orders'[o] # None
      BY <2>4, AbsenceAssumption
    <3>2. blind[o[1]] \/ orders[o].touched \/ Among(history[o], orders[o].trail)
      BY <1>2 DEF HistoryTrue
    <3>3. blind'[o[1]] \/ orders'[o].touched \/ Among(history'[o], orders'[o].trail)
      BY <2>4, <3>2
    <3>4. QED
      BY <3>1, <3>3 DEF HistoryTrue
  <2>5. ASSUME NEW actor, NEW byUser \in BOOLEAN, Turns(orders[o], orders'[o], actor, byUser)
        PROVE  HistoryTrue(o)'
    <3>1. orders'[o] \in OrderType /\ (orders[o].touched => orders'[o].touched)
      BY <2>5 DEF Turns
    <3>2. CASE orders'[o].trail = orders[o].trail
      BY <2>4, <3>1, <3>2
    <3>3. CASE orders'[o].trail # orders[o].trail
      <4>1. PICK e : /\ e = [stage |-> StageOf(orders'[o]), by |-> actor]
                     /\ orders'[o].trail = Append(orders[o].trail, e)
        BY <2>5, <3>3 DEF Turns
      <4>2. PICK T : /\ orders[o].trail \in Seq(T) /\ orders'[o].trail \in Seq(T)
        BY <2>2, <3>1 DEF OrderType
      <4>3. PICK n \in Nat : n = Len(orders[o].trail)
        BY <4>2
      <4>4. Len(orders'[o].trail) = n + 1 /\ orders'[o].trail[n + 1] = e
        BY <4>1, <4>2, <4>3
      <4>5. e \in T
        BY <4>2, <4>4
      <4>6. Among(history[o], orders[o].trail) => Among(history[o], Append(orders[o].trail, e))
        BY <2>2, <4>2, <4>5, AmongStays
      <4>7. QED
        BY <1>2, <3>1, <4>1, <4>6, AbsenceAssumption DEF HistoryTrue
    <3>4. QED
      BY <3>2, <3>3
  <2>6. QED
    BY <2>1, <2>3, <2>4, <2>5
<1>3. QED
  BY <1>1, <1>2

\* One that grows grows by the stage its order has just come to.
LEMMA MakesIsRecorded ==
  ASSUME WellFormed, NEW f \in Flows, OnTrack(f), NEW code, CallStep(f, code),
         Accepts(f, CallOf(f), code), Makes(suite[f], step[f]), AtStep(f).stage # None,
         NEW o, o = OrderOf(f, AtStep(f).n), HistoryTrue(o)
  PROVE  HistoryTrue(o)'
<1>1. OnTrack(f) /\ Doing(f, "call") /\ outcome[f] = "running" /\ GoOn(f, CallOf(f), code)
  BY DEF CallStep, Doing
<1>2. AtStep(f).accept = {200} /\ AtStep(f).stage = "NEW"
  BY <1>1, AtAStep DEF Makes
<1>3. o \in OrderIds
  BY <1>1, AtACall
<1>4. code = 200 /\ history'[o] = Append(history[o], "NEW")
  BY <1>1, <1>2, AcceptedIsRecorded
<1>5. PICK c : c = AtStep(f)
  OBVIOUS
<1>6. OrderAt(f, c.n, 1)' /\ orders[o] = None
  <2>1. PICK s : s = suite[f]
    OBVIOUS
  <2>2. PICK i \in Nat : i = step[f]
    BY <1>1, AtAStep
  <2>3. PICK m : m = Reached(s, c.n, i + 1)
    OBVIOUS
  <2>4. OrderAt(f, c.n, Reached(s, c.n, i + 1))'
    BY <1>5, <2>1, <2>2, AcceptedMakes
  <2>5. m = 1
    BY <1>1, <1>5, <2>1, <2>2, <2>3, AtAStep DEF Makes
  <2>6. OrderAt(f, c.n, 1)'
    BY <2>3, <2>4, <2>5
  <2>7. orders[o] = None
    BY <1>1, MakesIt
  <2>8. QED
    BY <2>6, <2>7
<1>7. orders'[o] # None
  BY <1>5, <1>6 DEF OrderAt
<1>8. history'[o] = <<"NEW">>
  <2>1. history[o] = <<>>
    BY <1>6 DEF HistoryTrue
  <2>2. QED
    BY <1>4, <2>1
<1>9. ASSUME ~blind'[f], ~orders'[o].touched
      PROVE  Among(history'[o], orders'[o].trail)
  <2>1. Path(suite'[f], AtStep(f).n)[1] = "NEW"
    BY <1>1, AtAStep DEF Makes, CallStep
  <2>2. PICK past : past = history'[o]
    OBVIOUS
  <2>3. PICK trail : trail = orders'[o].trail
    OBVIOUS
  <2>4. Len(trail) = 1 /\ trail[1].stage = "NEW"
    BY <1>5, <1>6, <1>9, <2>1, <2>3 DEF OrderAt
  <2>5. Len(past) = 1 /\ past[1] = "NEW"
    BY <1>8, <2>2
  <2>6. Among(past, trail)
    <3> SUFFICES ASSUME NEW i \in 1..Len(past)
                 PROVE  \E a \in 1..Len(trail) :
                          /\ past[i] = trail[a].stage
                          /\ \A j \in 1..(i - 1) : \E b \in 1..(a - 1) : past[j] = trail[b].stage
      BY DEF Among
    <3>1. i = 1 /\ 1 \in 1..Len(trail)
      BY <2>4, <2>5
    <3>2. \A j \in 1..(i - 1) : FALSE
      BY <3>1
    <3>3. QED
      BY <2>4, <2>5, <3>1, <3>2
  <2>7. QED
    BY <2>2, <2>3, <2>6
<1>10. o[1] = f
  BY DEF OrderOf
<1>11. QED
  BY <1>7, <1>9, <1>10 DEF HistoryTrue

LEMMA MovesIsRecorded ==
  ASSUME WellFormed, NEW f \in Flows, OnTrack(f), NEW code, CallStep(f, code),
         Accepts(f, CallOf(f), code), Moves(suite[f], step[f]), AtStep(f).stage # None,
         NEW o, o = OrderOf(f, AtStep(f).n), HistoryTrue(o)
  PROVE  HistoryTrue(o)'
<1>1. /\ Doing(f, "call") /\ outcome[f] = "running" /\ GoOn(f, CallOf(f), code)
      /\ blind'[f] = blind[f]
  BY DEF CallStep, Doing
<1>2. PICK c : c = AtStep(f)
  OBVIOUS
<1>3. PICK k : k = Reached(suite[f], c.n, step[f])
  OBVIOUS
<1>4. PICK next : next = Path(suite[f], c.n)[k + 1]
  OBVIOUS
<1>5. c.stage = next /\ k \in 1..5 /\ Reached(suite[f], c.n, step[f] + 1) = k + 1
      /\ suite'[f] = suite[f]
  BY <1>1, <1>2, <1>3, <1>4, AtAStep DEF Moves, CallStep
<1>6. o \in OrderIds /\ o[1] = f /\ c.n \in 1..2 /\ o = OrderOf(f, c.n)
  BY <1>1, <1>2, AtACall DEF OrderOf
<1>7. history'[o] = Append(history[o], next)
  BY <1>1, <1>2, <1>5, AcceptedIsRecorded
<1>8. next \in Stages /\ history[o] \in Seq(Stages)
  <2>1. c.stage \in Stages
    BY <1>1, <1>2, StagesRecorded
  <2>2. QED
    BY <1>5, <1>6, <2>1 DEF WellFormed, FlowsTyped
<1>9. OrderAt(f, c.n, k) /\ step[f] \in Nat
  BY <1>1, <1>3, <1>6, AtAStep
<1>10. OrderAt(f, c.n, k + 1)'
  <2>1. PICK s : s = suite[f]
    OBVIOUS
  <2>2. PICK i \in Nat : i = step[f]
    BY <1>9
  <2>3. PICK m : m = Reached(s, c.n, i + 1)
    OBVIOUS
  <2>4. OrderAt(f, c.n, Reached(s, c.n, i + 1))'
    BY <1>2, <2>1, <2>2, AcceptedMoves
  <2>5. m = k + 1
    BY <1>5, <2>1, <2>2, <2>3
  <2>6. QED
    BY <2>3, <2>4, <2>5
<1>11. orders'[o] # None /\ orders[o] # None /\ orders[o] \in OrderType
  BY <1>5, <1>6, <1>9, <1>10, OrderOrNone DEF OrderAt
<1>12. ASSUME ~blind[f], ~orders'[o].touched
       PROVE  Among(history'[o], orders'[o].trail)
  <2>1. UNCHANGED mockVars \/ Effect(f)
    <3>1. UNCHANGED mockVars \/ Process(CallOf(f), TokenFor(f), FALSE)
      BY Zenon DEF CallStep, Answered
    <3>2. QED
      BY <1>1, <3>1, CallEffect
  <2>2. PICK actor : actor = Actor[RoleFor[c.to]]
    OBVIOUS
  <2>3. orders'[o] = orders[o] \/ Turns(orders[o], orders'[o], actor, FALSE)
    BY <1>2, <1>6, <1>11, <2>1, <2>2 DEF Effect, mockVars
  <2>4. ~orders[o].touched
    BY <1>12, <2>3 DEF Turns
  <2>5. Len(orders[o].trail) = k
    BY <1>5, <1>6, <1>9, <1>12, <2>4 DEF OrderAt
  <2>6. Len(orders'[o].trail) = k + 1 /\ StageOf(orders'[o]) = next
    BY <1>1, <1>4, <1>5, <1>6, <1>10, <1>12 DEF OrderAt
  <2>7. orders'[o].trail # orders[o].trail
    BY <1>5, <2>5, <2>6
  <2>8. PICK e : e = [stage |-> next, by |-> actor] /\ orders'[o].trail = Append(orders[o].trail, e)
    BY <2>3, <2>6, <2>7 DEF Turns
  <2>9. orders'[o] \in OrderType
    BY <2>3, <2>7 DEF Turns
  <2>10. PICK T : /\ orders[o].trail \in Seq(T) /\ orders'[o].trail \in Seq(T)
    BY <1>11, <2>9 DEF OrderType
  <2>11. orders'[o].trail[k + 1] = e /\ k + 1 \in 1..Len(orders'[o].trail)
    BY <1>5, <2>5, <2>6, <2>8, <2>10
  <2>12. e \in T /\ e.stage = next
    BY <2>8, <2>10, <2>11
  <2>13. Among(history[o], orders[o].trail)
    <3>1. history[o] = <<>> \/ Among(history[o], orders[o].trail)
      BY <1>6, <1>12, <2>4 DEF HistoryTrue
    <3>2. history[o] = <<>> => Among(history[o], orders[o].trail)
      BY DEF Among
    <3>3. QED
      BY <3>1, <3>2
  <2>14. Among(Append(history[o], e.stage), Append(orders[o].trail, e))
    BY <1>8, <2>10, <2>12, <2>13, AmongGrows
  <2>15. QED
    BY <1>7, <2>8, <2>12, <2>14
<1>13. blind'[o[1]] \/ orders'[o].touched \/ Among(history'[o], orders'[o].trail)
  BY <1>1, <1>6, <1>12
<1>14. QED
  BY <1>11, <1>13 DEF HistoryTrue

LEMMA CallKeepsHistory ==
  ASSUME WellFormed, Tracks, Histories, NEW f \in Flows, NEW code, CallStep(f, code)
  PROVE  Histories'
<1>1. /\ OnTrack(f) /\ Doing(f, "call") /\ blind' = blind /\ GoOn(f, CallOf(f), code)
      /\ outcome[f] = "running"
  BY DEF Tracks, CallStep, Doing
<1>2. PICK o : o = OrderOf(f, AtStep(f).n)
  OBVIOUS
<1>3. o \in OrderIds
  BY <1>1, <1>2, AtACall
<1>4. UNCHANGED mockVars \/ Effect(f)
  <2>1. UNCHANGED mockVars \/ Process(CallOf(f), TokenFor(f), FALSE)
    BY Zenon DEF CallStep, Answered
  <2>2. QED
    BY <1>1, <2>1, CallEffect
<1>5. \A p \in OrderIds : p # o => orders'[p] = orders[p]
  BY <1>2, <1>4 DEF Effect, mockVars
<1>6. PICK actor : actor = Actor[RoleFor[AtStep(f).to]]
  OBVIOUS
<1>7. \/ orders'[o] = orders[o] \/ orders[o] = None
      \/ orders[o] \in OrderType /\ Turns(orders[o], orders'[o], actor, FALSE)
  BY <1>2, <1>3, <1>4, <1>6 DEF Effect, mockVars
<1>8. \/ orders'[o] = orders[o] \/ orders[o] = None
      \/ /\ orders[o] \in OrderType
         /\ \E by : \E byUser \in BOOLEAN : Turns(orders[o], orders'[o], by, byUser)
  <2>1. PICK byUser \in BOOLEAN : byUser = FALSE
    OBVIOUS
  <2>2. \/ orders'[o] = orders[o] \/ orders[o] = None
        \/ orders[o] \in OrderType /\ Turns(orders[o], orders'[o], actor, byUser)
    BY <1>7, <2>1
  <2>3. QED
    BY <2>2
<1>9. ASSUME NEW p \in OrderIds, history'[p] = history[p] PROVE HistoryTrue(p)'
  <2>1. HistoryTrue(p) /\ blind'[p[1]] = blind[p[1]]
    BY <1>1 DEF Histories
  <2>2. CASE p # o
    BY <1>5, <1>9, <2>1, <2>2, HistoryStays
  <2>3. CASE p = o
    BY <1>8, <1>9, <2>1, <2>3, HistoryStays
  <2>4. QED
    BY <2>2, <2>3
<1>10. CASE ~Accepts(f, CallOf(f), code)
  <2>1. history' = history
    BY <1>1, <1>10 DEF GoOn, Record
  <2>2. QED
    BY <1>9, <2>1 DEF Histories
<1>11. CASE Accepts(f, CallOf(f), code)
  <2>1. /\ \A p \in OrderIds : p # o => history'[p] = history[p]
        /\ AtStep(f).stage = None => history'[o] = history[o]
    BY <1>1, <1>2, <1>11, AcceptedIsRecorded
  <2>2. HistoryTrue(o)
    BY <1>3 DEF Histories
  <2>3. ASSUME AtStep(f).stage # None PROVE HistoryTrue(o)'
    <3>1. CallKnown(suite[f], step[f]) /\ AtStep(f) = Scripts[suite[f]][step[f]]
      BY <1>1, AtAStep, AtACall
    <3>2. Makes(suite[f], step[f]) \/ Moves(suite[f], step[f])
      BY <2>3, <3>1 DEF CallKnown, Hands, Repeats, ComesLate, IsInvalid, IsForeign
    <3>3. CASE Makes(suite[f], step[f])
      BY <1>1, <1>2, <1>11, <2>2, <2>3, <3>3, MakesIsRecorded
    <3>4. CASE Moves(suite[f], step[f])
      BY <1>1, <1>2, <1>11, <2>2, <2>3, <3>4, MovesIsRecorded
    <3>5. QED
      BY <3>2, <3>3, <3>4
  <2>4. HistoryTrue(o)'
    BY <1>3, <1>9, <2>1, <2>3
  <2>5. ASSUME NEW p \in OrderIds PROVE HistoryTrue(p)'
    BY <1>9, <2>1, <2>4
  <2>6. QED
    BY <2>5 DEF Histories
<1>12. QED
  BY <1>10, <1>11

LEMMA HistoriesKeep ==
  ASSUME WellFormed, Tracks, Crews, Histories, [Next]_vars
  PROVE  Histories'
<1>1. CASE Quiet
  <2>1. ASSUME NEW o \in OrderIds PROVE HistoryTrue(o)'
    <3>1. HistoryTrue(o) /\ o[1] \in Flows
      BY IdsAre DEF Histories
    <3>2. orders'[o] = orders[o] /\ history'[o] = history[o] /\ (blind[o[1]] => blind'[o[1]])
      BY <1>1, <3>1 DEF Quiet
    <3>3. QED
      BY <3>1, <3>2, HistoryStays
  <2>2. QED
    BY <2>1 DEF Histories
<1>2. ASSUME NEW o \in OrderIds, ManualCall(o) PROVE Histories'
  <2>1. /\ blind' = blind /\ history' = history
        /\ \A p \in OrderIds : p # o => orders'[p] = orders[p]
        /\ orders[o] \in OrderType /\ orders'[o] \in OrderType
        /\ orders[o].touched => orders'[o].touched
        /\ orders'[o].trail = orders[o].trail
    BY <1>2, UserCallDoes DEF flowVars
  <2>2. ASSUME NEW p \in OrderIds PROVE HistoryTrue(p)'
    <3>1. HistoryTrue(p) /\ history'[p] = history[p] /\ blind'[p[1]] = blind[p[1]]
      BY <2>1 DEF Histories
    <3>2. CASE p # o
      BY <2>1, <3>1, <3>2, HistoryStays
    <3>3. CASE p = o
      BY <2>1, <3>1, <3>3, HistoryStays
    <3>4. QED
      BY <3>2, <3>3
  <2>3. QED
    BY <2>2 DEF Histories
<1>3. ASSUME NEW f \in Flows, NEW w \in 1..Workers, WorkerStep(f, w) PROVE Histories'
  <2>1. blind' = blind /\ history' = history
    BY <1>3 DEF WorkerStep
  <2>2. ASSUME NEW p \in OrderIds PROVE HistoryTrue(p)'
    <3>1. HistoryTrue(p) /\ history'[p] = history[p] /\ blind'[p[1]] = blind[p[1]]
      BY <2>1 DEF Histories
    <3>2. orders'[p] = orders[p] \/ orders[p] = None
      BY <1>3, WorkerMakes
    <3>3. QED
      BY <3>1, <3>2, HistoryStays
  <2>3. QED
    BY <2>2 DEF Histories
<1>4. QED
  BY <1>1, <1>2, <1>3, CallKeepsHistory, WhoChangesOrders

\* What a suite has recorded of an order has happened to it on the backend, in that order,
\* although the answers it goes by may be lost and the sessions are shared.
THEOREM RecordedIsTrue == Spec => []HistoryIsTrue
<1>1. Init => Histories
  BY DEF Init, Histories, HistoryTrue
<1>2. WellFormed /\ Tracks /\ Crews /\ Histories /\ [Next]_vars => Histories'
  BY HistoriesKeep
<1>3. QED
  BY <1>1, <1>2, FlowsStart, FlowsKeep, CrewsKeep, HistoriesAreTrue, PTL DEF Spec

-----------------------------------------------------------------------------
(* Why suites fail.                                                        *)

\* Tokens are of the role they are kept under.
PoolsFit == \A role \in Roles : \A t \in pool[role] : t = Empty \/ t.role = role

LEMMA AddFits ==
  ASSUME SessionTypeOK, PoolsFit, NEW role \in Roles, NEW t, NEW setActive,
         AddToken(role, t, setActive), t = Empty \/ t.role = role
  PROVE  /\ PoolsFit' /\ \A r \in Roles : pool[r] \subseteq pool'[r]
         /\ pool'[role] # {}
  BY DEF SessionTypeOK, PoolsFit, AddToken

\* A login more, at a fixture, and none at any other step.
LEMMA LoginGoesOn ==
  ASSUME NEW s, NEW i \in Nat \ {0}, NEW role, LoginBefore(s, i + 1, role)
  PROVE  LoginBefore(s, i, role) \/ (Scripts[s][i].do = "fixture" /\ Scripts[s][i].role = role)
<1>1. PICK j \in 1..((i + 1) - 1) : Scripts[s][j].do = "fixture" /\ Scripts[s][j].role = role
  BY DEF LoginBefore
<1>2. j \in 1..(i - 1) \/ j = i
  OBVIOUS
<1>3. QED
  BY <1>1, <1>2 DEF LoginBefore

LEMMA NoLoginAtFirst ==
  ASSUME NEW s, NEW role
  PROVE  ~LoginBefore(s, 1, role)
<1>1. \A j \in 1..(1 - 1) : FALSE
  OBVIOUS
<1>2. QED
  BY <1>1 DEF LoginBefore

\* A flow that stands still keeps its logins.
LEMMA LoginStays ==
  ASSUME NEW f \in Flows, LoggedIn(f), own'[f] = own[f], suite'[f] = suite[f],
         outcome'[f] = "running" => outcome[f] = "running" /\ step'[f] = step[f],
         f \in unheard => f \in unheard', meddled => meddled',
         meddled' = TRUE \/ \A role \in Roles : pool[role] # {} => pool'[role] # {}
  PROVE  LoggedIn(f)'
<1>1. own'[f] \in {Empty, TokenOf("client", f)}
  BY DEF LoggedIn
<1>2. ASSUME outcome'[f] = "running", f \notin unheard', NEW role \in Roles,
             LoginBefore(suite'[f], step'[f], role)
      PROVE  /\ meddled' \/ pool'[role] # {}
             /\ role = "client" => own'[f] = TokenOf("client", f)
  <2>1. LoginBefore(suite[f], step[f], role) /\ outcome[f] = "running" /\ f \notin unheard
    BY <1>2
  <2>2. /\ meddled \/ pool[role] # {}
        /\ role = "client" => own[f] = TokenOf("client", f)
    BY <2>1 DEF LoggedIn
  <2>3. QED
    BY <2>2
<1>3. QED
  BY <1>1, <1>2 DEF LoggedIn

\* One that goes on, too, at a step that is no login.
LEMMA LoginGoesBy ==
  ASSUME WellFormed, NEW f \in Flows, OnTrack(f), outcome[f] = "running", LoggedIn(f),
         Scripts[suite[f]][step[f]].do # "fixture",
         Advance(f), UNCHANGED suite, own'[f] = own[f],
         f \in unheard => f \in unheard', meddled => meddled',
         \A role \in Roles : pool[role] # {} => pool'[role] # {}
  PROVE  LoggedIn(f)'
<1>1. PICK s \in Suites : s = suite[f]
  BY AtAStep
<1>2. PICK i \in Nat \ {0} : i = step[f]
  BY AtAStep, ScriptShape
<1>3. outcome'[f] = "running" => step'[f] = i + 1
  BY <1>2, AdvanceSteps DEF PlaceOf
<1>4. own'[f] \in {Empty, TokenOf("client", f)} /\ suite'[f] = s
  BY <1>1 DEF LoggedIn
<1>5. ASSUME outcome'[f] = "running", f \notin unheard', NEW role \in Roles,
             LoginBefore(s, i + 1, role)
      PROVE  /\ meddled' \/ pool'[role] # {}
             /\ role = "client" => own'[f] = TokenOf("client", f)
  <2>1. LoginBefore(suite[f], step[f], role)
    BY <1>1, <1>2, <1>5, LoginGoesOn
  <2>2. /\ meddled \/ pool[role] # {}
        /\ role = "client" => own[f] = TokenOf("client", f)
    BY <1>5, <2>1 DEF LoggedIn
  <2>3. QED
    BY <2>2
<1>6. QED
  BY <1>3, <1>4, <1>5 DEF LoggedIn

LEMMA LogInLogsIn ==
  ASSUME WellFormed, Tracks, Logins, NEW f \in Flows, LogIn(f)
  PROVE  Logins'
<1>1. PICK role : role = AtStep(f).role
  OBVIOUS
<1>2. /\ outcome[f] = "running" /\ AtStep(f).do = "fixture" /\ AddToken(role, TokenOf(role, f), TRUE)
      /\ own' = (IF role = "client" THEN [own EXCEPT ![f] = TokenOf(role, f)] ELSE own)
      /\ Advance(f) /\ UNCHANGED <<suite, unheard, lost, meddled>>
  BY <1>1 DEF LogIn, Doing, mockVars, ghosts, losses
<1>3. OnTrack(f) /\ SessionTypeOK /\ PoolsFit /\ \A g \in Flows : LoggedIn(g)
  BY DEF Tracks, WellFormed, Logins, PoolsFit
<1>4. role \in Roles
  <2>1. FixtureKnown(suite[f], step[f])
    BY <1>2, <1>3, AtAStep DEF StepKnown, CallKnown, AdoptKnown, ParallelKnown
  <2>2. QED
    BY <1>1, <1>2, <1>3, <2>1, AtAStep DEF FixtureKnown
<1>5. /\ PoolsFit' /\ pool'[role] # {}
      /\ \A r \in Roles : pool[r] # {} => pool'[r] # {}
  <2>1. TokenOf(role, f).role = role
    BY <1>4, TokensAre
  <2>2. QED
    BY <1>2, <1>3, <1>4, <2>1, AddFits
<1>6. ASSUME NEW g \in Flows, g # f PROVE LoggedIn(g)'
  <2>1. outcome'[g] = outcome[g] /\ step'[g] = step[g]
    BY <1>2, <1>3, <1>6, AdvanceSteps
  <2>2. own'[g] = own[g]
    BY <1>2, <1>6 DEF WellFormed, FlowsTyped
  <2>3. QED
    BY <1>2, <1>3, <1>5, <2>1, <2>2, LoginStays
<1>7. LoggedIn(f)'
  <2>1. PICK s \in Suites : s = suite[f]
    BY <1>2, <1>3, AtAStep
  <2>2. PICK i \in Nat \ {0} : i = step[f]
    BY <1>2, <1>3, AtAStep, ScriptShape
  <2>3. (outcome'[f] = "running" => step'[f] = i + 1) /\ suite'[f] = s
    BY <1>2, <1>3, <2>1, <2>2, AdvanceSteps DEF PlaceOf
  <2>4. own'[f] = IF role = "client" THEN TokenOf("client", f) ELSE own[f]
    BY <1>2 DEF WellFormed, FlowsTyped
  <2>5. own'[f] \in {Empty, TokenOf("client", f)}
    BY <1>3, <2>4 DEF LoggedIn
  <2>6. ASSUME f \notin unheard', NEW r \in Roles, LoginBefore(s, i + 1, r)
        PROVE  /\ meddled' \/ pool'[r] # {}
               /\ r = "client" => own'[f] = TokenOf("client", f)
    <3>1. CASE r = role
      BY <1>5, <2>4, <3>1
    <3>2. CASE r # role
      <4>1. Scripts[s][i].role = role
        BY <1>1, <1>2, <1>3, <2>1, <2>2, AtAStep
      <4>2. LoginBefore(s, i, r)
        BY <2>2, <2>6, <3>2, <4>1, LoginGoesOn
      <4>3. /\ meddled \/ pool[r] # {}
            /\ r = "client" => own[f] = TokenOf("client", f)
        BY <1>2, <1>3, <2>1, <2>2, <2>6, <4>2 DEF LoggedIn
      <4>4. QED
        BY <1>2, <1>5, <2>4, <4>3
    <3>3. QED
      BY <3>1, <3>2
  <2>7. QED
    BY <2>3, <2>5, <2>6 DEF LoggedIn
<1>8. \A g \in Flows : LoggedIn(g)'
  BY <1>6, <1>7
<1>9. QED
  BY <1>5, <1>8 DEF Logins, PoolsFit

LEMMA LogInLostLogsIn ==
  ASSUME WellFormed, Tracks, Logins, NEW f \in Flows, LogInLost(f)
  PROVE  Logins'
<1>1. PICK role : role = AtStep(f).role
  OBVIOUS
<1>2. /\ outcome[f] = "running" /\ unheard' = unheard \cup {f}
      /\ IF AtStep(f).must THEN Fail(f) /\ UNCHANGED <<own, blind>>
         ELSE /\ Advance(f)
              /\ own' = (IF role = "client" THEN [own EXCEPT ![f] = Empty] ELSE own)
      /\ UNCHANGED <<pool, suite, meddled>>
  BY <1>1 DEF LogInLost, Doing, sessionVars, Loses
<1>3. OnTrack(f) /\ \A g \in Flows : LoggedIn(g)
  BY DEF Tracks, Logins
<1>4. /\ own'[f] \in {own[f], Empty}
      /\ \A g \in Flows : g # f => own'[g] = own[g] /\ outcome'[g] = outcome[g] /\ step'[g] = step[g]
  <2>1. CASE AtStep(f).must
    BY <1>2, <2>1 DEF Fail, WellFormed, FlowsTyped
  <2>2. CASE ~AtStep(f).must
    <3>1. \A g \in Flows : g # f => outcome'[g] = outcome[g] /\ step'[g] = step[g]
      BY <1>2, <1>3, <2>2, AdvanceSteps
    <3>2. QED
      BY <1>2, <2>2, <3>1 DEF WellFormed, FlowsTyped
  <2>3. QED
    BY <2>1, <2>2
<1>5. ASSUME NEW g \in Flows PROVE LoggedIn(g)'
  <2>1. CASE g = f
    BY <1>2, <1>3, <1>4, <2>1 DEF LoggedIn
  <2>2. CASE g # f
    BY <1>2, <1>3, <1>4, <2>2, LoginStays
  <2>3. QED
    BY <2>1, <2>2
<1>6. PoolsFit'
  BY <1>2 DEF Logins, PoolsFit
<1>7. QED
  BY <1>5, <1>6 DEF Logins, PoolsFit

LEMMA AdoptLogsIn ==
  ASSUME WellFormed, Tracks, Logins, NEW f \in Flows, AdoptSession(f)
  PROVE  Logins'
<1>1. /\ outcome[f] = "running" /\ AtStep(f).do = "adopt" /\ AddToken("client", own[f], TRUE)
      /\ Advance(f) /\ UNCHANGED <<suite, own, unheard, lost, meddled>>
  BY DEF AdoptSession, Doing, losses
<1>2. OnTrack(f) /\ SessionTypeOK /\ PoolsFit /\ \A g \in Flows : LoggedIn(g)
  BY DEF Tracks, WellFormed, Logins, PoolsFit
<1>3. "client" \in Roles /\ (own[f] = Empty \/ own[f].role = "client")
  <2>1. "client" \in Roles
    BY DEF Roles
  <2>2. TokenOf("client", f).role = "client"
    BY <2>1, TokensAre
  <2>3. QED
    BY <1>2, <2>1, <2>2 DEF LoggedIn
<1>4. PoolsFit' /\ \A r \in Roles : pool[r] # {} => pool'[r] # {}
  BY <1>1, <1>2, <1>3, AddFits
<1>5. ASSUME NEW g \in Flows PROVE LoggedIn(g)'
  <2>1. CASE g = f
    <3>1. Scripts[suite[f]][step[f]].do # "fixture"
      BY <1>1, <1>2, AtAStep
    <3>2. QED
      BY <1>1, <1>2, <1>4, <2>1, <3>1, LoginGoesBy
  <2>2. CASE g # f
    <3>1. outcome'[g] = outcome[g] /\ step'[g] = step[g]
      BY <1>1, <1>2, <2>2, AdvanceSteps
    <3>2. QED
      BY <1>1, <1>2, <1>4, <3>1, LoginStays
  <2>3. QED
    BY <2>1, <2>2
<1>6. QED
  BY <1>4, <1>5 DEF Logins, PoolsFit

LEMMA CallLogsNobodyIn ==
  ASSUME WellFormed, Tracks, Logins, NEW f \in Flows, NEW code, CallStep(f, code),
         meddled => meddled'
  PROVE  Logins'
<1>1. /\ outcome[f] = "running" /\ AtStep(f).do = "call" /\ GoOn(f, CallOf(f), code)
      /\ UNCHANGED <<pool, suite, own>> /\ unheard \subseteq unheard'
  BY DEF CallStep, Doing, sessionVars
<1>2. OnTrack(f) /\ \A g \in Flows : LoggedIn(g)
  BY DEF Tracks, Logins
<1>3. Advance(f) \/ Fail(f)
  BY <1>1 DEF GoOn
<1>4. ASSUME NEW g \in Flows, g # f PROVE LoggedIn(g)'
  <2>1. outcome'[g] = outcome[g] /\ step'[g] = step[g]
    <3>1. CASE Advance(f)
      BY <1>1, <1>2, <1>4, <3>1, AdvanceSteps
    <3>2. CASE Fail(f)
      BY <1>4, <3>2 DEF Fail, WellFormed, FlowsTyped
    <3>3. QED
      BY <1>3, <3>1, <3>2
  <2>2. QED
    BY <1>1, <1>2, <2>1, LoginStays
<1>5. LoggedIn(f)'
  <2>1. CASE Advance(f)
    <3>1. Scripts[suite[f]][step[f]].do # "fixture"
      BY <1>1, <1>2, AtAStep
    <3>2. QED
      BY <1>1, <1>2, <2>1, <3>1, LoginGoesBy
  <2>2. CASE Fail(f)
    <3>1. outcome'[f] # "running"
      BY <2>2 DEF Fail, WellFormed, FlowsTyped
    <3>2. QED
      BY <1>1, <1>2, <3>1, LoginStays
  <2>3. QED
    BY <1>3, <2>1, <2>2
<1>6. PoolsFit'
  BY <1>1 DEF Logins, PoolsFit
<1>7. QED
  BY <1>4, <1>5, <1>6 DEF Logins, PoolsFit

\* The workers' logins only add to the pools.
LEMMA WorkersLogIn ==
  ASSUME WellFormed, Logins, NEW f \in Flows, NEW w \in 1..Workers,
         WorkerLogsIn(f, w) \/ WorkerOrders(f, w) \/ WorkerFails(f, w)
  PROVE  Logins'
<1>1. /\ UNCHANGED <<suite, step, outcome, own, meddled>> /\ unheard \subseteq unheard'
      /\ pool' = pool \/ AddToken("client", WorkersToken(f), TRUE)
  BY DEF WorkerLogsIn, WorkerOrders, WorkerFails, Loses, ghosts, losses, sessionVars
<1>2. SessionTypeOK /\ PoolsFit /\ \A g \in Flows : LoggedIn(g)
  BY DEF WellFormed, Logins, PoolsFit
<1>3. PoolsFit' /\ \A r \in Roles : pool[r] # {} => pool'[r] # {}
  <2>1. CASE pool' = pool
    BY <1>2, <2>1 DEF PoolsFit
  <2>2. CASE AddToken("client", WorkersToken(f), TRUE)
    <3>1. "client" \in Roles
      BY DEF Roles
    <3>2. WorkersToken(f).role = "client"
      BY <3>1, TokensAre DEF WorkersToken
    <3>3. QED
      BY <1>2, <2>2, <3>1, <3>2, AddFits
  <2>3. QED
    BY <1>1, <2>1, <2>2
<1>4. ASSUME NEW g \in Flows PROVE LoggedIn(g)'
  BY <1>1, <1>2, <1>3, LoginStays
<1>5. QED
  BY <1>3, <1>4 DEF Logins, PoolsFit

LEMMA JoinLogsNobodyIn ==
  ASSUME WellFormed, Tracks, Logins, NEW f \in Flows, Join(f)
  PROVE  Logins'
<1>1. /\ outcome[f] = "running" /\ AtStep(f).do = "parallel" /\ (Advance(f) \/ Fail(f))
      /\ UNCHANGED <<pool, suite, own, unheard, meddled>>
  BY DEF Join, Doing, sessionVars, ghosts, losses
<1>2. OnTrack(f) /\ \A g \in Flows : LoggedIn(g)
  BY DEF Tracks, Logins
<1>3. ASSUME NEW g \in Flows, g # f PROVE LoggedIn(g)'
  <2>1. outcome'[g] = outcome[g] /\ step'[g] = step[g]
    <3>1. CASE Advance(f)
      BY <1>1, <1>2, <1>3, <3>1, AdvanceSteps
    <3>2. CASE Fail(f)
      BY <1>3, <3>2 DEF Fail, WellFormed, FlowsTyped
    <3>3. QED
      BY <1>1, <3>1, <3>2
  <2>2. QED
    BY <1>1, <1>2, <2>1, LoginStays
<1>4. LoggedIn(f)'
  <2>1. CASE Advance(f)
    <3>1. Scripts[suite[f]][step[f]].do # "fixture"
      BY <1>1, <1>2, AtAStep
    <3>2. QED
      BY <1>1, <1>2, <2>1, <3>1, LoginGoesBy
  <2>2. CASE Fail(f)
    <3>1. outcome'[f] # "running"
      BY <2>2 DEF Fail, WellFormed, FlowsTyped
    <3>2. QED
      BY <1>1, <1>2, <3>1, LoginStays
  <2>3. QED
    BY <1>1, <2>1, <2>2
<1>5. PoolsFit'
  BY <1>1 DEF Logins, PoolsFit
<1>6. QED
  BY <1>3, <1>4, <1>5 DEF Logins, PoolsFit

\* Users may empty the pools, and that is meddling.
LEMMA ChangeSessionsFits ==
  ASSUME WellFormed, Logins, ChangeSessions
  PROVE  Logins'
<1>1. meddled' = TRUE /\ UNCHANGED <<suite, step, outcome, own, unheard>>
  BY DEF ChangeSessions, flowVars, losses
<1>2. SessionTypeOK /\ PoolsFit /\ UserRoles \subseteq Roles
  BY SuiteAssumption DEF WellFormed, Logins, PoolsFit
<1>3. PoolsFit'
  <2>1. ASSUME NEW role \in UserRoles, AddToken(role, Empty, TRUE) PROVE PoolsFit'
    BY <1>2, <2>1, AddFits
  <2>2. CASE SwitchAndBack
    BY <1>2, <2>2 DEF SwitchAndBack, Restore, PoolsFit
  <2>3. ASSUME NEW role \in UserRoles, NEW setActive \in BOOLEAN,
               AddToken(role, TokenOf(role, User), setActive)
        PROVE  PoolsFit'
    <3>1. role \in Roles /\ TokenOf(role, User).role = role
      BY <1>2 DEF TokenOf
    <3>2. QED
      BY <1>2, <2>3, <3>1, AddFits
  <2>4. ASSUME NEW role \in UserRoles, NEW t \in pool[role],
               SetActiveProfile(role, t) \/ DeleteProfile(role, t)
        PROVE  PoolsFit'
    <3>1. CASE SetActiveProfile(role, t)
      BY <1>2, <3>1 DEF SetActiveProfile, PoolsFit
    <3>2. CASE DeleteProfile(role, t)
      BY <1>2, <3>2 DEF DeleteProfile, PoolsFit, SessionTypeOK
    <3>3. QED
      BY <2>4, <3>1, <3>2
  <2>5. QED
    BY <2>1, <2>2, <2>3, <2>4 DEF ChangeSessions
<1>4. ASSUME NEW f \in Flows PROVE LoggedIn(f)'
  <2>1. LoggedIn(f)
    BY DEF Logins
  <2>2. QED
    BY <1>1, <2>1, LoginStays
<1>5. QED
  BY <1>3, <1>4 DEF Logins, PoolsFit

LEMMA LoginsKeep ==
  ASSUME WellFormed, Tracks, Logins, [Next]_vars
  PROVE  Logins'
<1>1. ASSUME UNCHANGED <<pool, own, step, unheard, lost, meddled>>,
             \A f \in Flows : /\ outcome'[f] = outcome[f]
                              /\ outcome[f] = "running" => suite'[f] = suite[f]
      PROVE  Logins'
  <2>1. ASSUME NEW f \in Flows PROVE LoggedIn(f)'
    BY <1>1 DEF Logins, LoggedIn
  <2>2. PoolsFit'
    BY <1>1 DEF Logins, PoolsFit
  <2>3. QED
    BY <2>1, <2>2 DEF Logins, PoolsFit
<1>2. ASSUME NEW f \in Flows, NEW s \in Suites, Start(f, s) PROVE Logins'
  <2>1. /\ outcome[f] = "none" /\ suite' = [suite EXCEPT ![f] = s]
        /\ outcome' = [outcome EXCEPT ![f] = "running"]
        /\ UNCHANGED <<pool, step, own, unheard, lost, meddled>>
    BY <1>2 DEF Start, sessionVars, ghosts, losses
  <2>2. /\ step[f] = 1 /\ \A g \in Flows : LoggedIn(g)
        /\ FlowsTyped
    BY <2>1 DEF Tracks, OnTrack, Logins, WellFormed
  <2>3. ASSUME NEW g \in Flows, g # f PROVE LoggedIn(g)'
    <3>1. outcome'[g] = outcome[g] /\ suite'[g] = suite[g]
      BY <2>1, <2>2, <2>3 DEF FlowsTyped
    <3>2. QED
      BY <2>1, <2>2, <3>1, LoginStays
  <2>4. LoggedIn(f)'
    BY <2>1, <2>2, NoLoginAtFirst DEF LoggedIn
  <2>5. PoolsFit'
    BY <2>1 DEF Logins, PoolsFit
  <2>6. QED
    BY <2>3, <2>4, <2>5 DEF Logins, PoolsFit
<1>3. ASSUME NEW f \in Flows, CallBackend(f) \/ CallLost(f) PROVE Logins'
  <2>1. meddled' = meddled
    BY <1>3 DEF CallBackend, CallLost, ghosts, losses
  <2>2. QED
    BY <1>3, <2>1, CallsAreSteps, CallLogsNobodyIn
<1>4. ASSUME NEW o \in OrderIds, ManualCall(o) PROVE Logins'
  BY <1>1, <1>4 DEF ManualCall, sessionVars, flowVars, losses
<1>5. CASE UNCHANGED vars
  BY <1>1, <1>5 DEF vars, sessionVars, flowVars, ghosts, losses
<1>6. ASSUME NEW f \in Flows, NEW w \in 1..Workers,
             WorkerLogsIn(f, w) \/ WorkerOrders(f, w) \/ WorkerFails(f, w)
      PROVE  Logins'
  BY <1>6, WorkersLogIn
<1>7. QED
  BY <1>2, <1>3, <1>4, <1>5, <1>6, LogInLogsIn, LogInLostLogsIn, AdoptLogsIn, JoinLogsNobodyIn,
     ChangeSessionsFits
     DEF Next, FlowStep

\* While the sessions are in order a call of a flow that was always heard is let in.
LEMMA IsLetIn ==
  ASSUME WellFormed, Logins, IInv, NEW f \in Flows, OnTrack(f), Doing(f, "call"),
         f \notin unheard, ~meddled, ~emptied, Authorised(suite[f], step[f])
  PROVE  AuthGuard(RoleFor[AtStep(f).to], TokenFor(f)) = 200
<1>1. outcome[f] = "running"
  BY DEF Doing
<1>2. PICK role : role = RoleFor[AtStep(f).to]
  OBVIOUS
<1>3. AtStep(f).to \in DOMAIN RoleFor
  BY AtACall
<1>4. role \in Roles
  BY <1>2, <1>3 DEF RoleFor, Roles
<1>5. /\ AtStep(f).by = "session" \/ (AtStep(f).by = "client" /\ role = "client")
      /\ LoginBefore(suite[f], step[f], role)
  BY <1>1, <1>2, AtAStep DEF Authorised
<1>6. pool[role] # {} /\ (role = "client" => own[f] = TokenOf("client", f))
  BY <1>1, <1>4, <1>5 DEF Logins, LoggedIn
<1>7. CASE AtStep(f).by = "session"
  <2>1. active[role] \in pool[role] /\ Empty \notin pool[role]
    BY <1>4, <1>6 DEF IInv, Pure, ProfilesAreUsable
  <2>2. TokenFor(f) = active[role]
    BY <1>2, <1>7, <2>1 DEF TokenFor, SessionToken
  <2>3. active[role] # Empty /\ active[role].role = role
    BY <1>4, <2>1 DEF Logins
  <2>4. QED
    BY <1>2, <2>2, <2>3 DEF AuthGuard
<1>8. CASE AtStep(f).by = "client" /\ role = "client"
  <2>1. TokenFor(f) = TokenOf("client", f)
    BY <1>6, <1>8 DEF TokenFor
  <2>2. TokenFor(f) # Empty
    BY <2>1, TokensAreNotEmpty DEF Roles
  <2>3. QED
    BY <1>2, <1>8, <2>2 DEF AuthGuard
<1>9. QED
  BY <1>5, <1>7, <1>8

\* And it gets the answer its suite waits for, unless users have been at its orders.
LEMMA IsAccepted ==
  ASSUME WellFormed, Logins, IInv, NEW f \in Flows, OnTrack(f), Doing(f, "call"),
         f \notin unheard, ~meddled, ~emptied,
         \A n \in 1..2 : orders[OrderOf(f, n)] # None => ~orders[OrderOf(f, n)].touched
  PROVE  Accepts(f, CallOf(f), Code(CallOf(f), TokenFor(f)))
<1>1. PICK c : c = AtStep(f)
  OBVIOUS
<1>2. PICK token : token = TokenFor(f)
  OBVIOUS
<1>3. PICK call : call = CallOf(f)
  OBVIOUS
<1>4. PICK o : o = OrderOf(f, c.n)
  OBVIOUS
<1>5. PICK code : code = Code(call, token)
  OBVIOUS
<1>6. /\ outcome[f] = "running" /\ ~blind[f] /\ suite[f] \in Suites
      /\ CallKnown(suite[f], step[f]) /\ c = Scripts[suite[f]][step[f]]
      /\ call.to = c.to /\ call.order = o /\ c.n \in 1..2 /\ o \in OrderIds
  BY <1>1, <1>3, <1>4, AtAStep, AtACall DEF Doing, OnTrack
<1> SUFFICES Accepts(f, call, code)
  BY <1>2, <1>3, <1>5
<1>7. orders[o] # None => ~orders[o].touched
  BY <1>4, <1>6
<1>8. orders[o] \in OrderType => ~orders[o].touched
  BY <1>7, AbsenceAssumption
<1>9. Authorised(suite[f], step[f]) => AuthGuard(RoleFor[c.to], token) = 200
  BY <1>1, <1>2, IsLetIn
<1>10. ASSUME code \in c.accept,
              code = 200 /\ Creates(call) => Shown(call) = OrderOf(f, c.shows),
              code = 200 /\ c.to = "give_order_to_courier" =>
                Handler(call).order.courier = call.with,
              c.from # None =>
                Protocol!ValidateTransition("RESTAURANT", c.from, c.stage, Actor[RoleFor[c.to]])
       PROVE  Accepts(f, call, code)
  BY <1>1, <1>10 DEF Accepts
<1>11. CASE Makes(suite[f], step[f])
  <2>1. /\ c.to \in {"create_order", "independent_order"} /\ c.accept = {200} /\ c.shows = c.n
        /\ c.from = None /\ Authorised(suite[f], step[f])
    BY <1>6, <1>11 DEF Makes
  <2>2. Shown(call) = o /\ code = AuthGuard("client", token) /\ RoleFor[c.to] = "client"
    BY <1>1, <1>2, <1>3, <1>4, <1>5, <1>11, MakesIt
  <2>3. QED
    BY <1>4, <1>9, <1>10, <2>1, <2>2
<1>12. CASE Moves(suite[f], step[f])
  <2>1. PICK k : k = Reached(suite[f], c.n, step[f])
    OBVIOUS
  <2>2. PICK path : path = Path(suite[f], c.n)
    OBVIOUS
  <2>3. /\ Brings(c.to, c.with, path[k], path[k + 1]) /\ c.accept = {200}
        /\ Authorised(suite[f], step[f])
        /\ Protocol!ValidateTransition(KindOf(suite[f], c.n), path[k], path[k + 1],
                                       Actor[RoleFor[c.to]])
        /\ c.from = None \/ /\ c.from = path[k] /\ c.stage = path[k + 1]
                            /\ KindOf(suite[f], c.n) = "RESTAURANT"
    BY <1>6, <1>12, <2>1, <2>2 DEF Moves
  <2>4. orders[o] \in OrderType /\ call.to \in Changing
    BY <1>1, <1>3, <1>4, <1>12, MovesIt
  <2>5. code = AuthGuard(RoleFor[c.to], token)
    BY <1>1, <1>2, <1>3, <1>4, <1>5, <1>6, <1>8, <1>12, <2>4, MovesIt
  <2>6. code = 200
    BY <1>9, <2>3, <2>5
  <2>7. Handler(call).code = 200
    <3>1. call.order \in OrderIds /\ call.to \in Changing /\ Code(call, token) = 200
      BY <1>5, <1>6, <2>4, <2>6
    <3>2. QED
      BY <3>1, CallIsLetIn
  <2>8. c.to = "give_order_to_courier" => Handler(call).order.courier = call.with
    <3> SUFFICES ASSUME c.to = "give_order_to_courier"
                 PROVE  Handler(call).order.courier = call.with
      OBVIOUS
    <3>1. Handler(call) = AdminAssignCourier(orders[o], call.with)
      BY <1>6, HandlerIs
    <3>2. Handler(call).order = [orders[o] EXCEPT !.courier = call.with]
      BY <2>7, <3>1 DEF AdminAssignCourier, Done, Refused
    <3>3. QED
      BY <2>4, <3>2 DEF OrderType
  <2>9. ~Creates(call)
    BY <2>4 DEF Creates, Changing
  <2>10. c.from # None =>
           Protocol!ValidateTransition("RESTAURANT", c.from, c.stage, Actor[RoleFor[c.to]])
    BY <2>3
  <2>11. QED
    BY <1>10, <2>3, <2>6, <2>8, <2>9, <2>10
<1>13. CASE Hands(suite[f], step[f])
  <2>1. /\ 200 \in c.accept /\ c.from = None /\ Authorised(suite[f], step[f])
    BY <1>6, <1>13 DEF Hands
  <2>2. orders[o] \in OrderType /\ call.to \in Changing
        /\ (code = 200 => Handler(call).order.courier = call.with)
    BY <1>1, <1>3, <1>4, <1>5, <1>13, HandsIt
  <2>3. code = AuthGuard(RoleFor[c.to], token)
    <3>1. ~blind[f] /\ ~orders[o].touched => code = AuthGuard(RoleFor[c.to], token)
      BY <1>1, <1>3, <1>4, <1>5, <1>13, HandsIt
    <3>2. QED
      BY <1>6, <1>8, <2>2, <3>1
  <2>4. ~Creates(call)
    BY <2>2 DEF Creates, Changing
  <2>5. QED
    BY <1>9, <1>10, <2>1, <2>2, <2>3, <2>4
<1>14. CASE Repeats(suite[f], step[f])
  <2>1. /\ c.accept = {200} /\ c.shows = 1 /\ c.from = None /\ c.to = "create_order"
        /\ Authorised(suite[f], step[f])
    BY <1>6, <1>14 DEF Repeats
  <2>2. Shown(call) = OrderOf(f, 1) /\ code = AuthGuard("client", token)
    BY <1>3, <1>5, <1>14, RepeatsIt
  <2>3. RoleFor[c.to] = "client"
    BY <2>1 DEF RoleFor
  <2>4. QED
    BY <1>9, <1>10, <2>1, <2>2, <2>3
<1>15. CASE ComesLate(suite[f], step[f])
  <2>1. /\ c.accept = {403} /\ c.to = "cancel" /\ c.from = None
        /\ Authorised(suite[f], step[f])
    BY <1>6, <1>15 DEF ComesLate
  <2>2. orders[o] \in OrderType
    BY <1>1, <1>4, <1>15, ComesTooLate
  <2>3. code = IF AuthGuard("client", token) = 200 THEN 403 ELSE AuthGuard("client", token)
    <3>1. ~blind[f] /\ ~orders[o].touched =>
             code = IF AuthGuard("client", token) = 200 THEN 403 ELSE AuthGuard("client", token)
      BY <1>1, <1>3, <1>4, <1>5, <1>15, ComesTooLate
    <3>2. QED
      BY <1>6, <1>8, <2>2, <3>1
  <2>4. RoleFor[c.to] = "client"
    BY <2>1 DEF RoleFor
  <2>5. QED
    BY <1>9, <1>10, <2>1, <2>3, <2>4
<1>16. CASE IsInvalid(suite[f], step[f]) \/ IsForeign(suite[f], step[f])
  <2>1. /\ code # 200
        /\ code \in c.accept \/ (Authorised(suite[f], step[f])
                                 /\ AuthGuard(RoleFor[c.to], token) # 200)
    BY <1>1, <1>2, <1>3, <1>5, <1>16, IsRefused
  <2>2. c.from = None
    BY <1>6, <1>16 DEF IsInvalid, IsForeign
  <2>3. QED
    BY <1>9, <1>10, <2>1, <2>2
<1>17. QED
  BY <1>6, <1>11, <1>12, <1>13, <1>14, <1>15, <1>16 DEF CallKnown

\* Why the suite of a flow may have failed.
HasCause(f) ==
  \/ f \in unheard \/ meddled \/ emptied
  \/ \E n \in 1..2 : orders[OrderOf(f, n)] # None /\ TouchedByUsers(OrderOf(f, n))

\* An order users have changed is one for good.
LEMMA TouchStays ==
  ASSUME WellFormed, Tracks, Crews, [Next]_vars, NEW p \in OrderIds, orders[p] # None, orders[p].touched
  PROVE  orders'[p] # None /\ orders'[p].touched
<1>1. CASE orders'[p] = orders[p]
  BY <1>1
<1>2. ASSUME NEW f \in Flows, NEW code, CallStep(f, code), orders'[p] # orders[p]
      PROVE  orders'[p] # None /\ orders'[p].touched
  <2>1. OnTrack(f) /\ Doing(f, "call")
    BY <1>2 DEF Tracks, CallStep
  <2>2. UNCHANGED mockVars \/ Process(CallOf(f), TokenFor(f), FALSE)
    BY <1>2, Zenon DEF CallStep, Answered
  <2>3. Effect(f)
    BY <1>2, <2>1, <2>2, CallEffect DEF mockVars
  <2>4. PICK actor : actor = Actor[RoleFor[AtStep(f).to]]
    OBVIOUS
  <2>5. Turns(orders[p], orders'[p], actor, FALSE)
    BY <1>2, <2>3, <2>4 DEF Effect, mockVars
  <2>6. QED
    BY <2>5, AbsenceAssumption DEF Turns
<1>3. ASSUME NEW o \in OrderIds, ManualCall(o) PROVE orders'[p] # None /\ orders'[p].touched
  <2>1. /\ orders'[o] \in OrderType
        /\ orders[o].touched => orders'[o].touched
        /\ \A q \in OrderIds : q # o => orders'[q] = orders[q]
    BY <1>3, UserCallDoes
  <2>2. QED
    BY <2>1, AbsenceAssumption
<1>4. ASSUME NEW f \in Flows, NEW w \in 1..Workers, WorkerStep(f, w)
      PROVE  orders'[p] # None /\ orders'[p].touched
  BY <1>1, <1>4, WorkerMakes
<1>5. QED
  BY <1>1, <1>2, <1>3, <1>4, WhoChangesOrders DEF Quiet

LEMMA CauseStays ==
  ASSUME WellFormed, Tracks, Crews, [Next]_vars, NEW f \in Flows, HasCause(f)
  PROVE  HasCause(f)'
<1>1. /\ unheard \subseteq unheard'
      /\ meddled => meddled'
      /\ emptied => emptied'
  <2>1. ASSUME NEW g \in Flows, FlowStep(g)
        PROVE  unheard \subseteq unheard' /\ meddled' = meddled /\ (emptied => emptied')
    <3>1. CASE UNCHANGED ghosts
      BY <3>1 DEF ghosts, losses
    <3>2. CASE LogInLost(g) \/ CallLost(g) \/ \E w \in 1..Workers : WorkerFails(g, w)
      <4>1. unheard' = unheard \cup {g} /\ UNCHANGED <<emptied, meddled>>
        BY <3>2 DEF LogInLost, CallLost, WorkerFails, Loses
      <4>2. QED
        BY <4>1
    <3>3. CASE AdoptSession(g)
      <4>1. UNCHANGED <<unheard, lost, meddled>>
        BY <3>3 DEF AdoptSession, losses
      <4>2. emptied => emptied'
        BY <3>3, Zenon DEF AdoptSession
      <4>3. QED
        BY <4>1, <4>2
    <3>4. \/ UNCHANGED ghosts
          \/ LogInLost(g) \/ CallLost(g) \/ \E w \in 1..Workers : WorkerFails(g, w)
          \/ AdoptSession(g)
      BY <2>1, Zenon DEF FlowStep, Start, LogIn, CallBackend, WorkerLogsIn, WorkerOrders, Join
    <3>5. QED
      BY <3>1, <3>2, <3>3, <3>4
  <2>2. ASSUME NEW o \in OrderIds, ManualCall(o)
        PROVE  UNCHANGED <<unheard, lost, meddled, emptied>>
    BY <2>2 DEF ManualCall, losses
  <2>3. CASE ChangeSessions
    <3>1. unheard' = unheard
      BY <2>3 DEF ChangeSessions, losses
    <3>2. meddled'
      BY <2>3, Zenon DEF ChangeSessions
    <3>3. emptied => emptied'
      BY <2>3, Zenon DEF ChangeSessions
    <3>4. QED
      BY <3>1, <3>2, <3>3
  <2>4. CASE UNCHANGED vars
    BY <2>4 DEF vars, ghosts, losses
  <2>5. QED
    BY <2>1, <2>2, <2>3, <2>4 DEF Next
<1>2. ASSUME NEW n \in 1..2, orders[OrderOf(f, n)] # None, TouchedByUsers(OrderOf(f, n))
      PROVE  HasCause(f)'
  <2>1. PICK o \in OrderIds : o = OrderOf(f, n)
    BY IdsAre
  <2>2. orders[o] # None /\ orders[o].touched
    BY <1>2, <2>1 DEF TouchedByUsers
  <2>3. orders'[o] # None /\ orders'[o].touched
    BY <2>2, TouchStays
  <2>4. QED
    BY <2>1, <2>3 DEF HasCause, TouchedByUsers
<1>3. QED
  BY <1>1, <1>2 DEF HasCause

\* When its workers have all placed their orders the suite passes.
LEMMA JoinFails ==
  ASSUME WellFormed, Tracks, Crews, NEW f \in Flows, Join(f), ~Advance(f)
  PROVE  f \in unheard'
<1>1. SUFFICES ASSUME \A w \in 1..Workers : worker[f][w] # "failed" PROVE FALSE
  BY DEF Crews, CrewAt, Join, ghosts, losses
<1>2. \A w \in 1..Workers : worker[f][w] = "done"
  BY <1>1 DEF Join
<1>3. ASSUME NEW v \in 1..Workers, NEW w \in 1..Workers,
             Shown(WorkersCall(f, v)) = Shown(WorkersCall(f, w))
      PROVE  v = w
  <2>1. WorkersOrder(f, v) = WorkersOrder(f, w)
    BY <1>3, WorkersCallDoes
  <2>2. QED
    BY <2>1, WorkersOrdersAre
<1>4. QED
  BY <1>2, <1>3 DEF Join

\* Nobody but the flow itself makes its suite fail, and it only by a call.
LEMMA WhoFails ==
  ASSUME WellFormed, Tracks, Crews, [Next]_vars, NEW f \in Flows,
         outcome[f] # "failed", outcome'[f] = "failed"
  PROVE  \/ f \in unheard'
         \/ CallBackend(f) /\ ~Accepts(f, CallOf(f), Code(CallOf(f), TokenFor(f)))
<1>1. outcome \in [Flows -> {"none", "running", "passed", "failed"}]
  BY DEF WellFormed, FlowsTyped
<1>2. PICK g \in Flows : FlowStep(g)
  BY DEF Next, ManualCall, ChangeSessions, flowVars, vars
<1>3. \A s \in Suites : ~Start(g, s)
  BY <1>1 DEF Start
<1>4. outcome[g] = "running" /\ OnTrack(g) /\ UNCHANGED suite
  BY <1>2, <1>3
     DEF FlowStep, LogIn, LogInLost, AdoptSession, CallBackend, CallLost, Join, Doing, Tracks,
         WorkerLogsIn, WorkerOrders, WorkerFails, WorkerAt
<1>5. ~Advance(g)
  BY <1>4, AdvanceSteps
<1>6. g = f
  <2>1. Fail(g) \/ UNCHANGED outcome
    BY <1>2, <1>3, <1>5
       DEF FlowStep, LogIn, LogInLost, AdoptSession, CallBackend, CallLost, GoOn, Join,
           WorkerLogsIn, WorkerOrders, WorkerFails
  <2>2. QED
    BY <1>1, <2>1 DEF Fail
<1>7. LogInLost(f) \/ CallLost(f) \/ CallBackend(f) \/ Join(f)
  BY <1>2, <1>3, <1>5, <1>6
     DEF FlowStep, LogIn, AdoptSession, WorkerLogsIn, WorkerOrders, WorkerFails
<1>8. CASE CallBackend(f)
  BY <1>5, <1>6, <1>8 DEF CallBackend, GoOn
<1>9. CASE Join(f)
  BY <1>5, <1>6, <1>9, JoinFails
<1>10. QED
  BY <1>7, <1>8, <1>9 DEF LogInLost, CallLost, Loses

LEMMA CausesKeep ==
  ASSUME WellFormed, Tracks, Crews, Logins, IInv, FailuresHaveACause, [Next]_vars
  PROVE  FailuresHaveACause'
<1> SUFFICES ASSUME NEW f \in Flows, outcome'[f] = "failed" PROVE HasCause(f)'
  BY DEF FailuresHaveACause, HasCause
<1>1. ASSUME HasCause(f) PROVE HasCause(f)'
  BY <1>1, CauseStays
<1>2. CASE outcome[f] = "failed"
  BY <1>1, <1>2 DEF FailuresHaveACause, HasCause
<1>3. CASE outcome[f] # "failed" /\ f \notin unheard'
  <2>1. CallBackend(f) /\ ~Accepts(f, CallOf(f), Code(CallOf(f), TokenFor(f)))
    BY <1>3, WhoFails
  <2>2. OnTrack(f) /\ Doing(f, "call")
    BY <2>1 DEF Tracks, CallBackend
  <2>3. HasCause(f)
    BY <2>1, <2>2, IsAccepted DEF HasCause, TouchedByUsers
  <2>4. QED
    BY <1>1, <2>3
<1>4. QED
  BY <1>2, <1>3 DEF HasCause

\* A suite fails for a reason outside it, however many suites share its sessions and
\* however many workers it has: one of its own calls was lost or a login of its own
\* failed, users changed its orders or the sessions, or an empty session was made the
\* active one for all.
THEOREM FailuresAreCaused == Spec => []FailuresHaveACause
<1>1. Init => Logins /\ IInv /\ FailuresHaveACause
  <2> SUFFICES ASSUME Init PROVE Logins /\ IInv /\ FailuresHaveACause
    OBVIOUS
  <2>1. /\ outcome = [f \in Flows |-> "none"] /\ own = [f \in Flows |-> Empty]
        /\ pool = [r \in Roles |-> {}] /\ active = [r \in Roles |-> None]
        /\ emptied = FALSE
    BY DEF Init, SessionInit
  <2>2. Logins
    BY <2>1 DEF Logins, LoggedIn
  <2>3. IInv
    BY <2>1 DEF IInv, Shape, Pure, ProfilesAreUsable
  <2>4. FailuresHaveACause
    BY <2>1 DEF FailuresHaveACause
  <2>5. QED
    BY <2>2, <2>3, <2>4
<1>2. WellFormed /\ Tracks /\ Crews /\ Logins /\ IInv /\ FailuresHaveACause /\ [Next]_vars
        => Logins' /\ FailuresHaveACause'
  BY LoginsKeep, CausesKeep
<1>3. QED
  BY <1>1, <1>2, FlowsStart, FlowsKeep, CrewsKeep, NextKeeps, PTL DEF Spec

=============================================================================
