---------------------------- MODULE MCInputBroker ----------------------------
(* A small instance of InputBroker: a run "flow" of two logins, which follow *)
(* one another or overlap, and a run "solo" of one, whose prompts share the  *)
(* admin-UI tab with theirs.                                                 *)
EXTENDS InputBroker, TLC

CONSTANTS flow, solo, f1, f2, s1

MCRuns == {flow, solo}
MCLogins == {f1, f2, s1}
MCRunOf == [l \in MCLogins |-> IF l = s1 THEN solo ELSE flow]

\* flow belongs to a flow suite or to the idempotency suite.
MCOverlaps == {{}, {flow}}
MCRank == [l \in MCLogins |-> IF l = f2 THEN 2 ELSE 1]

=============================================================================
