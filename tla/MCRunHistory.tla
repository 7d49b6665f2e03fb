----------------------------- MODULE MCRunHistory -----------------------------
(* A small instance of RunHistory: a regression batch of two runs next to a  *)
(* single manual run, with room for two runs in the history.                 *)
EXTENDS RunHistory

CONSTANTS nightly, manual, n1, n2, m1

MCRequests == {nightly, manual}
MCRuns == {n1, n2, m1}
MCBatch == [q \in MCRequests |-> IF q = nightly THEN <<n1, n2>> ELSE <<m1>>]

===============================================================================
