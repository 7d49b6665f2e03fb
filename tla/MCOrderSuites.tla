---------------------------- MODULE MCOrderSuites ----------------------------
(* Two overlapping suites.                                                   *)
EXTENDS OrderSuites, TLC

CONSTANTS f1, f2

MCFlows == {f1, f2}
MCOrderIds == MCFlows \X (1..4)
MCCouriers == MCFlows \X (1..2)
MCTokens == [role : {"client", "rest", "courier", "admin"}, owner : MCFlows \cup {User}]
MCSuites == DOMAIN Scripts
MCSymmetry == Permutations(MCFlows)
=============================================================================
