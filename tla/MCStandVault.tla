----------------------------- MODULE MCStandVault -----------------------------
(* A small instance of StandVault: the embedded mock and one real stand that *)
(* comes and goes, two requests at a time, one login and one preset token.   *)
EXTENDS StandVault, TLC

CONSTANTS mockStand, real, t1, preset, h1, h2

MCSymmetry == Permutations({h1, h2})

=============================================================================
