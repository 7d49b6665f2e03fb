--------------------------- MODULE MCCheckResults ---------------------------
(* The whole catalogue, and a custom scenario in three versions.             *)
EXTENDS CheckResults, TestSuites, TLC

MCSuites == DOMAIN Catalogue
MCStepLists == {<<"setup">>, <<"setup", "pickup">>, <<"pickup", "setup">>}
MCCheckIds == UNION {Elements(Catalogue[s]) : s \in MCSuites}
=============================================================================
