---------------------------- MODULE MCSpecImport ----------------------------
(* Two documents that share the key of one of their scenarios.               *)
EXTENDS SpecImport, TLC

CONSTANTS a, b, k1, k2, k3

MCDocs == {a, b}
MCKeysOf == (a :> <<k1, k2>>) @@ (b :> <<k2, k3>>)
MCStepsOf == (a :> <<"get_a">>) @@ (b :> <<"get_b">>)
MCUserSteps == {<<"own">>}
MCStepLists == {<<"get_a">>, <<"get_b">>, <<"own">>}
MCGenerated == <<k1, k2, k3>>
=============================================================================
