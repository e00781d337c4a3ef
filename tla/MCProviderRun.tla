---------------------------- MODULE MCProviderRun ----------------------------
(***************************************************************************)
(* Small runs for TLC: a writer and the revision of its draft, with an     *)
(* item of unknown input between them or without it.                       *)
(***************************************************************************)
EXTENDS ProviderRun

CONSTANTS w1, w2, w3

TwoWork == {w1, w3}
TwoPlan == <<w1, w3>>
TwoDeps == [w \in TwoWork |-> IF w = w3 THEN {w1} ELSE {}]

ThreeWork == {w1, w2, w3}
ThreePlan == <<w1, w2, w3>>
ThreeDeps == [w \in ThreeWork |-> IF w = w3 THEN {w1} ELSE {}]

OneWork == {w1}
OnePlan == <<w1>>
OneDeps == [w \in OneWork |-> {}]
=============================================================================
