------------------------------ MODULE GridMC ------------------------------
(* Grid for TLC: a zone of two load areas whose values tell them apart. *)
EXTENDS Grid
TwoAreas == <<"a1", "a2">>
LegValues == [l \in {"a1", "a2", Wind, Solar, Other, "ewind", "esolar"} |->
                IF l = "a1" THEN {10, 20} ELSE IF l = "a2" THEN {3} ELSE {1}]
=============================================================================
