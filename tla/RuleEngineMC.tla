--------------------------- MODULE RuleEngineMC ---------------------------
(* Small instances of the rule engine: one area, whose two sensors overlap on
   one parameter, so that partial and full loss of coverage both happen, or
   whose one sensor both tasks are at, several readings and scans long.      *)
EXTENDS RuleEngine

CONSTANTS s1, s2, a1, p1, p2

OneArea    == [s \in Sensors |-> a1]
AllMeasure == [s \in Sensors |-> Parameters]
Overlap    == [s \in Sensors |-> IF s = s1 THEN {p1} ELSE {p1, p2}]
=============================================================================
