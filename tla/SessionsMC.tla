----------------------------- MODULE SessionsMC -----------------------------
(* A session of a manager of any level, with two requests under way at a time;
   the manager is responsible for one of two areas, in a city of its own.    *)
EXTENDS Sessions, TLC

CONSTANTS area, city, region, a1, a2, c1, c2, r1, r2, j1, q1, q2

InRegion == [c \in Cities |-> IF c = c1 THEN r1 ELSE r2]
InCity   == [a \in Areas |-> IF a = a1 THEN c1 ELSE c2]
Role == [u \in Users |-> CASE u = area -> "area_manager"
                           [] u = city -> "city_manager"
                           [] u = region -> "regional_manager"]
Charge == [u \in Users |-> CASE u = area -> {a1} [] u = city -> {c1} [] u = region -> {r1}]
Symmetry == Permutations(Requests)
=============================================================================
