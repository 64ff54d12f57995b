---------------------------- MODULE AlertPathMC ----------------------------
(* A small instance of the alert path: an ordinary, an escalated and an invalid alert
   of one area, the manager of another, and a regional manager with a session.  *)
EXTENDS AlertPath

CONSTANTS low, high, bad, area, other, local, region, session

Kind     == [a \in Alerts |-> IF a = high THEN "priority" ELSE "malfunction"]
Severity == [a \in Alerts |-> IF a = high THEN "high" ELSE "low"]
InArea   == [a \in Alerts |-> area]
User     == [s \in Sessions |-> region]
Reach    == [u \in Users |-> IF u = local THEN {other} ELSE {area}]

Sends == [k \in Kinds |-> IF k = "priority" THEN 1 ELSE 2]
=============================================================================
