------------------------------ MODULE Coverage ------------------------------
(***************************************************************************)
(* What the redundancy rules promise, with no counter in sight: a set of    *)
(* sensors that are down, and for every sensor that goes down one           *)
(* announcement per parameter it measures, whose severity is decided by how *)
(* many sensors still cover that parameter in its area.                     *)
(***************************************************************************)
EXTENDS Naturals, FiniteSets

CONSTANTS
  Sensors, Areas, Parameters, AreaOf, Measures,
  Exact   \* whether it is known how many sensors cover a parameter

VARIABLES down,      \* the sensors known to be faulty
          owed,      \* announcements still to be made, as <<sensor, parameter>>
          announced, \* the redundancy alerts made so far
          outages    \* how many times each sensor went down

vars == <<down, owed, announced, outages>>

(* The sensors that still cover parameter p in the area of s.               *)
Covering(s, p) ==
  {t \in Sensors \ down : AreaOf[t] = AreaOf[s] /\ p \in Measures[t]}

Announcement(kind, severity, s, p, n) ==
  [kind |-> kind, severity |-> severity, sensor |-> s, parameter |-> p,
   remaining |-> n, episode |-> outages[s]]

Init ==
  /\ down = {}
  /\ owed = {}
  /\ announced = {}
  /\ outages = [s \in Sensors |-> 0]

GoDown(s) ==
  /\ s \notin down
  /\ owed = {}
  /\ down' = down \cup {s}
  /\ owed' = {s} \X Measures[s]
  /\ outages' = [outages EXCEPT ![s] = @ + 1]
  /\ UNCHANGED announced

(* Loss of all coverage is escalated; partial loss is a low malfunction that
   names how many sensors are left, or no more than that.                    *)
Left(s, p) ==
  LET n == Cardinality(Covering(s, p)) IN IF Exact THEN {n} ELSE 0 .. n

Announce(s, p) ==
  /\ <<s, p>> \in owed
  /\ owed' = owed \ {<<s, p>>}
  /\ \E n \in Left(s, p) :
       announced' = announced \cup
         IF n = 0
         THEN {Announcement("malfunction", "high", s, p, 0),
               Announcement("priority", "high", s, p, 0)}
         ELSE {Announcement("malfunction", "low", s, p, n)}
  /\ UNCHANGED <<down, outages>>

ComeBack(s) ==
  /\ s \in down
  /\ owed = {}
  /\ down' = down \ {s}
  /\ UNCHANGED <<owed, announced, outages>>

Next == \E s \in Sensors :
          \/ GoDown(s)
          \/ ComeBack(s)
          \/ \E p \in Parameters : Announce(s, p)

Rules == Init /\ [][Next]_vars
Spec  == Rules /\ WF_vars(\E s \in Sensors, p \in Parameters : Announce(s, p))
=============================================================================
