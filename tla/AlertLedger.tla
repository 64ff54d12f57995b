---------------------------- MODULE AlertLedger ----------------------------
(***************************************************************************)
(* What the alert path promises its managers, with no topics, services or     *)
(* failures in it: an alert enters the record once and stays; a session is    *)
(* shown only what is on record, once for each channel that carries it to    *)
(* the session; a recorded alert is acknowledged by one manager, for good.   *)
(***************************************************************************)
EXTENDS Naturals

CONSTANTS
  Alerts, Users, Sessions,
  Nobody,
  Channels(_, _)    \* how many channels carry an alert to a session

VARIABLES
  recorded,  \* the alerts on record
  shown,     \* how often a session was shown an alert
  owner      \* who acknowledged an alert

vars == <<recorded, shown, owner>>

Init ==
  /\ recorded = {}
  /\ shown = [s \in Sessions |-> [a \in Alerts |-> 0]]
  /\ owner = [a \in Alerts |-> Nobody]

Record(a) ==
  /\ a \notin recorded
  /\ recorded' = recorded \cup {a}
  /\ UNCHANGED <<shown, owner>>

Show(s, a) ==
  /\ a \in recorded
  /\ shown[s][a] < Channels(s, a)
  /\ shown' = [shown EXCEPT ![s][a] = @ + 1]
  /\ UNCHANGED <<recorded, owner>>

Acknowledge(u, a) ==
  /\ a \in recorded
  /\ owner[a] = Nobody
  /\ owner' = [owner EXCEPT ![a] = u]
  /\ UNCHANGED <<recorded, shown>>

Next == \E a \in Alerts :
  \/ Record(a)
  \/ \E s \in Sessions : Show(s, a)
  \/ \E u \in Users : Acknowledge(u, a)

Spec == Init /\ [][Next]_vars
=============================================================================
