----------------------------- MODULE AlertPath -----------------------------
(***************************************************************************)
(* The path of an alert after the rule engine: the three Kafka alert topics, *)
(* the alert service's consumer (deduplicate, persist in opdb.alert, publish *)
(* on Redis Pub/Sub), the dashboard BFF's WebSocket handlers that forward    *)
(* what is published, and the acknowledgement a manager sends back.          *)
(*                                                                         *)
(* Every await of the consumer is a step of its own; Redis Pub/Sub keeps      *)
(* nothing for a session that is not subscribed at that moment.              *)
(***************************************************************************)
EXTENDS Integers, Sequences, FiniteSets

CONSTANTS
  Alerts, Areas, Users, Sessions,
  Nobody,       \* the NULL of acknowledged_by
  KindOf, SeverityOf, AreaOf,  \* of an alert
  Malformed,    \* the alerts whose payload does not validate
  UserOf,       \* the user of a browser session
  Scope,        \* the areas a user's jurisdiction resolves to
  Regional,     \* the users with role regional_manager
  MaxSends,     \* bound: messages in each topic, the producer's retries included
  MaxFaults     \* bound: crashes, database and Redis errors, lost connections

Kinds == {"threshold", "malfunction", "priority"}

ASSUME AlertAssumption ==
  /\ IsFiniteSet(Alerts) /\ Alerts # {} /\ Nobody \notin Users
  /\ KindOf \in [Alerts -> Kinds]
  /\ SeverityOf \in [Alerts -> {"low", "medium", "high"}]
  /\ AreaOf \in [Alerts -> Areas]
  /\ Malformed \subseteq Alerts
  /\ UserOf \in [Sessions -> Users]
  /\ Scope \in [Users -> SUBSET Areas]
  /\ Regional \subseteq Users
  /\ MaxSends \in [Kinds -> Nat] /\ MaxFaults \in Nat

VARIABLES
  topic, position, committed,  \* the alert topics and the consumer's offsets
  pc, cur,      \* the consumer: what it does next, and to which alert
  table,        \* opdb.alert: the alerts that have a row
  acked,        \* acknowledged_by of each row
  thanked,      \* history: who was told that the acknowledgement succeeded
  socket,       \* each session's WebSocket: closed, open, or left by the browser
                \* while its handler is still subscribed
  queue,        \* messages published to a handler and not yet forwarded
  seen,         \* history: what each session was shown, in order
  faults        \* what has been used of the bound

kafka   == <<topic, position, committed>>
store   == <<table, acked, thanked>>
fanout  == <<socket, queue, seen>>
vars    == <<kafka, pc, cur, store, fanout, faults>>

NoOffset == -1
Stages == {"idle", "insert", "area", "high"}

Init ==
  /\ topic = [k \in Kinds |-> <<>>]
  /\ position = [k \in Kinds |-> 0]
  /\ committed = [k \in Kinds |-> NoOffset]
  /\ pc = "idle"
  /\ cur \in Alerts
  /\ table = {}
  /\ acked = [a \in Alerts |-> Nobody]
  /\ thanked = {}
  /\ socket = [s \in Sessions |-> "closed"]
  /\ queue = [s \in Sessions |-> <<>>]
  /\ seen = [s \in Sessions |-> <<>>]
  /\ faults = 0

Fault == faults < MaxFaults /\ faults' = faults + 1

-----------------------------------------------------------------------------
(* The rule engine's producer; a retried send may append an alert twice.     *)
Send(a) ==
  LET k == KindOf[a] IN
  /\ Len(topic[k]) < MaxSends[k]
  /\ topic' = [topic EXCEPT ![k] = Append(@, a)]
  /\ UNCHANGED <<position, committed, pc, cur, store, fanout, faults>>

-----------------------------------------------------------------------------
(* AlertConsumer: start's loop and _handle.                                  *)
BulkOnly == Kinds \ {"priority"}      \* mutant: a topic left out of KAFKA_TOPICS
Subscribed == Kinds

(* The payload is an Alert by its model; any other is logged and skipped.    *)
Valid(a) == a \notin Malformed

PublishUnsaved(a) == IF Valid(a) THEN "area" ELSE "idle"      \* mutant: no insert
AfterFetch(a) == IF Valid(a) THEN "insert" ELSE "idle"

Fetch(k) ==
  LET a == topic[k][position[k] + 1] IN
  /\ pc = "idle"
  /\ k \in Subscribed
  /\ position[k] < Len(topic[k])
  /\ position' = [position EXCEPT ![k] = @ + 1]
  /\ cur' = a
  /\ pc' = AfterFetch(a)
  /\ UNCHANGED <<topic, committed, store, fanout, faults>>

NeverDuplicate(a) == FALSE            \* mutant: the insert's row count ignored
Duplicate(a) == a \in table

(* INSERT ... ON CONFLICT DO NOTHING; a duplicate goes no further.           *)
Insert ==
  /\ pc = "insert"
  /\ table' = table \cup {cur}
  /\ pc' = IF Duplicate(cur) THEN "idle" ELSE "area"
  /\ UNCHANGED <<kafka, cur, acked, thanked, fanout, faults>>

AfterArea(a) == IF SeverityOf[a] = "high" THEN "high" ELSE "idle"

(* The handlers subscribed to an alert's area channel, and to the channel
   alerts:high_severity.                                                     *)
OnArea(a) == {s \in Sessions : AreaOf[a] \in Scope[UserOf[s]]}
OnHigh    == {s \in Sessions : UserOf[s] \in Regional}

Pushed(handlers) ==
  [s \in Sessions |-> IF s \in handlers /\ socket[s] # "closed"
                      THEN Append(queue[s], cur) ELSE queue[s]]

PublishArea ==
  /\ pc = "area"
  /\ queue' = Pushed(OnArea(cur))
  /\ pc' = AfterArea(cur)
  /\ UNCHANGED <<kafka, cur, store, socket, seen, faults>>

PublishHigh ==
  /\ pc = "high"
  /\ queue' = Pushed(OnHigh)
  /\ pc' = "idle"
  /\ UNCHANGED <<kafka, cur, store, socket, seen, faults>>

(* A failed PUBLISH is logged and counted; the alert goes on its way.        *)
PublishError ==
  /\ pc \in {"area", "high"}
  /\ Fault
  /\ pc' = IF pc = "area" THEN AfterArea(cur) ELSE "idle"
  /\ UNCHANGED <<kafka, cur, store, fanout>>

AutoCommit(k) ==
  /\ committed[k] # position[k]
  /\ committed' = [committed EXCEPT ![k] = position[k]]
  /\ UNCHANGED <<topic, position, pc, cur, store, fanout, faults>>

SkipOne(offset, end) ==               \* mutant: the committed record taken as read
  IF offset = NoOffset THEN end ELSE offset + 1
ResumeAt(offset, end) == IF offset = NoOffset THEN end ELSE offset

(* The process stops and compose restarts it; a partition without a committed
   offset resumes at its end.                                                *)
Restart(offsets) ==
  /\ committed' = offsets
  /\ position' = [k \in Kinds |-> ResumeAt(offsets[k], Len(topic[k]))]
  /\ pc' = "idle"
  /\ UNCHANGED <<topic, cur, acked, thanked, fanout>>

Crash == Fault /\ Restart(committed) /\ UNCHANGED table

(* An insert that raises ends start's loop: its finally stops the Kafka
   consumer, which commits what was fetched, and the process exits.  The row
   may have been written all the same.                                       *)
InsertError ==
  /\ pc = "insert"
  /\ Fault
  /\ Restart(position)
  /\ table' \in {table, table \cup {cur}}

-----------------------------------------------------------------------------
(* The BFF's ws_alerts handler of each session.                              *)
Connect(s) ==
  LET u == UserOf[s] IN
  /\ socket[s] = "closed"
  /\ Scope[u] # {} \/ u \in Regional
  /\ socket' = [socket EXCEPT ![s] = "open"]
  /\ UNCHANGED <<kafka, pc, cur, store, queue, seen, faults>>

(* Forward the next message; a send to a browser that left ends the handler. *)
Forward(s) ==
  /\ queue[s] # <<>>
  /\ IF socket[s] = "open"
     THEN /\ seen' = [seen EXCEPT ![s] = Append(@, Head(queue[s]))]
          /\ queue' = [queue EXCEPT ![s] = Tail(@)]
          /\ UNCHANGED socket
     ELSE /\ socket' = [socket EXCEPT ![s] = "closed"]
          /\ queue' = [queue EXCEPT ![s] = <<>>]
          /\ UNCHANGED seen
  /\ UNCHANGED <<kafka, pc, cur, store, faults>>

Leave(s) ==
  /\ socket[s] = "open"
  /\ Fault
  /\ socket' = [socket EXCEPT ![s] = "left"]
  /\ UNCHANGED <<kafka, pc, cur, store, queue, seen>>

(* The Redis subscription or the BFF itself goes down.                       *)
Drop(s) ==
  /\ socket[s] # "closed"
  /\ Fault
  /\ socket' = [socket EXCEPT ![s] = "closed"]
  /\ queue' = [queue EXCEPT ![s] = <<>>]
  /\ UNCHANGED <<kafka, pc, cur, store, seen>>

-----------------------------------------------------------------------------
(* ack_alert of the BFF, and through it of the alert service: one UPDATE.    *)
AnyRow(a) == a \in table              \* mutant: AND acknowledged_at IS NULL dropped
Updatable(a) == a \in table /\ acked[a] = Nobody

(* Answered 204 if the row was updated, else 404, which changes nothing.     *)
Acknowledge(u, a) ==
  /\ Updatable(a)
  /\ acked' = [acked EXCEPT ![a] = u]
  /\ thanked' = thanked \cup {<<u, a>>}
  /\ UNCHANGED <<kafka, pc, cur, table, fanout, faults>>

(* The BFF gave up after 5 s, but the UPDATE was done.                       *)
AcknowledgeTimeout(u, a) ==
  /\ Updatable(a)
  /\ Fault
  /\ acked' = [acked EXCEPT ![a] = u]
  /\ UNCHANGED <<kafka, pc, cur, table, thanked, fanout>>

-----------------------------------------------------------------------------
Consume == (\E k \in Kinds : Fetch(k)) \/ Insert \/ PublishArea \/ PublishHigh

(* Any user may name any alert: neither service looks at the alert's area.   *)
Manage == \E u \in Users, a \in Alerts : Acknowledge(u, a) \/ AcknowledgeTimeout(u, a)

Next ==
  \/ \E a \in Alerts : Send(a)
  \/ Consume \/ PublishError \/ Crash \/ InsertError
  \/ \E k \in Kinds : AutoCommit(k)
  \/ \E s \in Sessions : Connect(s) \/ Forward(s) \/ Leave(s) \/ Drop(s)
  \/ Manage

Spec == /\ Init /\ [][Next]_vars
        /\ WF_vars(Consume)
        /\ \A s \in Sessions : WF_vars(Forward(s))

-----------------------------------------------------------------------------
TypeOK ==
  /\ topic \in [Kinds -> Seq(Alerts)]
  /\ position \in [Kinds -> Nat] /\ committed \in [Kinds -> Int]
  /\ \A k \in Kinds : position[k] \in 0 .. Len(topic[k])
  /\ \A k \in Kinds : committed[k] \in {NoOffset} \cup 0 .. Len(topic[k])
  /\ pc \in Stages /\ cur \in Alerts
  /\ table \subseteq Alerts
  /\ acked \in [Alerts -> Users \cup {Nobody}]
  /\ thanked \subseteq Users \X Alerts
  /\ socket \in [Sessions -> {"closed", "open", "left"}]
  /\ queue \in [Sessions -> Seq(Alerts)]
  /\ seen \in [Sessions -> Seq(Alerts)]
  /\ faults \in Nat

Members(q) == {q[i] : i \in 1 .. Len(q)}
Occurrences(a, q) == Cardinality({i \in 1 .. Len(q) : q[i] = a})

(* What a manager is shown is on record: an alert is never pushed before its
   row is in opdb.alert, so the acknowledgement of it finds the row.         *)
SeenIsRecorded ==
  \A s \in Sessions : Members(seen[s]) \cup Members(queue[s]) \subseteq table

(* Producer retries, redelivery after a crash and half-failed inserts never
   push an alert again: a session is shown it at most once per channel it
   subscribes to (twice only for a regional manager and a high alert).       *)
Carrying(s, a) == {c \in {"area", "high"} :
                     \/ c = "area" /\ s \in OnArea(a)
                     \/ c = "high" /\ s \in OnHigh /\ SeverityOf[a] = "high"}
PushedOnce ==
  \A s \in Sessions, a \in Alerts :
    Occurrences(a, seen[s] \o queue[s]) <= Cardinality(Carrying(s, a))

(* Of any number of managers racing to acknowledge an alert, one is told it
   succeeded, and the record keeps naming that one.                          *)
OneAcknowledger == \A u \in Users, a \in Alerts : <<u, a>> \in thanked => acked[a] = u

Carriers(s, a) == Cardinality(Carrying(s, a))

Shown == [s \in Sessions |-> [a \in Alerts |-> Occurrences(a, seen[s])]]

Promise == INSTANCE AlertLedger WITH
  Channels <- Carriers,
  recorded <- table, shown <- Shown, owner <- acked

(* Through resends, restarts, failed inserts and publishes, lost sessions and
   acknowledgements that time out, every step of the alert path is a step of
   the ledger or changes nothing in it.                                      *)
ImplementsLedger == Promise!Spec

(* Once failures have stopped, an alert still to be consumed for the first
   time reaches every session that is open for its area.                     *)
Ahead(a) == LET k == KindOf[a] IN
  \E i \in 1 .. Len(topic[k]) : i > position[k] /\ topic[k][i] = a
Unread(a) == Ahead(a) /\ Valid(a) /\ a \notin table
LiveDelivery ==
  \A s \in Sessions, a \in Alerts :
    Unread(a) /\ socket[s] = "open" /\ s \in OnArea(a) /\ faults = MaxFaults
      ~> a \in Members(seen[s])

(* The service's README calls it "the audit-of-record for every alert": a
   consumer whose group has its offset lets go of an alert in hand only if
   the alert has its row or is still to be read again.                       *)
EveryAlertRecorded ==
  [][ pc = "insert" /\ committed'[KindOf[cur]] # NoOffset =>
        pc' = "insert" \/ cur \in table' \/ Ahead(cur)' ]_vars
=============================================================================
