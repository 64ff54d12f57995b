-------------------------- MODULE AlertPathProofs --------------------------
(* Theorems about the alert path, for any alerts, areas, users and sessions
   and any number of resends and failures.                                  *)
EXTENDS AlertPath, SequenceTheorems, FiniteSetTheorems, TLAPS

-----------------------------------------------------------------------------
(* Type correctness.                                                        *)

LEMMA InitType == Init => TypeOK
BY AlertAssumption DEF Init, TypeOK, Stages, NoOffset

(* What a restart does to the offsets and to the consumer.                  *)
LEMMA RestartType ==
  ASSUME TypeOK, NEW offsets, offsets \in [Kinds -> Int],
         \A k \in Kinds : offsets[k] \in {NoOffset} \cup 0 .. Len(topic[k]),
         Restart(offsets), table' \subseteq Alerts, faults' \in Nat
  PROVE  TypeOK'
<1> USE DEF TypeOK, Restart, NoOffset
<1>1. \A k \in Kinds : Len(topic[k]) \in Nat
  BY LenProperties
<1>2. \A k \in Kinds : ResumeAt(offsets[k], Len(topic[k])) \in 0 .. Len(topic[k])
  BY <1>1 DEF ResumeAt
<1>3. /\ position' \in [Kinds -> Nat]
      /\ \A k \in Kinds : position'[k] \in 0 .. Len(topic[k])
  BY <1>2
<1> QED
  BY <1>3 DEF fanout, Stages

LEMMA PushedType ==
  ASSUME TypeOK, NEW handlers
  PROVE  Pushed(handlers) \in [Sessions -> Seq(Alerts)]
<1>1. \A s \in Sessions : Append(queue[s], cur) \in Seq(Alerts)
  BY AppendProperties DEF TypeOK
<1> QED
  BY <1>1 DEF TypeOK, Pushed

LEMMA ForwardType ==
  ASSUME TypeOK, NEW s \in Sessions, Forward(s)
  PROVE  TypeOK'
<1> USE DEF Forward, TypeOK, kafka, store
<1>1. Head(queue[s]) \in Alerts /\ Tail(queue[s]) \in Seq(Alerts)
  BY HeadTailProperties
<1>2. Append(seen[s], Head(queue[s])) \in Seq(Alerts)
  BY <1>1, AppendProperties
<1>3. seen' \in [Sessions -> Seq(Alerts)] /\ queue' \in [Sessions -> Seq(Alerts)]
  <2>1. CASE socket[s] = "open"
    BY <1>1, <1>2, <2>1
  <2>2. CASE socket[s] # "open"
    <3>1. <<>> \in Seq(Alerts)
      BY EmptySeq
    <3>2. seen' = seen /\ queue' = [queue EXCEPT ![s] = <<>>]
      BY <2>2
    <3> QED
      BY <3>1, <3>2
  <2> QED
    BY <2>1, <2>2
<1>4. socket' \in [Sessions -> {"closed", "open", "left"}]
  OBVIOUS
<1> QED
  BY <1>3, <1>4

LEMMA NextType == TypeOK /\ [Next]_vars => TypeOK'
<1> SUFFICES ASSUME TypeOK, [Next]_vars PROVE TypeOK'
  OBVIOUS
<1> USE DEF kafka, store, fanout, Fault
<1>1. ASSUME NEW a \in Alerts, Send(a) PROVE TypeOK'
  <2> DEFINE k == KindOf[a]
  <2>1. k \in Kinds
    BY AlertAssumption
  <2>2. /\ Append(topic[k], a) \in Seq(Alerts)
        /\ Len(Append(topic[k], a)) = Len(topic[k]) + 1
    BY <2>1, AppendProperties DEF TypeOK
  <2>3. \A j \in Kinds : Len(topic[j]) \in Nat /\ Len(topic'[j]) \in Nat
                         /\ Len(topic[j]) <= Len(topic'[j])
    BY <1>1, <2>1, <2>2, LenProperties DEF Send, TypeOK
  <2>4. topic' \in [Kinds -> Seq(Alerts)]
    BY <1>1, <2>2 DEF Send, TypeOK
  <2>5. \A j \in Kinds : /\ position'[j] \in 0 .. Len(topic'[j])
                         /\ committed'[j] \in {NoOffset} \cup 0 .. Len(topic'[j])
    BY <1>1, <2>3 DEF Send, TypeOK
  <2> QED
    BY <1>1, <2>4, <2>5 DEF Send, TypeOK
<1>2. ASSUME NEW k \in Kinds, Fetch(k) PROVE TypeOK'
  <2> USE <1>2 DEF Fetch, TypeOK
  <2>1. Len(topic[k]) \in Nat /\ position[k] + 1 \in 1 .. Len(topic[k])
    BY LenProperties
  <2>2. topic[k][position[k] + 1] \in Alerts
    BY <2>1, ElementOfSeq
  <2>3. pc' \in Stages /\ cur' \in Alerts
    BY <2>2 DEF AfterFetch, Stages
  <2>4. /\ position' \in [Kinds -> Nat]
        /\ \A j \in Kinds : position'[j] \in 0 .. Len(topic[j])
    BY <2>1
  <2> QED
    BY <2>3, <2>4
<1>3. CASE Insert
  BY <1>3 DEF Insert, TypeOK, Stages
<1>4. CASE PublishArea
  BY <1>4, PushedType DEF PublishArea, AfterArea, TypeOK, Stages
<1>5. CASE PublishHigh
  BY <1>5, PushedType DEF PublishHigh, TypeOK, Stages
<1>6. CASE PublishError
  BY <1>6 DEF PublishError, AfterArea, TypeOK, Stages
<1>7. CASE Crash
  <2>1. table' \subseteq Alerts /\ faults' \in Nat
    BY <1>7 DEF Crash, TypeOK
  <2>2. /\ committed \in [Kinds -> Int]
        /\ \A k \in Kinds : committed[k] \in {NoOffset} \cup 0 .. Len(topic[k])
    BY DEF TypeOK
  <2> QED
    BY <1>7, <2>1, <2>2, RestartType DEF Crash
<1>8. CASE InsertError
  <2>1. table' \subseteq Alerts /\ faults' \in Nat
    BY <1>8 DEF InsertError, TypeOK
  <2>2. /\ position \in [Kinds -> Int]
        /\ \A k \in Kinds : position[k] \in {NoOffset} \cup 0 .. Len(topic[k])
    BY DEF TypeOK
  <2> QED
    BY <1>8, <2>1, <2>2, RestartType DEF InsertError
<1>9. ASSUME NEW k \in Kinds, AutoCommit(k) PROVE TypeOK'
  BY <1>9 DEF AutoCommit, TypeOK
<1>10. ASSUME NEW s \in Sessions, Connect(s) \/ Leave(s) \/ Drop(s) PROVE TypeOK'
  <2>1. CASE Connect(s)
    BY <2>1 DEF Connect, TypeOK
  <2>2. CASE Leave(s)
    BY <2>2 DEF Leave, TypeOK
  <2>3. CASE Drop(s)
    BY <2>3 DEF Drop, TypeOK
  <2> QED
    BY <1>10, <2>1, <2>2, <2>3
<1>11. ASSUME NEW s \in Sessions, Forward(s) PROVE TypeOK'
  BY <1>11, ForwardType
<1>12. CASE Manage
  <2>1. PICK u \in Users :
          \E a \in Alerts : Acknowledge(u, a) \/ AcknowledgeTimeout(u, a)
    BY <1>12 DEF Manage
  <2> PICK a \in Alerts : Acknowledge(u, a) \/ AcknowledgeTimeout(u, a)
    BY <2>1
  <2>2. CASE Acknowledge(u, a)
    BY <2>2 DEF Acknowledge, TypeOK
  <2>3. CASE AcknowledgeTimeout(u, a)
    BY <2>3 DEF AcknowledgeTimeout, TypeOK
  <2> QED
    BY <2>2, <2>3
<1>13. CASE UNCHANGED vars
  BY <1>13 DEF vars, TypeOK
<1> QED
  BY <1>1, <1>2, <1>3, <1>4, <1>5, <1>6, <1>7, <1>8, <1>9, <1>10, <1>11, <1>12, <1>13
  DEF Next, Consume

(* Offsets stay within the topics and every record names an alert, whatever
   is resent and whenever the consumer restarts.                            *)
THEOREM TypeCorrect == Spec => []TypeOK
<1> QED
  BY InitType, NextType, PTL DEF Spec

-----------------------------------------------------------------------------
(* How often an alert occurs in a sequence of messages.                     *)

LEMMA OccurrencesType ==
  ASSUME NEW q \in Seq(Alerts), NEW a
  PROVE  /\ IsFiniteSet({i \in 1 .. Len(q) : q[i] = a})
         /\ Occurrences(a, q) \in Nat
<1>1. Len(q) \in Nat /\ IsFiniteSet(1 .. Len(q))
  BY LenProperties, FS_Interval
<1>2. IsFiniteSet({i \in 1 .. Len(q) : q[i] = a})
  BY <1>1, FS_Subset
<1> QED
  BY <1>2, FS_CardinalityType DEF Occurrences

LEMMA OccurrencesAppend ==
  ASSUME NEW q \in Seq(Alerts), NEW b \in Alerts, NEW a
  PROVE  Occurrences(a, Append(q, b)) = Occurrences(a, q) + (IF a = b THEN 1 ELSE 0)
<1> DEFINE n == Len(q)
           r == Append(q, b)
           Q == {i \in 1 .. n : q[i] = a}
           R == {i \in 1 .. n + 1 : r[i] = a}
<1>1. /\ n \in Nat /\ Len(r) = n + 1 /\ r[n + 1] = b
      /\ \A i \in 1 .. n : r[i] = q[i]
  BY LenProperties, AppendProperties
<1>2. n + 1 \notin Q
  BY <1>1
<1>6. IsFiniteSet(Q) /\ Cardinality(Q) \in Nat
  BY OccurrencesType, FS_CardinalityType
<1>3. Occurrences(a, q) = Cardinality(Q) /\ Occurrences(a, r) = Cardinality(R)
  BY <1>1 DEF Occurrences
<1> HIDE DEF n, r
<1>4. CASE a = b
  <2>1. R = Q \cup {n + 1}
    BY <1>1, <1>4
  <2>2. Cardinality(Q \cup {n + 1}) = Cardinality(Q) + 1
    BY <1>2, <1>6, FS_AddElement
  <2> HIDE DEF Q, R
  <2> QED
    BY <1>3, <1>4, <2>1, <2>2 DEF r
<1>5. CASE a # b
  <2>1. R = Q
    BY <1>1, <1>5
  <2> HIDE DEF Q, R
  <2> QED
    BY <1>6, <1>3, <1>5, <2>1 DEF r
<1> QED
  BY <1>4, <1>5

LEMMA OccurrencesPrefix ==
  ASSUME NEW p \in Seq(Alerts), NEW q \in Seq(Alerts), NEW a
  PROVE  Occurrences(a, p) <= Occurrences(a, p \o q)
<1> DEFINE P == {i \in 1 .. Len(p) : p[i] = a}
           R == {i \in 1 .. Len(p \o q) : (p \o q)[i] = a}
<1>1. /\ Len(p) \in Nat /\ Len(q) \in Nat
      /\ p \o q \in Seq(Alerts) /\ Len(p \o q) = Len(p) + Len(q)
      /\ \A i \in 1 .. Len(p) : (p \o q)[i] = p[i]
  BY LenProperties, ConcatProperties
<1>2. P \subseteq R
  BY <1>1
<1>3. IsFiniteSet(R)
  BY <1>1, OccurrencesType
<1>4. Cardinality(P) <= Cardinality(R)
  BY <1>2, <1>3, FS_Subset
<1> QED
  BY <1>4 DEF Occurrences

(* An alert that occurs in a part of a sequence occurs in the whole.        *)
LEMMA MemberOccurs ==
  ASSUME NEW p \in Seq(Alerts), NEW q \in Seq(Alerts), NEW a,
         a \in Members(p) \cup Members(q)
  PROVE  Occurrences(a, p \o q) > 0
<1> DEFINE r == p \o q
           R == {i \in 1 .. Len(r) : r[i] = a}
<1>1. /\ Len(p) \in Nat /\ Len(q) \in Nat
      /\ r \in Seq(Alerts) /\ Len(r) = Len(p) + Len(q)
      /\ \A i \in 1 .. Len(p) + Len(q) :
           r[i] = IF i <= Len(p) THEN p[i] ELSE q[i - Len(p)]
  BY LenProperties, ConcatProperties
<1> HIDE DEF r
<1>2. \E i \in 1 .. Len(r) : r[i] = a
  <2>1. CASE a \in Members(p)
    <3>1. PICK i \in 1 .. Len(p) : p[i] = a
      BY <2>1 DEF Members
    <3> QED
      BY <1>1, <3>1
  <2>2. CASE a \in Members(q)
    <3>1. PICK i \in 1 .. Len(q) : q[i] = a
      BY <2>2 DEF Members
    <3>2. /\ Len(p) + i \in 1 .. Len(p) + Len(q) /\ ~(Len(p) + i <= Len(p))
          /\ (Len(p) + i) - Len(p) = i
      BY <1>1
    <3>3. r[Len(p) + i] = a
      BY <1>1, <3>1, <3>2
    <3> QED
      BY <1>1, <3>2, <3>3
  <2> QED
    BY <2>1, <2>2
<1>3. R # {} /\ IsFiniteSet(R) /\ Cardinality(R) \in Nat
  BY <1>1, <1>2, OccurrencesType, FS_CardinalityType
<1>4. Cardinality(R) # 0
  BY <1>3, FS_EmptySet
<1>5. Occurrences(a, r) = Cardinality(R)
  BY DEF Occurrences
<1> HIDE DEF R
<1> QED
  BY <1>3, <1>4, <1>5 DEF r

LEMMA AppendConcat ==
  ASSUME NEW p \in Seq(Alerts), NEW q \in Seq(Alerts), NEW b \in Alerts
  PROVE  p \o Append(q, b) = Append(p \o q, b)
<1>1. <<b>> \in Seq(Alerts) /\ p \o q \in Seq(Alerts)
  BY ConcatProperties
<1>2. p \o (q \o <<b>>) = (p \o q) \o <<b>>
  BY <1>1, ConcatAssociative
<1> QED
  BY <1>1, <1>2, AppendIsConcat

LEMMA HeadToTheFront ==
  ASSUME NEW p \in Seq(Alerts), NEW q \in Seq(Alerts), q # <<>>
  PROVE  Append(p, Head(q)) \o Tail(q) = p \o q
<1> DEFINE h == Head(q)
           t == Tail(q)
<1>1. /\ h \in Alerts /\ t \in Seq(Alerts) /\ Len(t) = Len(q) - 1
      /\ \A i \in 1 .. Len(t) : t[i] = q[i + 1]
      /\ Len(p) \in Nat /\ Len(q) \in Nat \ {0} /\ h = q[1]
  BY HeadTailProperties, LenProperties, EmptySeq
<1>2. /\ Append(p, h) \in Seq(Alerts) /\ Len(Append(p, h)) = Len(p) + 1
      /\ \A i \in 1 .. Len(p) : Append(p, h)[i] = p[i]
      /\ Append(p, h)[Len(p) + 1] = h
  BY <1>1, AppendProperties
<1> HIDE DEF h, t
<1>7. Len(p) + 1 + Len(t) = Len(p) + Len(q)
  BY <1>1
<1>3. /\ Append(p, h) \o t \in Seq(Alerts)
      /\ Len(Append(p, h) \o t) = Len(p) + Len(q)
      /\ \A i \in 1 .. Len(p) + Len(q) : (Append(p, h) \o t)[i] =
           IF i <= Len(p) + 1 THEN Append(p, h)[i] ELSE t[i - (Len(p) + 1)]
  <2> DEFINE r == Append(p, h)
  <2>1. r \in Seq(Alerts) /\ Len(r) = Len(p) + 1
    BY <1>2
  <2> HIDE DEF r
  <2>2. /\ r \o t \in Seq(Alerts)
        /\ Len(r \o t) = Len(r) + Len(t)
        /\ \A i \in 1 .. Len(r) + Len(t) : (r \o t)[i] =
             IF i <= Len(r) THEN r[i] ELSE t[i - Len(r)]
    BY <1>1, <2>1, ConcatProperties
  <2>3. Len(r) + Len(t) = Len(p) + Len(q)
    BY <1>7, <2>1
  <2> QED
    BY <2>1, <2>2, <2>3 DEF r
<1>4. /\ p \o q \in Seq(Alerts) /\ Len(p \o q) = Len(p) + Len(q)
      /\ \A i \in 1 .. Len(p) + Len(q) : (p \o q)[i] =
           IF i <= Len(p) THEN p[i] ELSE q[i - Len(p)]
  BY ConcatProperties
<1>5. \A i \in 1 .. Len(p) + Len(q) : (Append(p, h) \o t)[i] = (p \o q)[i]
  <2> SUFFICES ASSUME NEW i \in 1 .. Len(p) + Len(q)
               PROVE  (Append(p, h) \o t)[i] = (p \o q)[i]
    OBVIOUS
  <2>1. CASE i <= Len(p)
    BY <1>1, <1>2, <1>3, <1>4, <2>1
  <2>2. CASE i = Len(p) + 1
    <3>1. ~(i <= Len(p)) /\ i - Len(p) = 1
      BY <1>1, <2>2
    <3> QED
      BY <1>1, <1>2, <1>3, <1>4, <2>2, <3>1
  <2>3. CASE i > Len(p) + 1
    <3>1. /\ i - (Len(p) + 1) \in 1 .. Len(t)
          /\ ~(i <= Len(p)) /\ ~(i <= Len(p) + 1)
          /\ (i - (Len(p) + 1)) + 1 = i - Len(p)
      BY <1>1, <2>3
    <3> QED
      BY <1>1, <1>3, <1>4, <3>1
  <2> QED
    BY <1>1, <2>1, <2>2, <2>3
<1>6. Append(p, h) \o t = p \o q
  BY <1>3, <1>4, <1>5, SeqEqual
<1> QED
  BY <1>6 DEF h, t

-----------------------------------------------------------------------------
(* The inductive invariant behind what sessions are shown: an alert has been
   pushed to a session at most once on each channel that carries it there and
   on which its publication is no longer due.  Due shrinks only as the
   consumer moves on, and nothing makes it grow again.                      *)
Due(a) == {c \in {"area", "high"} :
             \/ a \notin table
             \/ a = cur /\ pc = "area"
             \/ a = cur /\ pc = "high" /\ c = "high"}
Delivered(s, a) == Occurrences(a, seen[s] \o queue[s])

InHand ==
  /\ pc \in {"area", "high"} => cur \in table
  /\ pc = "high" => SeverityOf[cur] = "high"
OncePerChannel ==
  \A s \in Sessions, a \in Alerts :
    Delivered(s, a) <= Cardinality(Carrying(s, a) \ Due(a))
Carried == InHand /\ OncePerChannel

LEMMA InitCarried == Init => Carried
<1> SUFFICES ASSUME Init PROVE Carried
  OBVIOUS
<1>1. InHand
  BY DEF Init, InHand
<1>2. ASSUME NEW s \in Sessions, NEW a \in Alerts
      PROVE  Delivered(s, a) <= Cardinality(Carrying(s, a) \ Due(a))
  <2>1. seen[s] = <<>> /\ queue[s] = <<>>
    BY DEF Init
  <2>2. <<>> \in Seq(Alerts) /\ <<>> \o <<>> = <<>> /\ Len(<<>>) = 0
    BY EmptySeq, ConcatEmptySeq
  <2>3. {i \in 1 .. Len(<<>>) : <<>>[i] = a} = {}
    BY <2>2
  <2>4. Delivered(s, a) = 0
    BY <2>1, <2>2, <2>3, FS_EmptySet DEF Delivered, Occurrences
  <2>5. Carrying(s, a) \ Due(a) = {}
    BY DEF Init, Due, Carrying
  <2> QED
    BY <2>4, <2>5, FS_EmptySet
<1> QED
  BY <1>1, <1>2 DEF Carried, OncePerChannel

LEMMA MessagesType ==
  ASSUME TypeOK, NEW s \in Sessions
  PROVE  /\ seen[s] \in Seq(Alerts) /\ queue[s] \in Seq(Alerts)
         /\ seen[s] \o queue[s] \in Seq(Alerts)
BY ConcatProperties DEF TypeOK

LEMMA DeliveredType ==
  ASSUME TypeOK, NEW s \in Sessions, NEW a
  PROVE  Delivered(s, a) \in Nat
BY MessagesType, OccurrencesType DEF Delivered

LEMMA ChannelsFinite ==
  ASSUME NEW s, NEW a, NEW D, NEW E, D \subseteq E
  PROVE  /\ IsFiniteSet(Carrying(s, a) \ D)
         /\ Cardinality(Carrying(s, a) \ D) \in Nat
         /\ Cardinality(Carrying(s, a) \ E) \in Nat
         /\ Cardinality(Carrying(s, a) \ E) <= Cardinality(Carrying(s, a) \ D)
<1>1. IsFiniteSet({"area", "high"})
  <2>1. IsFiniteSet({"area"} \cup {"high"})
    BY FS_Singleton, FS_AddElement
  <2> QED
    BY <2>1, {"area", "high"} = {"area"} \cup {"high"}
<1>2. IsFiniteSet(Carrying(s, a) \ D)
  BY <1>1, FS_Subset DEF Carrying
<1>3. /\ IsFiniteSet(Carrying(s, a) \ E)
      /\ Cardinality(Carrying(s, a) \ E) <= Cardinality(Carrying(s, a) \ D)
  BY <1>2, FS_Subset
<1> QED
  BY <1>2, <1>3, FS_CardinalityType

(* A step that pushes nothing and makes nothing due keeps the invariant.     *)
LEMMA NothingPushed ==
  ASSUME TypeOK, TypeOK', OncePerChannel,
         \A s \in Sessions, a \in Alerts : Delivered(s, a)' <= Delivered(s, a),
         \A a \in Alerts : Due(a)' \subseteq Due(a)
  PROVE  OncePerChannel'
<1> SUFFICES ASSUME NEW s \in Sessions, NEW a \in Alerts
             PROVE  Delivered(s, a)' <= Cardinality(Carrying(s, a) \ Due(a)')
  BY DEF OncePerChannel, Carrying, OnArea, OnHigh
<1>1. Delivered(s, a) \in Nat /\ Delivered(s, a)' \in Nat
  <2>1. Delivered(s, a) \in Nat
    BY DeliveredType
  <2>2. /\ seen'[s] \in Seq(Alerts) /\ queue'[s] \in Seq(Alerts)
        /\ seen'[s] \o queue'[s] \in Seq(Alerts)
    BY ConcatProperties DEF TypeOK
  <2> QED
    BY <2>1, <2>2, OccurrencesType DEF Delivered
<1>2. /\ Cardinality(Carrying(s, a) \ Due(a)) \in Nat
      /\ Cardinality(Carrying(s, a) \ Due(a)') \in Nat
      /\ Cardinality(Carrying(s, a) \ Due(a)) <= Cardinality(Carrying(s, a) \ Due(a)')
  <2>1. Due(a)' \subseteq Due(a)
    OBVIOUS
  <2> QED
    BY <2>1, ChannelsFinite
<1>3. Delivered(s, a) <= Cardinality(Carrying(s, a) \ Due(a))
  BY DEF OncePerChannel
<1> QED
  BY <1>1, <1>2, <1>3

LEMMA SameFanout ==
  ASSUME UNCHANGED fanout
  PROVE  \A s \in Sessions, a \in Alerts : Delivered(s, a)' = Delivered(s, a)
BY DEF fanout, Delivered, Occurrences

(* What a publication adds to the queues.                                   *)
LEMMA PushedDelivers ==
  ASSUME TypeOK, NEW handlers, queue' = Pushed(handlers), UNCHANGED seen,
         NEW s \in Sessions, NEW a \in Alerts
  PROVE  /\ \/ Delivered(s, a)' = Delivered(s, a)
            \/ a = cur /\ s \in handlers /\ Delivered(s, a)' = Delivered(s, a) + 1
         /\ Delivered(s, a) \in Nat
<1>1. cur \in Alerts
  BY DEF TypeOK
<1>2. CASE s \in handlers /\ socket[s] # "closed"
  <2>1. queue'[s] = Append(queue[s], cur)
    BY <1>2 DEF Pushed
  <2>6. seen[s] \o Append(queue[s], cur) = Append(seen[s] \o queue[s], cur)
    BY <1>1, MessagesType, AppendConcat
  <2>2. seen'[s] \o queue'[s] = Append(seen[s] \o queue[s], cur)
    BY <2>1, <2>6
  <2>3. Occurrences(a, Append(seen[s] \o queue[s], cur))
          = Occurrences(a, seen[s] \o queue[s]) + (IF a = cur THEN 1 ELSE 0)
    BY <1>1, MessagesType, OccurrencesAppend
  <2>4. Delivered(s, a)' = Delivered(s, a) + (IF a = cur THEN 1 ELSE 0)
    BY <2>2, <2>3 DEF Delivered, Occurrences
  <2>5. Delivered(s, a) \in Nat
    BY DeliveredType
  <2> QED
    BY <1>2, <2>4, <2>5
<1>3. CASE ~(s \in handlers /\ socket[s] # "closed")
  <2>1. queue'[s] = queue[s]
    BY <1>3 DEF Pushed
  <2>2. Delivered(s, a)' = Delivered(s, a)
    BY <2>1 DEF Delivered, Occurrences
  <2> QED
    BY <2>2, DeliveredType
<1> QED
  BY <1>2, <1>3

LEMMA PublishCarried ==
  ASSUME TypeOK, Carried, PublishArea \/ PublishHigh
  PROVE  OncePerChannel'
<1> SUFFICES ASSUME NEW s \in Sessions, NEW a \in Alerts
             PROVE  Delivered(s, a)' <= Cardinality(Carrying(s, a) \ Due(a)')
  BY DEF OncePerChannel, Carrying, OnArea, OnHigh
<1> DEFINE C == Carrying(s, a)
           c == pc
           handlers == IF pc = "area" THEN OnArea(cur) ELSE OnHigh
<1>1. /\ pc \in {"area", "high"} /\ queue' = Pushed(handlers) /\ UNCHANGED <<seen, table, cur>>
      /\ pc' = IF pc = "area" THEN AfterArea(cur) ELSE "idle"
  BY DEF PublishArea, PublishHigh, store
<1>2. /\ \/ Delivered(s, a)' = Delivered(s, a)
         \/ a = cur /\ s \in handlers /\ Delivered(s, a)' = Delivered(s, a) + 1
      /\ Delivered(s, a) \in Nat
  <2> HIDE DEF handlers
  <2>1. queue' = Pushed(handlers) /\ UNCHANGED seen
    BY <1>1
  <2> QED
    BY <2>1, PushedDelivers
<1>3. Delivered(s, a) <= Cardinality(C \ Due(a))
  BY DEF Carried, OncePerChannel
<1>4. Due(a)' \subseteq Due(a)
  BY <1>1 DEF Due, AfterArea
<1>5. /\ Cardinality(C \ Due(a)) \in Nat /\ Cardinality(C \ Due(a)') \in Nat
      /\ Cardinality(C \ Due(a)) <= Cardinality(C \ Due(a)')
  BY <1>4, ChannelsFinite
<1>6. CASE Delivered(s, a)' = Delivered(s, a)
  BY <1>2, <1>3, <1>5, <1>6
<1>7. CASE a = cur /\ s \in handlers /\ Delivered(s, a)' = Delivered(s, a) + 1
  <2>1. cur \in table /\ (pc = "high" => SeverityOf[cur] = "high")
    BY <1>1 DEF Carried, InHand
  <2>2. c \in C /\ c \in Due(a) /\ c \notin Due(a)'
    BY <1>1, <1>7, <2>1 DEF Due, AfterArea, Carrying
  <2>3. /\ IsFiniteSet(C \ Due(a)) /\ IsFiniteSet(C \ Due(a)')
        /\ c \in C \ Due(a)' /\ c \notin C \ Due(a)
        /\ (C \ Due(a)) \cup {c} \subseteq C \ Due(a)'
    BY <1>4, <2>2, ChannelsFinite
  <2> HIDE DEF C, c
  <2>4. Cardinality((C \ Due(a)) \cup {c}) = Cardinality(C \ Due(a)) + 1
    BY <2>3, FS_AddElement
  <2>5. Cardinality((C \ Due(a)) \cup {c}) <= Cardinality(C \ Due(a)')
    BY <2>3, FS_Subset
  <2> QED
    BY <1>2, <1>3, <1>5, <1>7, <2>4, <2>5 DEF C
<1> QED
  BY <1>2, <1>6, <1>7

LEMMA ForwardDelivers ==
  ASSUME TypeOK, NEW s \in Sessions, Forward(s) \/ Drop(s), NEW t \in Sessions, NEW a
  PROVE  Delivered(t, a)' <= Delivered(t, a)
<1>1. Delivered(t, a) \in Nat /\ seen[t] \in Seq(Alerts) /\ queue[t] \in Seq(Alerts)
  BY DeliveredType, MessagesType
<1>2. CASE seen'[t] = seen[t] /\ queue'[t] = queue[t]
  <2>1. Delivered(t, a)' = Delivered(t, a)
    BY <1>2 DEF Delivered, Occurrences
  <2> QED
    BY <1>1, <2>1
<1>3. CASE seen'[t] = seen[t] /\ queue'[t] = <<>>
  <2>1. seen'[t] \o queue'[t] = seen[t]
    BY <1>1, <1>3, ConcatEmptySeq
  <2>2. Occurrences(a, seen[t]) <= Occurrences(a, seen[t] \o queue[t])
    BY <1>1, OccurrencesPrefix
  <2> QED
    BY <2>1, <2>2 DEF Delivered, Occurrences
<1>4. CASE /\ queue[t] # <<>> /\ seen'[t] = Append(seen[t], Head(queue[t]))
           /\ queue'[t] = Tail(queue[t])
  <2>1. seen'[t] \o queue'[t] = seen[t] \o queue[t]
    BY <1>1, <1>4, HeadToTheFront
  <2>2. Delivered(t, a)' = Delivered(t, a)
    BY <2>1 DEF Delivered, Occurrences
  <2> QED
    BY <1>1, <2>2
<1>5. \/ seen'[t] = seen[t] /\ queue'[t] = queue[t]
      \/ seen'[t] = seen[t] /\ queue'[t] = <<>>
      \/ /\ queue[t] # <<>> /\ seen'[t] = Append(seen[t], Head(queue[t]))
         /\ queue'[t] = Tail(queue[t])
  <2>1. CASE Drop(s)
    BY <2>1 DEF Drop, TypeOK
  <2>2. CASE Forward(s) /\ socket[s] = "open"
    BY <2>2 DEF Forward, TypeOK
  <2>3. CASE Forward(s) /\ socket[s] # "open"
    BY <2>3 DEF Forward, TypeOK
  <2> QED
    BY <2>1, <2>2, <2>3
<1> QED
  BY <1>2, <1>3, <1>4, <1>5

LEMMA NextCarried == TypeOK /\ TypeOK' /\ Carried /\ [Next]_vars => Carried'
<1> SUFFICES ASSUME TypeOK, TypeOK', Carried, [Next]_vars PROVE Carried'
  OBVIOUS
<1> USE DEF Carried
<1>1. CASE Insert \/ PublishError \/ Crash \/ InsertError \/ \E k \in Kinds : Fetch(k)
  <2>1. UNCHANGED fanout
    BY <1>1 DEF Insert, PublishError, Crash, InsertError, Restart, Fetch, fanout
  <2>4. InHand'
    <3>1. CASE Insert
      BY <3>1 DEF Insert, InHand
    <3>2. CASE PublishError
      BY <3>2 DEF PublishError, InHand, AfterArea, store
    <3>3. CASE Crash \/ InsertError
      BY <3>3 DEF Crash, InsertError, Restart, InHand
    <3>4. CASE \E k \in Kinds : Fetch(k)
      BY <3>4 DEF Fetch, AfterFetch, InHand
    <3> QED
      BY <1>1, <3>1, <3>2, <3>3, <3>4
  <2>2. \A a \in Alerts : Due(a)' \subseteq Due(a)
    BY <1>1 DEF Insert, PublishError, Crash, InsertError, Restart, Fetch, Due, InHand,
                AfterFetch, AfterArea, Duplicate, store
  <2>3. \A s \in Sessions, a \in Alerts : Delivered(s, a)' <= Delivered(s, a)
    BY <2>1, SameFanout, DeliveredType
  <2> QED
    BY <2>2, <2>3, <2>4, NothingPushed
<1>2. CASE PublishArea \/ PublishHigh
  <2>1. InHand'
    BY <1>2 DEF PublishArea, PublishHigh, InHand, AfterArea, store
  <2> QED
    BY <1>2, <2>1, PublishCarried
<1>3. CASE \/ \E a \in Alerts : Send(a)
           \/ \E k \in Kinds : AutoCommit(k)
           \/ Manage
           \/ \E s \in Sessions : Connect(s) \/ Leave(s)
           \/ UNCHANGED vars
  <2>1. UNCHANGED <<seen, queue, pc, cur, table>>
    BY <1>3 DEF Send, AutoCommit, Manage, Acknowledge, AcknowledgeTimeout, Connect,
                Leave, vars, store, fanout
  <2>2. InHand' /\ \A a \in Alerts : Due(a)' = Due(a)
    BY <2>1 DEF InHand, Due
  <2>3. \A s \in Sessions, a \in Alerts : Delivered(s, a)' = Delivered(s, a)
    BY <2>1 DEF Delivered, Occurrences
  <2>4. \A s \in Sessions, a \in Alerts : Delivered(s, a)' <= Delivered(s, a)
    BY <2>3, DeliveredType
  <2> QED
    BY <2>2, <2>4, NothingPushed
<1>4. ASSUME NEW s \in Sessions, Forward(s) \/ Drop(s) PROVE Carried'
  <2>1. UNCHANGED <<pc, cur, table>>
    BY <1>4 DEF Forward, Drop, store
  <2>2. InHand' /\ \A a \in Alerts : Due(a)' = Due(a)
    BY <2>1 DEF InHand, Due
  <2>3. \A t \in Sessions, a \in Alerts : Delivered(t, a)' <= Delivered(t, a)
    BY <1>4, ForwardDelivers
  <2> QED
    BY <2>2, <2>3, NothingPushed
<1> QED
  BY <1>1, <1>2, <1>3, <1>4 DEF Next, Consume

LEMMA CarriedCorrect == Spec => []Carried
<1> QED
  BY InitCarried, NextCarried, TypeCorrect, PTL DEF Spec

(* A session is pushed an alert at most once on each channel that carries it
   there: for any number of resends, redeliveries and half-failed inserts.   *)
THEOREM PushedOnceAlways == Spec => []PushedOnce
<1>1. TypeOK /\ Carried => PushedOnce
  <2> SUFFICES ASSUME TypeOK, Carried, NEW s \in Sessions, NEW a \in Alerts
               PROVE  Delivered(s, a) <= Cardinality(Carrying(s, a))
    BY DEF PushedOnce, Delivered
  <2>1. /\ Cardinality(Carrying(s, a) \ {}) \in Nat
        /\ Cardinality(Carrying(s, a) \ Due(a)) \in Nat
        /\ Cardinality(Carrying(s, a) \ Due(a)) <= Cardinality(Carrying(s, a) \ {})
    BY ChannelsFinite, {} \subseteq Due(a)
  <2>2. Carrying(s, a) \ {} = Carrying(s, a)
    OBVIOUS
  <2>3. Delivered(s, a) <= Cardinality(Carrying(s, a) \ Due(a)) /\ Delivered(s, a) \in Nat
    BY DeliveredType DEF Carried, OncePerChannel
  <2> QED
    BY <2>1, <2>2, <2>3
<1> QED
  BY <1>1, TypeCorrect, CarriedCorrect, PTL

(* What a session was shown, or is about to be, has its row in opdb.alert:
   the push never overtakes the insert.                                      *)
THEOREM SeenIsAlwaysRecorded == Spec => []SeenIsRecorded
<1>1. TypeOK /\ Carried => SeenIsRecorded
  <2> SUFFICES ASSUME TypeOK, Carried, NEW s \in Sessions,
                      NEW a \in Members(seen[s]) \cup Members(queue[s]), a \notin table
               PROVE  FALSE
    BY DEF SeenIsRecorded
  <2>1. a \in Alerts
    BY MessagesType, ElementOfSeq DEF Members
  <2>2. Delivered(s, a) > 0 /\ Delivered(s, a) \in Nat
    BY MessagesType, MemberOccurs, DeliveredType DEF Delivered
  <2>3. Carrying(s, a) \ Due(a) = {}
    BY DEF Carrying, Due
  <2>4. Delivered(s, a) <= Cardinality(Carrying(s, a) \ Due(a))
    BY <2>1 DEF Carried, OncePerChannel
  <2>5. Delivered(s, a) <= 0
    BY <2>3, <2>4, FS_EmptySet
  <2> QED
    BY <2>2, <2>5
<1> QED
  BY <1>1, TypeCorrect, CarriedCorrect, PTL

-----------------------------------------------------------------------------
(* Of any number of managers who acknowledge an alert at once, however many
   of their calls time out, one is told it succeeded and stays on record.    *)
THEOREM OneAcknowledgerAlways == Spec => []OneAcknowledger
<1>1. Init => OneAcknowledger
  BY DEF Init, OneAcknowledger
<1>2. TypeOK /\ OneAcknowledger /\ [Next]_vars => OneAcknowledger'
  <2> SUFFICES ASSUME TypeOK, OneAcknowledger, [Next]_vars PROVE OneAcknowledger'
    OBVIOUS
  <2>1. CASE Manage
    <3>1. PICK u \in Users : \E a \in Alerts : Acknowledge(u, a) \/ AcknowledgeTimeout(u, a)
      BY <2>1 DEF Manage
    <3> PICK a \in Alerts : Acknowledge(u, a) \/ AcknowledgeTimeout(u, a)
      BY <3>1
    <3>2. /\ a \in Alerts /\ acked[a] = Nobody
          /\ acked' = [acked EXCEPT ![a] = u]
          /\ thanked' \in {thanked, thanked \cup {<<u, a>>}}
      BY DEF Acknowledge, AcknowledgeTimeout, Updatable, TypeOK
    <3>3. \A v \in Users : <<v, a>> \notin thanked
      BY <3>2, AlertAssumption DEF OneAcknowledger
    <3> QED
      BY <3>2, <3>3 DEF OneAcknowledger, TypeOK
  <2>2. CASE UNCHANGED <<thanked, acked>>
    BY <2>2 DEF OneAcknowledger
  <2>3. Manage \/ UNCHANGED <<thanked, acked>>
    BY DEF Next, vars, store, Send, Consume, Fetch, Insert, PublishArea, PublishHigh,
           PublishError, Crash, InsertError, Restart, AutoCommit, Connect, Forward,
           Leave, Drop
  <2> QED
    BY <2>1, <2>2, <2>3
<1> QED
  BY <1>1, <1>2, TypeCorrect, PTL DEF Spec

-----------------------------------------------------------------------------
(* The alert path implements its ledger.                                    *)

LEMMA LedgerInit == Init => Promise!Init
<1> SUFFICES ASSUME Init PROVE Promise!Init
  OBVIOUS
<1>1. ASSUME NEW a \in Alerts PROVE Occurrences(a, <<>>) = 0
  <2>1. {i \in 1 .. Len(<<>>) : <<>>[i] = a} = {}
    BY EmptySeq
  <2> QED
    BY <2>1, FS_EmptySet DEF Occurrences
<1>2. Shown = [s \in Sessions |-> [a \in Alerts |-> 0]]
  BY <1>1 DEF Init, Shown
<1> QED
  BY <1>2 DEF Init, Promise!Init

(* An insert, failed or not, records the alert in hand or changes nothing.   *)
LEMMA InsertRecords ==
  ASSUME TypeOK, Insert \/ InsertError
  PROVE  Promise!Record(cur) \/ UNCHANGED Promise!vars
<1>1. cur \in Alerts /\ table' \in {table, table \cup {cur}} /\ UNCHANGED <<seen, acked>>
  BY DEF Insert, InsertError, Restart, TypeOK, fanout
<1>2. UNCHANGED Shown
  BY <1>1 DEF Shown, Occurrences
<1> QED
  BY <1>1, <1>2 DEF Promise!Record, Promise!vars

(* A message forwarded to an open session shows its alert once more.         *)
LEMMA ForwardShows ==
  ASSUME TypeOK, PushedOnce, SeenIsRecorded, NEW s \in Sessions,
         Forward(s), socket[s] = "open"
  PROVE  Promise!Show(s, Head(queue[s])) /\ Head(queue[s]) \in Alerts
<1> DEFINE a == Head(queue[s])
<1>1. /\ queue[s] # <<>> /\ seen' = [seen EXCEPT ![s] = Append(@, a)]
      /\ UNCHANGED <<table, acked>>
  BY DEF Forward, store
<1>2. /\ seen[s] \in Seq(Alerts) /\ queue[s] \in Seq(Alerts)
      /\ a \in Alerts /\ Tail(queue[s]) \in Seq(Alerts)
  BY <1>1, MessagesType, HeadTailProperties
<1>3. a \in table
  <2>1. Len(queue[s]) \in Nat \ {0} /\ a = queue[s][1]
    BY <1>1, <1>2, EmptySeq
  <2>2. a \in Members(queue[s])
    BY <2>1 DEF Members
  <2> QED
    BY <2>2 DEF SeenIsRecorded
<1> HIDE DEF a
<1>4. /\ \A b \in Alerts : Occurrences(b, Append(seen[s], a))
            = Occurrences(b, seen[s]) + (IF b = a THEN 1 ELSE 0)
      /\ \A b \in Alerts : Occurrences(b, seen[s]) \in Nat
  <2>1. seen[s] \in Seq(Alerts) /\ a \in Alerts
    BY <1>2
  <2>2. ASSUME NEW b \in Alerts
        PROVE  Occurrences(b, Append(seen[s], a)) = Occurrences(b, seen[s]) + (IF b = a THEN 1 ELSE 0)
    BY <2>1, OccurrencesAppend
  <2>3. ASSUME NEW b \in Alerts PROVE Occurrences(b, seen[s]) \in Nat
    BY <2>1, OccurrencesType
  <2> QED
    BY <2>2, <2>3
<1>5. Occurrences(a, seen[s]) < Carriers(s, a)
  <2>1. Append(seen[s], a) \in Seq(Alerts)
    BY <1>2, AppendProperties
  <2>2. Append(seen[s], a) \o Tail(queue[s]) = seen[s] \o queue[s]
    BY <1>1, <1>2, HeadToTheFront DEF a
  <2>3. Occurrences(a, Append(seen[s], a)) <= Occurrences(a, seen[s] \o queue[s])
    BY <1>2, <2>1, <2>2, OccurrencesPrefix
  <2>4. Occurrences(a, seen[s] \o queue[s]) <= Carriers(s, a)
    BY <1>2 DEF PushedOnce, Carriers
  <2>5. /\ Occurrences(a, seen[s] \o queue[s]) \in Nat /\ Carriers(s, a) \in Nat
        /\ Occurrences(a, seen[s]) \in Nat
    <3>1. Carrying(s, a) \ {} = Carrying(s, a)
      OBVIOUS
    <3>2. Cardinality(Carrying(s, a) \ {}) \in Nat
      BY ChannelsFinite, {} \subseteq {}
    <3> QED
      BY <1>2, <3>1, <3>2, MessagesType, OccurrencesType DEF Carriers
  <2>6. Occurrences(a, Append(seen[s], a)) = Occurrences(a, seen[s]) + 1
    BY <1>2, <1>4
  <2> QED
    BY <2>3, <2>4, <2>5, <2>6
<1>6. Shown' = [Shown EXCEPT ![s][a] = @ + 1]
  <2>1. ASSUME NEW t \in Sessions, NEW b \in Alerts
        PROVE  Occurrences(b, seen'[t]) = IF t = s /\ b = a THEN Shown[s][a] + 1
                                         ELSE Shown[t][b]
    <3>1. Shown[s][a] = Occurrences(a, seen[s]) /\ Shown[t][b] = Occurrences(b, seen[t])
      BY <1>2 DEF Shown
    <3>2. CASE t = s
      <4>1. seen'[t] = Append(seen[s], a)
        BY <1>1, <3>2 DEF TypeOK
      <4> QED
        BY <1>2, <1>4, <3>1, <3>2, <4>1
    <3>3. CASE t # s
      <4>1. seen'[t] = seen[t]
        BY <1>1, <3>3 DEF TypeOK
      <4> QED
        BY <3>1, <3>3, <4>1
    <3> QED
      BY <3>2, <3>3
  <2>2. Shown' = [t \in Sessions |-> [b \in Alerts |-> Occurrences(b, seen'[t])]]
    BY DEF Shown, Occurrences
  <2>3. Shown = [t \in Sessions |-> [b \in Alerts |-> Shown[t][b]]]
    BY DEF Shown
  <2>4. [Shown EXCEPT ![s][a] = @ + 1]
          = [t \in Sessions |-> [b \in Alerts |-> IF t = s /\ b = a THEN Shown[s][a] + 1
                                                 ELSE Shown[t][b]]]
    BY <1>2, <2>3
  <2> QED
    BY <2>1, <2>2, <2>4
<1> QED
  BY <1>1, <1>2, <1>3, <1>5, <1>6 DEF Promise!Show, Shown, a

LEMMA LedgerStep ==
  TypeOK /\ PushedOnce /\ SeenIsRecorded /\ [Next]_vars => [Promise!Next]_(Promise!vars)
<1> SUFFICES ASSUME TypeOK, PushedOnce, SeenIsRecorded, [Next]_vars
             PROVE  Promise!Next \/ UNCHANGED Promise!vars
  OBVIOUS
<1>1. CASE Insert \/ InsertError
  BY <1>1, InsertRecords DEF Promise!Next, TypeOK
<1>2. ASSUME NEW s \in Sessions, Forward(s), socket[s] = "open"
      PROVE  Promise!Next
  BY <1>2, ForwardShows DEF Promise!Next
<1>3. CASE Manage
  <2>1. PICK u \in Users : \E a \in Alerts : Acknowledge(u, a) \/ AcknowledgeTimeout(u, a)
    BY <1>3 DEF Manage
  <2> PICK a \in Alerts : Acknowledge(u, a) \/ AcknowledgeTimeout(u, a)
    BY <2>1
  <2>2. /\ a \in Alerts /\ a \in table /\ acked[a] = Nobody
        /\ acked' = [acked EXCEPT ![a] = u] /\ UNCHANGED <<table, seen>>
    BY DEF Acknowledge, AcknowledgeTimeout, Updatable, fanout, TypeOK
  <2>3. UNCHANGED Shown
    BY <2>2 DEF Shown, Occurrences
  <2> QED
    BY <2>2, <2>3 DEF Promise!Acknowledge, Promise!Next
<1>4. CASE UNCHANGED <<table, seen, acked>>
  BY <1>4 DEF Promise!vars, Shown, Occurrences
<1>5. \/ Insert \/ InsertError \/ Manage
      \/ \E s \in Sessions : Forward(s) /\ socket[s] = "open"
      \/ UNCHANGED <<table, seen, acked>>
  BY DEF Next, vars, store, fanout, Send, Consume, Fetch, PublishArea, PublishHigh,
         PublishError, Crash, Restart, AutoCommit, Connect, Forward, Leave, Drop
<1> QED
  BY <1>1, <1>2, <1>3, <1>4, <1>5

(* Every behaviour of the alert path, with whatever fails in it, is one the
   ledger allows.                                                           *)
THEOREM ImplementsItsLedger == Spec => ImplementsLedger
<1> QED
  BY LedgerInit, LedgerStep, TypeCorrect, PushedOnceAlways, SeenIsAlwaysRecorded, PTL
  DEF Spec, ImplementsLedger, Promise!Spec
=============================================================================
