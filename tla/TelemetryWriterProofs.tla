----------------------- MODULE TelemetryWriterProofs -----------------------
(* Theorems about the telemetry service, for any sensors, batch size and     *)
(* number of readings, failures and restarts.                                *)
EXTENDS TelemetryWriter, SequenceTheorems, TLAPS

-----------------------------------------------------------------------------
(* The elements of a sequence, and whether they ascend.                     *)

LEMMA ElementsOf ==
  ASSUME NEW S, NEW q \in Seq(S)
  PROVE  /\ Len(q) \in Nat /\ DOMAIN q = 1 .. Len(q)
         /\ ToSet(q) = {q[k] : k \in 1 .. Len(q)} /\ ToSet(q) \subseteq S
<1>1. Len(q) \in Nat /\ DOMAIN q = 1 .. Len(q) /\ q \in [1 .. Len(q) -> S]
  BY LenProperties
<1> QED
  BY <1>1 DEF ToSet

LEMMA NoElements ==
  /\ ToSet(<<>>) = {} /\ Ascending(<<>>) /\ Len(<<>>) = 0
  /\ \A S : <<>> \in Seq(S)
<1>1. Len(<<>>) = 0 /\ (\A S : <<>> \in Seq(S)) /\ DOMAIN <<>> = {}
  BY EmptySeq
<1> QED
  BY <1>1 DEF ToSet, Ascending

LEMMA ElementsOfAppend ==
  ASSUME NEW S, NEW q \in Seq(S), NEW x \in S
  PROVE  ToSet(Append(q, x)) = ToSet(q) \cup {x}
<1>1. /\ Append(q, x) \in Seq(S) /\ Len(Append(q, x)) = Len(q) + 1 /\ Len(q) \in Nat
      /\ Append(q, x)[Len(q) + 1] = x
      /\ \A k \in 1 .. Len(q) : Append(q, x)[k] = q[k]
  BY AppendProperties, LenProperties
<1>2. 1 .. Len(q) + 1 = 1 .. Len(q) \cup {Len(q) + 1}
  BY <1>1
<1>3. /\ ToSet(Append(q, x)) = {Append(q, x)[k] : k \in 1 .. Len(q) + 1}
      /\ ToSet(q) = {q[k] : k \in 1 .. Len(q)}
  BY <1>1, ElementsOf
<1> QED
  BY <1>1, <1>2, <1>3

LEMMA ConcatFacts ==
  ASSUME NEW S, NEW p \in Seq(S), NEW q \in Seq(S)
  PROVE  /\ p \o q \in Seq(S) /\ Len(p \o q) = Len(p) + Len(q)
         /\ Len(p) \in Nat /\ Len(q) \in Nat
         /\ \A k \in 1 .. Len(p) : (p \o q)[k] = p[k]
         /\ \A k \in 1 .. Len(q) : (p \o q)[Len(p) + k] = q[k]
<1>1. /\ p \o q \in Seq(S) /\ Len(p \o q) = Len(p) + Len(q)
      /\ \A k \in 1 .. Len(p) + Len(q) : (p \o q)[k] =
                     IF k <= Len(p) THEN p[k] ELSE q[k - Len(p)]
      /\ Len(p) \in Nat /\ Len(q) \in Nat
  BY ConcatProperties, LenProperties
<1>2. ASSUME NEW k \in 1 .. Len(p) PROVE (p \o q)[k] = p[k]
  BY <1>1
<1>3. ASSUME NEW k \in 1 .. Len(q) PROVE (p \o q)[Len(p) + k] = q[k]
  <2>1. Len(p) + k \in 1 .. Len(p) + Len(q) /\ ~(Len(p) + k <= Len(p)) /\ (Len(p) + k) - Len(p) = k
    BY <1>1
  <2> QED
    BY <1>1, <2>1
<1> QED
  BY <1>1, <1>2, <1>3

LEMMA ElementsOfConcat ==
  ASSUME NEW S, NEW p \in Seq(S), NEW q \in Seq(S)
  PROVE  ToSet(p \o q) = ToSet(p) \cup ToSet(q)
<1> DEFINE m == Len(p)
           n == Len(q)
           c == p \o q
<1>1. /\ c \in Seq(S) /\ Len(c) = m + n /\ m \in Nat /\ n \in Nat
      /\ \A k \in 1 .. m : c[k] = p[k]
      /\ \A k \in 1 .. n : c[m + k] = q[k]
  BY ConcatFacts
<1>2. /\ ToSet(c) = {c[k] : k \in 1 .. Len(c)} /\ ToSet(p) = {p[k] : k \in 1 .. m}
      /\ ToSet(q) = {q[k] : k \in 1 .. n}
  BY <1>1, ElementsOf
<1> HIDE DEF m, n, c
<1>3. /\ \A k \in 1 .. m : k \in 1 .. m + n
      /\ \A k \in 1 .. n : m + k \in 1 .. m + n
      /\ \A k \in 1 .. m + n : k \in 1 .. m \/ (k - m \in 1 .. n /\ m + (k - m) = k)
  BY <1>1
<1>4. ToSet(c) \subseteq ToSet(p) \cup ToSet(q)
  <2> SUFFICES ASSUME NEW k \in 1 .. m + n PROVE c[k] \in ToSet(p) \cup ToSet(q)
    BY <1>1, <1>2
  <2>1. CASE k \in 1 .. m
    BY <1>1, <1>2, <2>1
  <2>2. CASE k - m \in 1 .. n /\ m + (k - m) = k
    <3>1. c[k] = q[k - m]
      BY <1>1, <2>2
    <3> QED
      BY <1>2, <2>2, <3>1
  <2> QED
    BY <1>3, <2>1, <2>2
<1>5. ToSet(p) \subseteq ToSet(c)
  BY <1>1, <1>2, <1>3
<1>6. ToSet(q) \subseteq ToSet(c)
  <2> SUFFICES ASSUME NEW k \in 1 .. n PROVE q[k] \in ToSet(c)
    BY <1>2
  <2>1. c[m + k] = q[k] /\ m + k \in 1 .. m + n
    BY <1>1, <1>3
  <2> QED
    BY <1>1, <1>2, <2>1
<1> QED
  BY <1>4, <1>5, <1>6 DEF c

LEMMA AscendingOf ==
  ASSUME NEW S, NEW q \in Seq(S)
  PROVE  Ascending(q) <=> \A k, l \in 1 .. Len(q) : k < l => q[k] < q[l]
BY ElementsOf DEF Ascending

LEMMA AscendingAppend ==
  ASSUME NEW S, NEW q \in Seq(S), NEW x \in S, Ascending(q), \A i \in ToSet(q) : i < x
  PROVE  Ascending(Append(q, x))
<1>1. /\ Append(q, x) \in Seq(S) /\ Len(Append(q, x)) = Len(q) + 1 /\ Len(q) \in Nat
      /\ Append(q, x)[Len(q) + 1] = x
      /\ \A k \in 1 .. Len(q) : Append(q, x)[k] = q[k] /\ q[k] < x
  BY AppendProperties, LenProperties, ElementsOf
<1> SUFFICES ASSUME NEW k \in 1 .. Len(q) + 1, NEW l \in 1 .. Len(q) + 1, k < l
             PROVE  Append(q, x)[k] < Append(q, x)[l]
  BY <1>1, AscendingOf
<1>2. k \in 1 .. Len(q) /\ (l \in 1 .. Len(q) \/ l = Len(q) + 1)
  BY <1>1
<1>3. CASE l \in 1 .. Len(q)
  BY <1>1, <1>2, <1>3, AscendingOf
<1>4. CASE l = Len(q) + 1
  BY <1>1, <1>2, <1>4
<1> QED
  BY <1>2, <1>3, <1>4

LEMMA AscendingConcat ==
  ASSUME NEW S, NEW p \in Seq(S), NEW q \in Seq(S), Ascending(p \o q)
  PROVE  /\ Ascending(p) /\ Ascending(q)
         /\ \A i \in ToSet(p), j \in ToSet(q) : i < j
<1> DEFINE m == Len(p)
           n == Len(q)
           c == p \o q
<1>1. /\ m \in Nat /\ n \in Nat
      /\ \A k \in 1 .. m : c[k] = p[k]
      /\ \A k \in 1 .. n : c[m + k] = q[k]
      /\ \A k, l \in 1 .. m + n : k < l => c[k] < c[l]
  <2>1. c \in Seq(S) /\ Len(c) = m + n
    BY ConcatFacts
  <2>2. \A k, l \in 1 .. Len(c) : k < l => c[k] < c[l]
    BY <2>1, AscendingOf
  <2> QED
    BY <2>1, <2>2, ConcatFacts
<1> HIDE DEF m, n, c
<1>2. ASSUME NEW k \in 1 .. m, NEW l \in 1 .. m, k < l PROVE p[k] < p[l]
  <2>1. k \in 1 .. m + n /\ l \in 1 .. m + n
    BY <1>1
  <2> QED
    BY <1>1, <1>2, <2>1
<1>3. ASSUME NEW k \in 1 .. n, NEW l \in 1 .. n, k < l PROVE q[k] < q[l]
  <2>1. m + k \in 1 .. m + n /\ m + l \in 1 .. m + n /\ m + k < m + l
    BY <1>1, <1>3
  <2> QED
    BY <1>1, <2>1
<1>4. ASSUME NEW k \in 1 .. m, NEW l \in 1 .. n PROVE p[k] < q[l]
  <2>1. k \in 1 .. m + n /\ m + l \in 1 .. m + n /\ k < m + l
    BY <1>1
  <2> QED
    BY <1>1, <2>1
<1>5. ToSet(p) = {p[k] : k \in 1 .. m} /\ ToSet(q) = {q[k] : k \in 1 .. n}
  BY ElementsOf DEF m, n
<1> QED
  BY <1>2, <1>3, <1>4, <1>5, AscendingOf DEF m, n

-----------------------------------------------------------------------------
(* Type correctness.                                                        *)

LEMMA TypeFacts ==
  ASSUME TypeOK
  PROVE  /\ topic \in Seq(Reading) /\ Len(topic) \in Nat
         /\ position \in 0 .. Len(topic) /\ position \in Nat
         /\ committed \in {NoOffset} \cup 0 .. Len(topic)
         /\ reading \in {NoReading} \cup Offsets /\ Offsets = 1 .. Len(topic)
         /\ buffer \in Seq(Offsets) /\ batch \in Seq(Offsets) /\ rows \in Seq(Offsets)
         /\ Unwritten \in Seq(Offsets)
         /\ writer \in {"waiting", "inserting", "ended"}
         /\ writer # "inserting" => batch = <<>>
         /\ hot \in [Sensors -> {NoReading} \cup Offsets]
         /\ tracked \in 0 .. Len(topic)
         /\ first \in 0 .. position /\ first \in Nat /\ base \in 0 .. Len(rows) /\ base \in Nat
         /\ faults \in Nat /\ Len(rows) \in Nat
         /\ \A i \in Offsets : topic[i] \in Reading
<1>1. /\ topic \in Seq(Reading) /\ position \in 0 .. Len(topic)
      /\ committed \in {NoOffset} \cup 0 .. Len(topic)
      /\ reading \in {NoReading} \cup Offsets
      /\ buffer \in Seq(Offsets) /\ batch \in Seq(Offsets) /\ rows \in Seq(Offsets)
      /\ writer \in {"waiting", "inserting", "ended"}
      /\ writer # "inserting" => batch = <<>>
      /\ hot \in [Sensors -> {NoReading} \cup Offsets]
      /\ tracked \in 0 .. Len(topic)
      /\ first \in 0 .. position /\ base \in 0 .. Len(rows) /\ faults \in Nat
  BY DEF TypeOK
<1>2. Len(topic) \in Nat /\ Len(rows) \in Nat /\ topic \in [1 .. Len(topic) -> Reading]
  BY <1>1, LenProperties
<1>3. Unwritten \in Seq(Offsets)
  BY <1>1, ConcatProperties DEF Unwritten
<1>4. position \in Nat /\ first \in Nat /\ base \in Nat
  BY <1>1, <1>2
<1> QED
  BY <1>1, <1>2, <1>3, <1>4 DEF Offsets

TopicType ==
  /\ topic \in Seq(Reading) /\ position \in 0 .. Len(topic)
  /\ committed \in {NoOffset} \cup 0 .. Len(topic) /\ first \in 0 .. position
HotType == /\ reading \in {NoReading} \cup Offsets
           /\ hot \in [Sensors -> {NoReading} \cup Offsets]
           /\ tracked \in 0 .. Len(topic)
LineType ==
  /\ buffer \in Seq(Offsets) /\ batch \in Seq(Offsets) /\ rows \in Seq(Offsets)
  /\ writer \in {"waiting", "inserting", "ended"}
  /\ writer # "inserting" => batch = <<>>
  /\ base \in 0 .. Len(rows)
FlagType == flushEvent \in BOOLEAN /\ dropped \in BOOLEAN /\ faults \in Nat

LEMMA InitType == Init => TypeOK
<1> SUFFICES ASSUME Init PROVE TypeOK
  OBVIOUS
<1>1. /\ topic = <<>> /\ buffer = <<>> /\ batch = <<>> /\ rows = <<>>
      /\ position = 0 /\ committed = NoOffset /\ reading = NoReading /\ writer = "waiting"
      /\ hot = [s \in Sensors |-> NoReading] /\ tracked = 0 /\ first = 0 /\ base = 0 /\ faults = 0
  BY DEF Init
<1>2. TopicType /\ LineType /\ HotType
  BY <1>1, NoElements DEF TopicType, LineType, HotType
<1>3. FlagType
  <2>1. faults \in Nat
    BY <1>1
  <2> QED
    BY <2>1, Zenon DEF Init, FlagType
<1> QED
  BY <1>2, <1>3 DEF TypeOK, TopicType, LineType, HotType, FlagType

LEMMA FaultType == faults \in Nat /\ Fault => faults' \in Nat
BY DEF Fault

LEMMA PublishType ==
  ASSUME TypeOK, NEW r \in Reading, Publish(r)
  PROVE  TypeOK'
<1>1. /\ topic' = Append(topic, r)
      /\ UNCHANGED <<position, committed, process, rows, hot, tracked, life, faults>>
  BY DEF Publish
<1>2. topic' \in Seq(Reading) /\ Len(topic') = Len(topic) + 1
  BY <1>1, TypeFacts, AppendProperties
<1>3. Offsets \subseteq Offsets'
  BY <1>2, TypeFacts DEF Offsets
<1>4. TopicType'
  BY <1>1, <1>2, TypeFacts DEF TopicType, life
<1>5. HotType'
  BY <1>1, <1>3, TypeFacts DEF HotType, process
<1>6. buffer \in Seq(Offsets') /\ batch \in Seq(Offsets') /\ rows \in Seq(Offsets')
  BY <1>3, TypeFacts, SeqMonotonic
<1>7. LineType'
  BY <1>1, <1>6, TypeFacts DEF LineType, process, life
<1>8. FlagType'
  BY <1>1 DEF FlagType, TypeOK, process, life
<1> QED
  BY <1>4, <1>5, <1>7, <1>8 DEF TypeOK, TopicType, LineType, HotType, FlagType

LEMMA ConsumeType ==
  ASSUME TypeOK, Consume
  PROVE  TypeOK'
<1> DEFINE i == position + 1
<1>1. /\ position < Len(topic) /\ position' = i
      /\ \/ UNCHANGED <<reading, buffer, flushEvent>>
         \/ /\ buffer' = Append(buffer, i) /\ reading' = i
            /\ flushEvent' = (flushEvent \/ Len(buffer') >= BatchMaxSize)
      /\ UNCHANGED <<topic, committed, writer, batch, rows, hot, tracked, life, faults>>
  BY DEF Consume
<1>2. i \in Offsets /\ i \in Nat /\ Offsets' = Offsets
  <2>1. Offsets' = Offsets
    BY <1>1 DEF Offsets
  <2>2. position \in Nat /\ Len(topic) \in Nat /\ Offsets = 1 .. Len(topic)
    BY TypeFacts
  <2> QED
    BY <1>1, <2>1, <2>2
<1>3. TopicType'
  <2>1. TopicType
    BY DEF TypeOK, TopicType
  <2>3. position \in Nat /\ Len(topic) \in Nat
    BY TypeFacts
  <2>2. position' \in 0 .. Len(topic) /\ \A n \in 0 .. position : n \in 0 .. position'
    BY <1>1, <2>3
  <2> QED
    BY <1>1, <2>1, <2>2 DEF TopicType, life
<1>4. HotType'
  BY <1>1, <1>2, TypeFacts DEF HotType
<1>5. buffer' \in Seq(Offsets)
  <2>1. buffer \in Seq(Offsets)
    BY TypeFacts
  <2>2. Append(buffer, i) \in Seq(Offsets)
    BY <1>2, <2>1, AppendProperties
  <2>3. buffer' = buffer \/ buffer' = Append(buffer, i)
    BY <1>1
  <2> QED
    BY <2>1, <2>2, <2>3
<1>6. LineType'
  BY <1>1, <1>2, <1>5, TypeFacts DEF LineType, life
<1>7. flushEvent' \in BOOLEAN
  BY <1>1, Zenon DEF TypeOK
<1>8. FlagType'
  BY <1>1, <1>7 DEF FlagType, TypeOK, life
<1> QED
  BY <1>3, <1>4, <1>6, <1>8 DEF TypeOK, TopicType, LineType, HotType, FlagType

HotStep == \/ UpdateHotState \/ HotStateError \/ Track \/ TrackerRestart
           \/ \E s \in Sensors : ExpireHot(s)

LEMMA HotStepType ==
  ASSUME TypeOK, HotStep
  PROVE  TypeOK'
<1>1. UNCHANGED <<topic, position, committed, buffer, batch, rows, writer, flushEvent, life>>
  BY DEF HotStep, UpdateHotState, HotStateError, Track, TrackerRestart, ExpireHot, kafka, process
<1>2. Offsets' = Offsets
  BY <1>1 DEF Offsets
<1>3. faults' \in Nat
  BY TypeFacts, FaultType
  DEF HotStep, UpdateHotState, HotStateError, Track, TrackerRestart, ExpireHot
<1>4. reading' \in {NoReading} \cup Offsets
  BY TypeFacts
  DEF HotStep, UpdateHotState, HotStateError, Track, TrackerRestart, ExpireHot, process
<1>5. hot' \in [Sensors -> {NoReading} \cup Offsets] /\ tracked' \in 0 .. Len(topic)
  <2>1. CASE UpdateHotState
    BY <2>1, TypeFacts DEF UpdateHotState, NewHot
  <2>2. CASE HotStateError
    BY <2>2, TypeFacts DEF HotStateError
  <2>3. CASE \E s \in Sensors : ExpireHot(s)
    BY <2>3, TypeFacts DEF ExpireHot
  <2>4. CASE Track
    <3>1. tracked + 1 \in Offsets /\ tracked + 1 \in 0 .. Len(topic)
      BY <2>4, TypeFacts DEF Track
    <3> QED
      BY <2>4, <3>1, TypeFacts DEF Track
  <2>5. CASE TrackerRestart
    BY <2>5, TypeFacts DEF TrackerRestart
  <2> QED
    BY <2>1, <2>2, <2>3, <2>4, <2>5 DEF HotStep
<1>6. TopicType' /\ LineType'
  BY <1>1, <1>2, TypeFacts DEF TopicType, LineType, life
<1>7. HotType'
  BY <1>1, <1>2, <1>4, <1>5 DEF HotType
<1>8. FlagType'
  BY <1>1, <1>3 DEF FlagType, TypeOK, life
<1> QED
  BY <1>6, <1>7, <1>8 DEF TypeOK, TopicType, LineType, HotType, FlagType

LEMMA WriterType ==
  ASSUME TypeOK, TakeBatch \/ InsertBatch \/ InsertError
  PROVE  TypeOK'
<1>1. UNCHANGED <<topic, position, committed, reading, hot, tracked, first, base>>
  BY DEF TakeBatch, InsertBatch, InsertError, kafka, life
<1>2. Offsets' = Offsets
  BY <1>1 DEF Offsets
<1>3. faults' \in Nat /\ flushEvent' \in BOOLEAN /\ dropped' \in BOOLEAN
  <2>1. faults' \in Nat
    BY TypeFacts, FaultType DEF TakeBatch, InsertBatch, InsertError
  <2>2. flushEvent' \in BOOLEAN
    BY Zenon DEF TakeBatch, InsertBatch, InsertError, TypeOK
  <2>3. dropped' \in BOOLEAN
    BY Zenon DEF TakeBatch, InsertBatch, InsertError, TypeOK, life
  <2> QED
    BY <2>1, <2>2, <2>3
<1>4. rows \o batch \in Seq(Offsets) /\ Len(rows \o batch) = Len(rows) + Len(batch)
      /\ Len(batch) \in Nat
  BY TypeFacts, ConcatFacts
<1>5. batch \o buffer \in Seq(Offsets) /\ <<>> \in Seq(Offsets)
  BY TypeFacts, ConcatFacts, NoElements
<1>6. /\ buffer' \in Seq(Offsets) /\ batch' \in Seq(Offsets)
      /\ writer' \in {"waiting", "inserting", "ended"}
      /\ writer' # "inserting" => batch' = <<>>
  BY <1>5, TypeFacts DEF TakeBatch, InsertBatch, InsertError, Remaining, Rebuffer
<1>7. rows' \in Seq(Offsets) /\ base' \in 0 .. Len(rows')
  <2>1. rows' = rows \/ rows' = rows \o batch
    BY DEF TakeBatch, InsertBatch, InsertError
  <2>2. base \in 0 .. Len(rows) /\ Len(rows) \in Nat /\ rows \in Seq(Offsets) /\ base' = base
    BY <1>1, TypeFacts
  <2>3. CASE rows' = rows
    BY <2>2, <2>3
  <2>4. CASE rows' = rows \o batch
    <3>1. Len(rows') = Len(rows) + Len(batch)
      BY <1>4, <2>4
    <3>2. base \in 0 .. Len(rows')
      BY <1>4, <2>2, <3>1
    <3> QED
      BY <1>4, <2>2, <2>4, <3>2
  <2> QED
    BY <2>1, <2>3, <2>4
<1>8. LineType'
  BY <1>2, <1>6, <1>7 DEF LineType
<1>9. TopicType' /\ HotType'
  BY <1>1, <1>2, TypeFacts DEF TopicType, HotType
<1>10. FlagType'
  BY <1>3 DEF FlagType
<1> QED
  BY <1>8, <1>9, <1>10 DEF TypeOK, TopicType, LineType, HotType, FlagType

LEMMA RestartType ==
  ASSUME TypeOK, Crash \/ Shutdown
  PROVE  TypeOK'
<1> DEFINE o == position'
<1>1. o \in 0 .. Len(topic) /\ ResumeAt(o) /\ Fault /\ rows' \in {rows, rows \o batch}
      /\ committed' \in {committed, position}
  <2>1. CASE Crash
    <3>1. Resumed(committed, Len(topic)) \in 0 .. Len(topic)
      BY TypeFacts DEF Resumed, NoOffset
    <3> QED
      BY <2>1, <3>1 DEF Crash, ResumeAt
  <2>2. CASE Shutdown
    BY <2>2, TypeFacts DEF Shutdown, ResumeAt
  <2> QED
    BY <2>1, <2>2
<1>2. /\ reading' = NoReading /\ buffer' = <<>> /\ writer' = "waiting" /\ batch' = <<>>
      /\ first' = o /\ base' = Len(rows') /\ UNCHANGED <<topic, hot, tracked>>
  BY <1>1 DEF ResumeAt
<1>3. Offsets' = Offsets
  BY <1>2 DEF Offsets
<1>4. rows' \in Seq(Offsets) /\ Len(rows') \in Nat
  <2>1. rows \in Seq(Offsets) /\ rows \o batch \in Seq(Offsets)
    BY TypeFacts, ConcatFacts
  <2>2. rows' \in Seq(Offsets)
    BY <1>1, <2>1
  <2> QED
    BY <2>2, LenProperties
<1>5. TopicType' /\ HotType'
  <2>1. TopicType'
    BY <1>1, <1>2, TypeFacts DEF TopicType
  <2>2. HotType'
    BY <1>2, <1>3, TypeFacts DEF HotType
  <2> QED
    BY <2>1, <2>2
<1>6. LineType'
  BY <1>2, <1>3, <1>4, NoElements DEF LineType
<1>7. FlagType'
  BY <1>1, TypeFacts, FaultType DEF ResumeAt, FlagType
<1> QED
  BY <1>5, <1>6, <1>7 DEF TypeOK, TopicType, LineType, HotType, FlagType

LEMMA NextType == TypeOK /\ [Next]_vars => TypeOK'
<1> SUFFICES ASSUME TypeOK, [Next]_vars PROVE TypeOK'
  OBVIOUS
<1>1. CASE UNCHANGED vars
  BY <1>1 DEF vars, kafka, process, life, TypeOK, Offsets
<1>2. CASE AutoCommit
  <2>1. /\ UNCHANGED <<topic, position, process, rows, hot, tracked, life, faults>>
        /\ committed' \in {NoOffset} \cup 0 .. Len(topic)
    BY <1>2, TypeFacts DEF AutoCommit
  <2>2. Offsets' = Offsets
    BY <2>1 DEF Offsets
  <2>3. TopicType' /\ HotType' /\ LineType'
    BY <2>1, <2>2, TypeFacts DEF TopicType, HotType, LineType, process, life
  <2>4. FlagType'
    BY <2>1 DEF FlagType, TypeOK, process, life
  <2> QED
    BY <2>3, <2>4 DEF TypeOK, TopicType, LineType, HotType, FlagType
<1> QED
  BY <1>1, <1>2, PublishType, ConsumeType, HotStepType, WriterType, RestartType
  DEF Next, ConsumerStep, WriterStep, HotStep

(* What is buffered, inserted and stored are readings of the topic, and the
   consumer stays in it.                                                    *)
THEOREM TypeCorrect == Spec => []TypeOK
<1> QED
  BY InitType, NextType, PTL DEF Spec

-----------------------------------------------------------------------------
(* The way of a reading to the table: consumed, in the buffer, in the INSERT,
   written.                                                                 *)

Alive == dropped => writer = "ended"
Line  == WrittenInOrder /\ NothingDropped /\ Alive

LEMMA LineFacts ==
  ASSUME TypeOK
  PROVE  /\ \A i \in Consumed : i \in Nat /\ i <= position /\ i > first /\ i \in Offsets
         /\ \A i \in ToSet(Unwritten) : i \in Nat
         /\ ToSet(batch) \subseteq Nat /\ ToSet(buffer) \subseteq Nat
         /\ Written \subseteq Nat
         /\ \A k \in WrittenAt : k \in 1 .. Len(rows) /\ rows[k] \in Nat
         /\ ToSet(Unwritten) = ToSet(batch) \cup ToSet(buffer)
<1>1. \A i \in Consumed : i \in Nat /\ i <= position /\ i > first /\ i \in Offsets
  BY TypeFacts DEF Consumed
<1>2. Offsets \subseteq Nat
  BY TypeFacts
<1>3. /\ ToSet(batch) \subseteq Offsets /\ ToSet(buffer) \subseteq Offsets
      /\ ToSet(Unwritten) \subseteq Offsets
      /\ ToSet(Unwritten) = ToSet(batch) \cup ToSet(buffer)
  <2>1. batch \in Seq(Offsets) /\ buffer \in Seq(Offsets) /\ Unwritten \in Seq(Offsets)
    BY TypeFacts
  <2>2. /\ ToSet(batch) \subseteq Offsets /\ ToSet(buffer) \subseteq Offsets
        /\ ToSet(Unwritten) \subseteq Offsets
    BY <2>1, ElementsOf
  <2>3. ToSet(Unwritten) = ToSet(batch) \cup ToSet(buffer)
    BY <2>1, ElementsOfConcat DEF Unwritten
  <2> QED
    BY <2>2, <2>3
<1>4. rows \in [1 .. Len(rows) -> Offsets] /\ Len(rows) \in Nat /\ base \in Nat
  BY TypeFacts, LenProperties
<1>5. \A k \in WrittenAt : k \in 1 .. Len(rows) /\ rows[k] \in Offsets
  BY <1>4 DEF WrittenAt
<1> QED
  BY <1>1, <1>2, <1>3, <1>5 DEF Written

LEMMA InitLine == Init => Line
<1> SUFFICES ASSUME Init PROVE Line
  OBVIOUS
<1>1. /\ topic = <<>> /\ buffer = <<>> /\ batch = <<>> /\ rows = <<>> /\ Len(rows) = 0
      /\ position = 0 /\ first = 0 /\ base = 0 /\ writer = "waiting"
  BY NoElements DEF Init
<1>2. Consumed = {} /\ WrittenAt = {} /\ Written = {}
  BY <1>1 DEF Consumed, WrittenAt, Written
<1>3. Unwritten = <<>>
  BY <1>1, NoElements, ConcatEmptySeq DEF Unwritten
<1>4. WrittenInOrder
  BY <1>2 DEF WrittenInOrder
<1>5. NothingDropped
  BY <1>2, <1>3, NoElements DEF NothingDropped
<1>6. Alive
  BY Zenon DEF Init, Alive
<1> QED
  BY <1>4, <1>5, <1>6 DEF Line

(* What was written stays in order when nothing is written.                 *)
LEMMA NothingWritten ==
  ASSUME WrittenInOrder, UNCHANGED <<rows, base, Consumed>>
  PROVE  WrittenInOrder' /\ Written' = Written
<1>1. WrittenAt' = WrittenAt /\ Written' = Written
  BY DEF WrittenAt, Written
<1> QED
  BY <1>1 DEF WrittenInOrder

(* A step that neither consumes nor writes, nor ends the writer.             *)
LEMMA LineStays ==
  ASSUME Line, UNCHANGED <<rows, base, Consumed, Unwritten, dropped>>,
         writer' = "ended" <=> writer = "ended"
  PROVE  Line'
<1>1. WrittenInOrder' /\ Written' = Written
  BY NothingWritten DEF Line
<1>2. NothingDropped'
  BY <1>1 DEF Line, NothingDropped
<1>3. Alive'
  BY DEF Line, Alive
<1> QED
  BY <1>1, <1>2, <1>3 DEF Line

LEMMA PublishLine ==
  ASSUME TypeOK, Line, NEW r \in Reading, Publish(r)
  PROVE  Line'
<1>1. /\ topic' = Append(topic, r) /\ UNCHANGED <<position, first, buffer, batch, rows, base,
                                                  writer, dropped>>
  BY DEF Publish, process, life
<1>2. \A i \in first + 1 .. position : topic'[i] = topic[i]
  <2>1. \A i \in first + 1 .. position : i \in 1 .. Len(topic)
    BY TypeFacts
  <2> QED
    BY <1>1, <2>1, TypeFacts, AppendProperties
<1>3. Consumed' = Consumed
  BY <1>1, <1>2 DEF Consumed
<1>4. Unwritten' = Unwritten
  BY <1>1 DEF Unwritten
<1> QED
  BY <1>1, <1>3, <1>4, LineStays

(* A reading that is consumed comes after all that was.                      *)
LEMMA ConsumeLine ==
  ASSUME TypeOK, Line, Consume
  PROVE  Line'
<1> DEFINE i == position + 1
<1>1. /\ position < Len(topic) /\ position' = i
      /\ UNCHANGED <<topic, first, batch, rows, base, writer, dropped>>
  BY DEF Consume, life
<1>2. i \in Nat /\ i \in Offsets /\ position \in Nat /\ first \in Nat /\ first <= position
  BY <1>1, TypeFacts
<1>3. first' + 1 .. position' = (first + 1 .. position) \cup {i}
  BY <1>1, <1>2
<1>4. CASE topic[i].payload = "invalid"
  <2>1. Consumed' = Consumed
    BY <1>1, <1>3, <1>4 DEF Consumed
  <2>2. Unwritten' = Unwritten
    BY <1>1, <1>4 DEF Consume, Unwritten
  <2> QED
    BY <1>1, <2>1, <2>2, LineStays
<1>5. CASE topic[i].payload # "invalid"
  <2>1. Consumed' = Consumed \cup {i}
    BY <1>1, <1>3, <1>5 DEF Consumed
  <2>2. buffer' = Append(buffer, i)
    BY <1>5 DEF Consume
  <2>3. Unwritten' = Append(Unwritten, i)
    <3>1. batch \in Seq(Offsets) /\ buffer \in Seq(Offsets)
      BY TypeFacts
    <3>2. batch \o Append(buffer, i) = Append(batch \o buffer, i)
      BY <1>2, <3>1
    <3> QED
      BY <1>1, <2>2, <3>2 DEF Unwritten
  <2> HIDE DEF i
  <2>4. \A j \in Consumed : j < i
    BY <1>1, <1>2, LineFacts DEF i
  <2>5. WrittenAt' = WrittenAt /\ Written' = Written
    BY <1>1 DEF WrittenAt, Written
  <2>6. WrittenInOrder'
    <3>1. ASSUME NEW j \in Consumed', NEW k \in Written', j < k PROVE j \in Written'
      <4>1. k \in Consumed /\ k \in Nat /\ k < i
        BY <2>4, <2>5, <3>1, LineFacts DEF Line, WrittenInOrder
      <4>2. j # i
        BY <1>2, <3>1, <4>1
      <4> QED
        BY <2>1, <2>5, <3>1, <4>2 DEF Line, WrittenInOrder
    <3> QED
      BY <1>1, <2>1, <2>5, <3>1 DEF Line, WrittenInOrder
  <2>7. ASSUME ~dropped
        PROVE  /\ Consumed' = Written' \cup ToSet(Unwritten') /\ Ascending(Unwritten')
               /\ IF writer' = "ended"
                  THEN \A j \in Consumed', k \in ToSet(Unwritten') :
                         k < j => j \in ToSet(Unwritten')
                  ELSE \A j \in Written', k \in ToSet(Unwritten') : j < k
    <3>1. ToSet(Unwritten') = ToSet(Unwritten) \cup {i}
      <4>1. i \in Offsets /\ Unwritten \in Seq(Offsets)
        BY <1>2, TypeFacts DEF i
      <4>2. ToSet(Append(Unwritten, i)) = ToSet(Unwritten) \cup {i}
        BY <4>1, ElementsOfAppend
      <4> QED
        BY <2>3, <4>2
    <3>2. /\ Consumed = Written \cup ToSet(Unwritten) /\ Ascending(Unwritten)
          /\ IF writer = "ended"
             THEN \A j \in Consumed, k \in ToSet(Unwritten) : k < j => j \in ToSet(Unwritten)
             ELSE \A j \in Written, k \in ToSet(Unwritten) : j < k
      BY <2>7 DEF Line, NothingDropped
    <3>3. Ascending(Unwritten')
      BY <1>2, <2>3, <2>4, <3>2, TypeFacts, AscendingAppend
    <3>4. Consumed' = Written' \cup ToSet(Unwritten')
      BY <2>1, <2>5, <3>1, <3>2
    <3>5. CASE writer = "ended"
      <4>1. ASSUME NEW j \in Consumed', NEW k \in ToSet(Unwritten'), k < j
            PROVE  j \in ToSet(Unwritten')
        <5>1. CASE j = i
          BY <3>1, <5>1
        <5>2. CASE j \in Consumed
          <6>1. k # i
            BY <1>2, <2>4, <4>1, <5>2, LineFacts
          <6> QED
            BY <3>1, <3>2, <3>5, <4>1, <5>2, <6>1
        <5> QED
          BY <2>1, <5>1, <5>2
      <4> QED
        BY <1>1, <3>3, <3>4, <3>5, <4>1
    <3>6. CASE writer # "ended"
      <4>1. ASSUME NEW j \in Written', NEW k \in ToSet(Unwritten') PROVE j < k
        BY <2>4, <2>5, <3>1, <3>2, <3>6
      <4> QED
        BY <1>1, <3>3, <3>4, <3>6, <4>1
    <3> QED
      BY <3>5, <3>6
  <2>8. NothingDropped'
    <3>1. ~dropped' => ~dropped
      BY <1>1
    <3> QED
      BY <2>7, <3>1, Zenon DEF NothingDropped, Unwritten
  <2>9. Alive'
    BY <1>1 DEF Line, Alive
  <2> QED
    BY <2>6, <2>8, <2>9 DEF Line
<1> QED
  BY <1>4, <1>5

(* The batch comes next in the table, and the buffer after it.               *)
LEMMA BatchIsNext ==
  ASSUME TypeOK, Line, writer = "inserting"
  PROVE  /\ ~dropped /\ Consumed = Written \cup ToSet(batch) \cup ToSet(buffer)
         /\ Ascending(Unwritten) /\ Ascending(batch) /\ Ascending(buffer)
         /\ \A i \in Written, j \in ToSet(batch) : i < j
         /\ \A i \in Written, j \in ToSet(buffer) : i < j
         /\ \A i \in ToSet(batch), j \in ToSet(buffer) : i < j
<1>1. ~dropped
  BY DEF Line, Alive
<1>2. /\ Consumed = Written \cup ToSet(Unwritten) /\ Ascending(Unwritten)
      /\ \A i \in Written, j \in ToSet(Unwritten) : i < j
  BY <1>1 DEF Line, NothingDropped
<1>3. /\ Ascending(batch) /\ Ascending(buffer)
      /\ \A i \in ToSet(batch), j \in ToSet(buffer) : i < j
  BY <1>2, TypeFacts, AscendingConcat DEF Unwritten
<1> QED
  BY <1>1, <1>2, <1>3, LineFacts

LEMMA BatchWritten ==
  ASSUME TypeOK, Line, writer = "inserting",
         rows' = rows \o batch, UNCHANGED <<base, Consumed>>
  PROVE  WrittenInOrder' /\ Written' = Written \cup ToSet(batch)
<1> DEFINE m == Len(rows)
           n == Len(batch)
<1>1. /\ m \in Nat /\ n \in Nat /\ Len(rows') = m + n
      /\ \A k \in 1 .. m : rows'[k] = rows[k]
      /\ \A k \in 1 .. n : rows'[m + k] = batch[k]
  BY TypeFacts, ConcatFacts
<1>2. base \in Nat /\ base <= m /\ WrittenAt = base + 1 .. m /\ WrittenAt' = base + 1 .. m + n
  BY <1>1, TypeFacts DEF WrittenAt
<1>3. /\ ToSet(batch) = {batch[k] : k \in 1 .. n}
      /\ \A k, l \in 1 .. n : k < l => batch[k] < batch[l]
  <2>1. batch \in Seq(Offsets) /\ Ascending(batch)
    BY TypeFacts, BatchIsNext
  <2> QED
    BY <2>1, ElementsOf, AscendingOf
<1> HIDE DEF m, n
<1>4. \A k \in WrittenAt' :
        \/ k \in WrittenAt /\ rows'[k] = rows[k]
        \/ k - m \in 1 .. n /\ rows'[k] = batch[k - m]
  <2> SUFFICES ASSUME NEW k \in base + 1 .. m + n
               PROVE  \/ k \in WrittenAt /\ rows'[k] = rows[k]
                      \/ k - m \in 1 .. n /\ rows'[k] = batch[k - m]
    BY <1>2
  <2>1. CASE k <= m
    BY <1>1, <1>2, <2>1
  <2>2. CASE k > m
    <3>1. k - m \in 1 .. n /\ m + (k - m) = k
      BY <1>1, <1>2, <2>2
    <3> QED
      BY <1>1, <3>1
  <2> QED
    BY <1>1, <1>2, <2>1, <2>2
<1>5. \A k \in WrittenAt : k \in WrittenAt' /\ rows'[k] = rows[k] /\ k \in 1 .. m
  BY <1>1, <1>2
<1>6. \A k \in 1 .. n : m + k \in WrittenAt' /\ rows'[m + k] = batch[k]
  BY <1>1, <1>2
<1>7. Written' = Written \cup ToSet(batch)
  <2>1. Written' \subseteq Written \cup ToSet(batch)
    BY <1>3, <1>4 DEF Written
  <2>2. Written \subseteq Written'
    BY <1>5 DEF Written
  <2>3. ToSet(batch) \subseteq Written'
    <3> SUFFICES ASSUME NEW k \in 1 .. n PROVE batch[k] \in Written'
      BY <1>3
    <3>1. m + k \in WrittenAt' /\ rows'[m + k] = batch[k]
      BY <1>6
    <3> QED
      BY <3>1 DEF Written
  <2> QED
    BY <2>1, <2>2, <2>3
<1>8. ASSUME NEW k \in WrittenAt', NEW l \in WrittenAt', k < l
      PROVE  rows'[k] < rows'[l]
  <2>0. k \in Nat /\ l \in Nat
    BY <1>1, <1>2
  <2>1. CASE l \in WrittenAt /\ rows'[l] = rows[l]
    <3>1. k \in WrittenAt
      BY <1>1, <1>2, <1>8, <2>0, <2>1
    <3> QED
      BY <1>5, <1>8, <2>1, <3>1 DEF Line, WrittenInOrder
  <2>2. CASE l - m \in 1 .. n /\ rows'[l] = batch[l - m]
    <3>1. CASE k \in WrittenAt /\ rows'[k] = rows[k]
      <4>1. rows[k] \in Written /\ batch[l - m] \in ToSet(batch)
        BY <1>3, <2>2, <3>1 DEF Written
      <4> QED
        BY <2>2, <3>1, <4>1, BatchIsNext
    <3>2. CASE k - m \in 1 .. n /\ rows'[k] = batch[k - m]
      <4>1. k - m < l - m
        BY <1>1, <1>8, <2>0
      <4> QED
        BY <1>3, <2>2, <3>2, <4>1
    <3> QED
      BY <1>4, <3>1, <3>2
  <2> QED
    BY <1>4, <2>1, <2>2
<1>9. Written' \subseteq Consumed'
  BY <1>7, BatchIsNext
<1>10. ASSUME NEW i \in Consumed', NEW j \in Written', i < j
       PROVE  i \in Written'
  <2>1. i \in Nat /\ j \in Nat
    BY <1>7, LineFacts
  <2>2. i \notin ToSet(buffer)
    <3>1. \A l \in ToSet(buffer) : j < l
      BY <1>7, BatchIsNext
    <3> QED
      BY <1>10, <2>1, <3>1
  <2> QED
    BY <1>7, <2>2, BatchIsNext
<1> QED
  BY <1>7, <1>8, <1>9, <1>10 DEF WrittenInOrder

LEMMA InsertBatchLine ==
  ASSUME TypeOK, Line, InsertBatch
  PROVE  Line'
<1>1. /\ writer = "inserting" /\ rows' = rows \o batch /\ batch' = <<>> /\ writer' = "waiting"
      /\ UNCHANGED <<topic, position, first, base, buffer, dropped>>
  BY DEF InsertBatch, kafka, life
<1>2. Consumed' = Consumed
  BY <1>1 DEF Consumed
<1>3. WrittenInOrder' /\ Written' = Written \cup ToSet(batch)
  BY <1>1, <1>2, BatchWritten
<1>4. Unwritten' = buffer
  BY <1>1, TypeFacts, ConcatEmptySeq DEF Unwritten
<1>5. NothingDropped'
  <2>1. /\ Consumed' = Written' \cup ToSet(Unwritten') /\ Ascending(Unwritten')
        /\ \A i \in Written', j \in ToSet(Unwritten') : i < j
    BY <1>1, <1>2, <1>3, <1>4, BatchIsNext
  <2>2. writer' # "ended"
    BY <1>1
  <2> QED
    BY <2>1, <2>2, Zenon DEF NothingDropped
<1>6. Alive'
  BY <1>1, BatchIsNext DEF Alive
<1> QED
  BY <1>3, <1>5, <1>6 DEF Line

LEMMA InsertErrorLine ==
  ASSUME TypeOK, Line, InsertError
  PROVE  Line'
<1>1. /\ writer = "inserting" /\ rows' \in {rows, rows \o batch} /\ batch' = <<>>
      /\ buffer' = batch \o buffer /\ writer' = "ended"
      /\ UNCHANGED <<topic, position, first, base, dropped>>
  BY DEF InsertError, Rebuffer, kafka, life
<1>2. Consumed' = Consumed
  BY <1>1 DEF Consumed
<1>3. Unwritten' = Unwritten
  <2>1. batch \o buffer \in Seq(Offsets)
    BY TypeFacts, ConcatFacts
  <2> QED
    BY <1>1, <2>1, ConcatEmptySeq DEF Unwritten
<1>4. WrittenInOrder' /\ Written' \in {Written, Written \cup ToSet(batch)}
  <2>1. CASE rows' = rows
    BY <1>1, <1>2, <2>1, NothingWritten DEF Line
  <2>2. CASE rows' = rows \o batch
    BY <1>1, <1>2, <2>2, BatchWritten
  <2> QED
    BY <1>1, <2>1, <2>2
<1>5. Consumed' = Written' \cup ToSet(Unwritten')
  BY <1>1, <1>2, <1>3, <1>4, BatchIsNext, LineFacts
<1>6. ASSUME NEW i \in Consumed', NEW j \in ToSet(Unwritten'), j < i
      PROVE  i \in ToSet(Unwritten')
  <2>1. i \in Consumed /\ j \in ToSet(batch) \cup ToSet(buffer) /\ i \in Nat /\ j \in Nat
    BY <1>2, <1>3, <1>6, LineFacts
  <2>2. i \notin Written
    <3>1. i \in Written => i < j
      BY <1>1, <2>1, BatchIsNext
    <3> QED
      BY <1>6, <2>1, <3>1
  <2> QED
    BY <1>1, <1>3, <2>1, <2>2, BatchIsNext, LineFacts
<1>7. Ascending(Unwritten')
  BY <1>1, <1>3, BatchIsNext
<1>8. NothingDropped'
  BY <1>1, <1>5, <1>6, <1>7, Zenon DEF NothingDropped
<1>9. Alive'
  BY <1>1 DEF Alive
<1> QED
  BY <1>4, <1>8, <1>9 DEF Line

LEMMA TakeBatchLine ==
  ASSUME TypeOK, Line, TakeBatch
  PROVE  Line'
<1>1. /\ writer = "waiting" /\ buffer' = <<>>
      /\ UNCHANGED <<topic, position, first, rows, base>>
  BY DEF TakeBatch, Remaining, kafka
<1>2. Consumed' = Consumed
  BY <1>1 DEF Consumed
<1>3. CASE Undated(buffer)
  <2>1. writer' = "ended" /\ dropped'
    BY <1>3 DEF TakeBatch
  <2>2. WrittenInOrder'
    BY <1>1, <1>2, NothingWritten DEF Line
  <2> QED
    BY <2>1, <2>2 DEF Line, NothingDropped, Alive
<1>4. CASE ~Undated(buffer)
  <2>1. batch' = buffer /\ dropped' = dropped /\ writer' # "ended" /\ batch = <<>>
    BY <1>1, <1>4, TypeFacts DEF TakeBatch
  <2>2. Unwritten' = Unwritten
    BY <1>1, <2>1, TypeFacts, ConcatEmptySeq DEF Unwritten
  <2> QED
    BY <1>1, <1>2, <2>1, <2>2, LineStays
<1> QED
  BY <1>3, <1>4

(* A new process has consumed and written nothing.                           *)
LEMMA RestartLine ==
  ASSUME TypeOK, Line, Crash \/ Shutdown
  PROVE  Line'
<1>1. /\ first' = position' /\ base' = Len(rows') /\ buffer' = <<>> /\ batch' = <<>>
      /\ writer' = "waiting" /\ rows' \in {rows, rows \o batch}
      /\ position' \in {Resumed(committed, Len(topic)), position}
  BY DEF Crash, Shutdown, ResumeAt
<1>2. ~dropped'
  BY Zenon DEF Crash, Shutdown, ResumeAt
<1>3. position' \in Nat
  BY <1>1, TypeFacts DEF Resumed, NoOffset
<1>4. Len(rows') \in Nat
  <2>1. rows \in Seq(Offsets) /\ rows \o batch \in Seq(Offsets)
    BY TypeFacts, ConcatFacts
  <2> QED
    BY <1>1, <2>1, LenProperties
<1>5. Consumed' = {} /\ WrittenAt' = {} /\ Written' = {}
  BY <1>1, <1>3, <1>4 DEF Consumed, WrittenAt, Written
<1>6. Unwritten' = <<>>
  BY <1>1, NoElements, ConcatEmptySeq DEF Unwritten
<1>7. WrittenInOrder'
  BY <1>5 DEF WrittenInOrder
<1>8. NothingDropped'
  BY <1>5, <1>6, NoElements DEF NothingDropped
<1> QED
  BY <1>2, <1>7, <1>8 DEF Line, Alive

LEMMA NextLine == TypeOK /\ Line /\ [Next]_vars => Line'
<1> SUFFICES ASSUME TypeOK, Line, [Next]_vars PROVE Line'
  OBVIOUS
<1>1. CASE HotStep \/ AutoCommit \/ UNCHANGED vars
  <2>1. UNCHANGED <<topic, position, first, buffer, batch, rows, base, writer, dropped>>
    BY <1>1 DEF HotStep, UpdateHotState, HotStateError, Track, TrackerRestart, ExpireHot,
                AutoCommit, vars, kafka, process, life
  <2>2. UNCHANGED <<Consumed, Unwritten>>
    BY <2>1 DEF Consumed, Unwritten
  <2> QED
    BY <2>1, <2>2, LineStays
<1> QED
  BY <1>1, PublishLine, ConsumeLine, TakeBatchLine, InsertBatchLine, InsertErrorLine, RestartLine
  DEF Next, ConsumerStep, WriterStep, HotStep

(* The table never shows a gap: what one process has written is, in order and
   without repetition, the first of the valid readings it has consumed.      *)
THEOREM WrittenInOrderAlways == Spec => []WrittenInOrder
<1>1. Line => WrittenInOrder
  BY DEF Line
<1> QED
  BY <1>1, InitType, NextType, InitLine, NextLine, PTL DEF Spec

(* Until a batch fails to parse, what was consumed and is not in the table is
   in the INSERT or in the buffer, in order, whatever INSERTs fail.          *)
THEOREM NothingDroppedAlways == Spec => []NothingDropped
<1>1. Line => NothingDropped
  BY DEF Line
<1> QED
  BY <1>1, InitType, NextType, InitLine, NextLine, PTL DEF Spec

-----------------------------------------------------------------------------
(* The hot state.  Until something fails it holds, of each sensor, the newest
   reading that one of its two writers has handled; the consumer has not yet
   handled the one in hand.                                                 *)

Newest(i, handled) ==
  i \in handled /\ \A j \in handled : topic[j].sensor = topic[i].sensor => j <= i
Handled == Consumed \ {reading}
Hot(s) ==
  hot[s] # NoReading =>
    topic[hot[s]].sensor = s /\ (Newest(hot[s], Handled) \/ Newest(hot[s], Tracked))
HotLine ==
  /\ reading # NoReading => reading = position /\ reading \in Consumed
  /\ faults = 0 => base = 0 /\ first = 0 /\ \A s \in Sensors : Hot(s)

LEMMA TrackedFacts ==
  ASSUME TypeOK
  PROVE  /\ tracked \in Nat /\ \A i \in Tracked : i \in Offsets /\ i <= tracked
         /\ NoReading \notin Tracked /\ NoReading \notin Consumed
<1>1. tracked \in 0 .. Len(topic) /\ Len(topic) \in Nat /\ Offsets = 1 .. Len(topic)
  BY TypeFacts
<1>2. first \in Nat /\ position \in Nat
  BY TypeFacts
<1> QED
  BY <1>1, <1>2 DEF Tracked, Consumed, NoReading

LEMMA InitHot == Init => HotLine
BY DEF Init, HotLine, Hot

(* Once something has failed only the reading in hand matters.               *)
LEMMA FaultHot ==
  ASSUME TypeOK, Fault, reading' # NoReading => reading' = position' /\ reading' \in Consumed'
  PROVE  HotLine'
<1>1. faults' # 0
  BY TypeFacts DEF Fault
<1> QED
  BY <1>1 DEF HotLine

LEMMA HotStays ==
  ASSUME HotLine, UNCHANGED <<topic, reading, position, Consumed, Tracked, faults, base, first, hot>>
  PROVE  HotLine'
BY DEF HotLine, Hot, Handled, Newest

LEMMA PublishHot ==
  ASSUME TypeOK, HotLine, NEW r \in Reading, Publish(r)
  PROVE  HotLine'
<1>1. /\ topic' = Append(topic, r)
      /\ UNCHANGED <<position, first, reading, base, hot, tracked, faults>>
  BY DEF Publish, process, life
<1>2. \A i \in Offsets : topic'[i] = topic[i]
  BY <1>1, TypeFacts, AppendProperties
<1>3. /\ first' + 1 .. position' = first + 1 .. position /\ first + 1 .. position \subseteq Offsets
      /\ 1 .. tracked' = 1 .. tracked /\ 1 .. tracked \subseteq Offsets
  <2>1. /\ Offsets = 1 .. Len(topic) /\ Len(topic) \in Nat /\ first \in Nat
        /\ position \in 0 .. Len(topic) /\ tracked \in 0 .. Len(topic)
    BY TypeFacts
  <2>2. first + 1 .. position \subseteq Offsets /\ 1 .. tracked \subseteq Offsets
    BY <2>1
  <2> QED
    BY <1>1, <2>2
<1>4. Consumed' = Consumed /\ Tracked' = Tracked
  BY <1>2, <1>3 DEF Consumed, Tracked
<1>5. \A i \in Consumed \cup Tracked : topic'[i] = topic[i]
  BY <1>2, LineFacts, TrackedFacts
<1>6. ASSUME NEW s \in Sensors, Hot(s) PROVE Hot(s)'
  <2>1. Handled' = Handled /\ Handled \subseteq Consumed
    BY <1>1, <1>4 DEF Handled
  <2>2. \A i : (Newest(i, Handled) \/ Newest(i, Tracked)) =>
                  topic'[i] = topic[i] /\ (Newest(i, Handled)' \/ Newest(i, Tracked)')
    BY <1>4, <1>5, <2>1 DEF Newest
  <2> QED
    BY <1>1, <1>6, <2>2 DEF Hot
<1> QED
  BY <1>1, <1>4, <1>6 DEF HotLine

LEMMA ConsumeHot ==
  ASSUME TypeOK, HotLine, Consume
  PROVE  HotLine'
<1> DEFINE i == position + 1
<1>1. /\ position < Len(topic) /\ position' = i /\ reading = NoReading
      /\ UNCHANGED <<topic, first, base, hot, tracked, faults>>
  BY DEF Consume, life
<1>2. i \in Nat /\ position \in Nat /\ first \in Nat /\ first <= position /\ i # NoReading
  BY <1>1, TypeFacts DEF NoReading
<1>3. first' + 1 .. position' = (first + 1 .. position) \cup {i} /\ i \notin first + 1 .. position
  BY <1>1, <1>2
<1>4. NoReading \notin Consumed /\ Tracked' = Tracked
  BY <1>1, TrackedFacts DEF Tracked
<1> HIDE DEF i
<1>5. CASE topic[position + 1].payload = "invalid"
  <2>1. Consumed' = Consumed /\ reading' = reading
    BY <1>1, <1>3, <1>5 DEF Consumed, Consume, i
  <2>2. reading' = NoReading
    BY <1>1, <2>1
  <2>3. faults = 0 => \A s \in Sensors : Hot(s)'
    BY <1>1, <1>4, <2>1 DEF HotLine, Hot, Handled, Newest
  <2> QED
    BY <1>1, <2>2, <2>3 DEF HotLine
<1>6. CASE topic[position + 1].payload # "invalid"
  <2>1. Consumed' = Consumed \cup {i} /\ reading' = i /\ i \notin Consumed
    BY <1>1, <1>3, <1>6 DEF Consumed, Consume, i
  <2>2. Handled' = Handled
    BY <1>1, <1>4, <2>1 DEF Handled
  <2>3. faults = 0 => \A s \in Sensors : Hot(s)'
    BY <1>1, <1>4, <2>2 DEF HotLine, Hot, Newest
  <2> QED
    BY <1>1, <2>1, <2>3 DEF HotLine
<1> QED
  BY <1>5, <1>6

(* Storing a reading newer than all that was handled before.                 *)
LEMMA StoreNewest ==
  ASSUME TypeOK, NEW j \in Offsets, NEW s \in Sensors, Hot(s),
         hot' = [hot EXCEPT ![topic[j].sensor] = j], topic' = topic,
         \/ Newest(j, Handled)' \/ Newest(j, Tracked)',
         topic[j].sensor # s /\ topic[hot[s]].sensor = s /\ hot'[s] = hot[s] =>
           /\ Newest(hot[s], Handled) => Newest(hot[s], Handled)'
           /\ Newest(hot[s], Tracked) => Newest(hot[s], Tracked)'
  PROVE  Hot(s)'
<1>1. hot \in [Sensors -> {NoReading} \cup Offsets]
  BY TypeFacts
<1>2. CASE topic[j].sensor = s
  <2>1. hot'[s] = j
    BY <1>1, <1>2
  <2> QED
    BY <1>2, <2>1 DEF Hot, Newest
<1>3. CASE topic[j].sensor # s
  <2>1. hot'[s] = hot[s]
    BY <1>1, <1>3
  <2> QED
    BY <1>3, <2>1 DEF Hot, Newest
<1> QED
  BY <1>2, <1>3

LEMMA UpdateHot ==
  ASSUME TypeOK, HotLine, UpdateHotState
  PROVE  HotLine'
<1>1. /\ reading # NoReading /\ reading' = NoReading
      /\ hot' = [hot EXCEPT ![topic[reading].sensor] = reading]
      /\ UNCHANGED <<topic, position, first, base, tracked, faults>>
  BY DEF UpdateHotState, NewHot, kafka, life
<1>2. /\ reading = position /\ reading \in Consumed /\ reading \in Offsets
      /\ Consumed' = Consumed /\ Tracked' = Tracked
  BY <1>1, LineFacts DEF HotLine, Consumed, Tracked
<1>3. Handled' = Consumed
  BY <1>1, <1>2, TrackedFacts DEF Handled
<1>4. Newest(reading, Consumed)
  BY <1>2, LineFacts DEF Newest
<1>5. ASSUME faults = 0, NEW s \in Sensors PROVE Hot(s)'
  <2>1. Hot(s)
    BY <1>5 DEF HotLine
  <2>2. PICK j \in Offsets : j = reading
    BY <1>2
  <2>3. Newest(j, Handled)'
    BY <1>1, <1>3, <1>4, <2>2 DEF Newest
  <2>4. ASSUME topic[j].sensor # s, topic[hot[s]].sensor = s, hot'[s] = hot[s]
        PROVE  /\ Newest(hot[s], Handled) => Newest(hot[s], Handled)'
               /\ Newest(hot[s], Tracked) => Newest(hot[s], Tracked)'
    BY <1>1, <1>2, <1>3, <2>2, <2>4 DEF Newest, Handled
  <2> QED
    BY <1>1, <1>5, <2>1, <2>2, <2>3, <2>4, StoreNewest
<1> QED
  BY <1>1, <1>5 DEF HotLine

LEMMA TrackHot ==
  ASSUME TypeOK, HotLine, Track
  PROVE  HotLine'
<1> DEFINE t == tracked + 1
<1>1. /\ tracked < Len(topic) /\ tracked' = t
      /\ UNCHANGED <<topic, position, reading, first, base, faults>>
  BY DEF Track, kafka, process, life
<1>2. t \in Offsets /\ tracked \in Nat /\ 1 .. tracked' = (1 .. tracked) \cup {t}
  <2>1. Offsets = 1 .. Len(topic) /\ Len(topic) \in Nat /\ tracked \in 0 .. Len(topic)
    BY TypeFacts
  <2>2. tracked \in Nat /\ t \in 1 .. Len(topic)
    BY <1>1, <2>1
  <2>3. 1 .. t = (1 .. tracked) \cup {t}
    BY <2>2
  <2> QED
    BY <1>1, <2>1, <2>2, <2>3
<1>3. Consumed' = Consumed /\ Handled' = Handled
  BY <1>1 DEF Consumed, Handled
<1> HIDE DEF t
<1>4. CASE topic[t].payload = "invalid"
  <2>1. hot' = hot /\ Tracked' = Tracked
    BY <1>1, <1>2, <1>4 DEF Track, Tracked, t
  <2> QED
    BY <1>1, <1>3, <2>1, HotStays
<1>5. CASE topic[t].payload # "invalid"
  <2>1. hot' = [hot EXCEPT ![topic[t].sensor] = t]
    BY <1>5 DEF Track, t
  <2>2. Tracked' = Tracked \cup {t}
    BY <1>1, <1>2, <1>5 DEF Tracked
  <2>3. ASSUME NEW j \in Tracked PROVE j <= t
    <3>1. j \in Nat /\ j <= tracked
      BY TypeFacts, TrackedFacts
    <3>2. tracked \in Nat /\ t = tracked + 1
      BY <1>2 DEF t
    <3> QED
      BY <3>1, <3>2
  <2>4. PICK j \in Offsets : j = t
    BY <1>2
  <2>5. Newest(j, Tracked)'
    <3>1. j \in Nat /\ j <= j
      BY TypeFacts
    <3>2. j \in Tracked' /\ \A k \in Tracked' : k <= j
      BY <2>2, <2>3, <2>4, <3>1
    <3> QED
      BY <3>2 DEF Newest
  <2>6. ASSUME faults = 0, NEW s \in Sensors PROVE Hot(s)'
    <3>1. Hot(s)
      BY <2>6 DEF HotLine
    <3>2. ASSUME topic[j].sensor # s, topic[hot[s]].sensor = s, hot'[s] = hot[s]
          PROVE  /\ Newest(hot[s], Handled) => Newest(hot[s], Handled)'
                 /\ Newest(hot[s], Tracked) => Newest(hot[s], Tracked)'
      BY <1>1, <1>3, <2>2, <2>4, <3>2 DEF Newest
    <3> QED
      BY <1>1, <2>1, <2>4, <2>5, <3>1, <3>2, StoreNewest
  <2> QED
    BY <1>1, <1>3, <2>6 DEF HotLine
<1> QED
  BY <1>4, <1>5

LEMMA ExpireHotLine ==
  ASSUME TypeOK, HotLine, NEW u \in Sensors, ExpireHot(u)
  PROVE  HotLine'
<1>1. /\ hot' = [hot EXCEPT ![u] = NoReading]
      /\ UNCHANGED <<topic, position, first, base, tracked, faults, reading>>
  BY DEF ExpireHot, kafka, process, life
<1>2. Consumed' = Consumed /\ Tracked' = Tracked /\ Handled' = Handled
  BY <1>1 DEF Consumed, Tracked, Handled
<1>3. \A s \in Sensors : hot'[s] = hot[s] \/ hot'[s] = NoReading
  BY <1>1, TypeFacts
<1> QED
  BY <1>1, <1>2, <1>3 DEF HotLine, Hot, Newest

LEMMA NextHot == TypeOK /\ HotLine /\ [Next]_vars => HotLine'
<1> SUFFICES ASSUME TypeOK, HotLine, [Next]_vars PROVE HotLine'
  OBVIOUS
<1>1. CASE TakeBatch \/ InsertBatch \/ AutoCommit \/ UNCHANGED vars
  <2>1. UNCHANGED <<topic, reading, position, first, faults, base, hot, tracked>>
    BY <1>1 DEF TakeBatch, InsertBatch, AutoCommit, vars, kafka, process, life
  <2>2. Consumed' = Consumed /\ Tracked' = Tracked
    BY <2>1 DEF Consumed, Tracked
  <2> QED
    BY <2>1, <2>2, HotStays
<1>2. CASE InsertError \/ TrackerRestart
  <2>1. Fault /\ UNCHANGED <<topic, position, first, reading>>
    BY <1>2 DEF InsertError, TrackerRestart, kafka, process, life
  <2>2. Consumed' = Consumed
    BY <2>1 DEF Consumed
  <2> QED
    BY <2>1, <2>2, FaultHot DEF HotLine
<1>3. CASE HotStateError \/ Crash \/ Shutdown
  <2>1. Fault /\ reading' = NoReading
    BY <1>3 DEF HotStateError, Crash, Shutdown, ResumeAt
  <2> QED
    BY <2>1, FaultHot
<1> QED
  BY <1>1, <1>2, <1>3, PublishHot, ConsumeHot, UpdateHot, TrackHot, ExpireHotLine
  DEF Next, ConsumerStep, WriterStep

(* The newest reading of a sensor among those handled is the last of them.   *)
LEMMA NewestIsLast ==
  ASSUME NEW s, NEW handled, handled \subseteq Nat, NEW i, Newest(i, handled), topic[i].sensor = s
  PROVE  LastOf(s, handled) = i
<1> DEFINE own == {j \in handled : topic[j].sensor = s}
<1>1. i \in own /\ own \subseteq Nat /\ \A j \in own : j <= i
  BY DEF Newest
<1>2. LastOf(s, handled) = IF own = {} THEN NoReading ELSE CHOOSE j \in own : \A k \in own : k <= j
  BY DEF LastOf
<1> HIDE DEF own
<1>3. \A j \in own : (\A k \in own : k <= j) => j = i
  BY <1>1
<1>4. (CHOOSE j \in own : \A k \in own : k <= j) = i
  BY <1>1, <1>3
<1> QED
  BY <1>1, <1>2, <1>4

(* Until something fails, and save for the reading in hand, the hot state of a
   sensor is the newest that one of its two writers has handled, or expired. *)
THEOREM HotStateFreshAlways == Spec => []HotStateFresh
<1>1. TypeOK /\ HotLine => HotStateFresh
  <2> SUFFICES ASSUME TypeOK, HotLine, reading = NoReading, faults = 0, NEW s \in Sensors,
                      hot[s] # NoReading
               PROVE  hot[s] \in {LastOf(s, Consumed), LastOf(s, Tracked)}
    BY DEF HotStateFresh
  <2>1. /\ topic[hot[s]].sensor = s
        /\ Newest(hot[s], Handled) \/ Newest(hot[s], Tracked)
    BY DEF HotLine, Hot
  <2>2. Handled = Consumed /\ Consumed \subseteq Nat /\ Tracked \subseteq Nat
    BY LineFacts, TrackedFacts, TypeFacts DEF Handled
  <2>3. CASE Newest(hot[s], Consumed)
    BY <2>1, <2>2, <2>3, NewestIsLast
  <2>4. CASE Newest(hot[s], Tracked)
    BY <2>1, <2>2, <2>4, NewestIsLast
  <2> QED
    BY <2>1, <2>2, <2>3, <2>4
<1> QED
  BY <1>1, InitType, NextType, InitHot, NextHot, PTL DEF Spec

(* Until something fails the query API is behind the table only by readings
   that one of the two writers of the hot state has yet to handle.          *)
THEOREM AnswerUpToDateAlways == Spec => []AnswerUpToDate
<1>1. TypeOK /\ HotLine /\ Line => AnswerUpToDate
  <2> SUFFICES ASSUME TypeOK, HotLine, Line, faults = 0, NEW s \in Sensors, NEW i \in RowsOf(s),
                      NEW a \in Latest(s), i # reading, ~(i > tracked), ~(i <= a)
               PROVE  topic[i].ts <= topic[a].ts
    BY DEF AnswerUpToDate
  <2>1. i \in ToSet(rows) /\ topic[i].sensor = s
    BY DEF RowsOf
  <2>2. i \in Consumed
    <3>1. ToSet(rows) = {rows[k] : k \in 1 .. Len(rows)}
      BY TypeFacts, ElementsOf
    <3>2. WrittenAt = 1 .. Len(rows)
      BY DEF HotLine, WrittenAt
    <3>3. ToSet(rows) = Written
      BY <3>1, <3>2 DEF Written
    <3> QED
      BY <2>1, <3>3 DEF Line, WrittenInOrder
  <2>3. CASE Parses(hot[s])
    <3>1. a = hot[s] /\ hot[s] # NoReading
      BY <2>3 DEF Latest, Parses
    <3>2. i \in Handled /\ i \in Tracked
      <4>1. i \in Nat /\ i >= 1 /\ topic[i].payload # "invalid"
        BY <2>2, LineFacts, TypeFacts DEF Consumed
      <4>2. i \in 1 .. tracked
        BY <4>1, TrackedFacts
      <4> QED
        BY <2>2, <4>1, <4>2 DEF Handled, Tracked
    <3>3. Hot(s)
      BY DEF HotLine
    <3> QED
      BY <2>1, <3>1, <3>2, <3>3 DEF Hot, Newest
  <2>4. CASE ~Parses(hot[s])
    BY <2>4 DEF Latest, NewestRows
  <2> QED
    BY <2>3, <2>4
<1> QED
  BY <1>1, InitType, NextType, InitLine, NextLine, InitHot, NextHot, PTL DEF Spec
=============================================================================
