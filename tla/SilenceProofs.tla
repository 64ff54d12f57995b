--------------------------- MODULE SilenceProofs ---------------------------
(* Theorems about the detection of silent and faulty sensors, for any        *)
(* TTLs, timeout, lag and number of readings on their way.                   *)
EXTENDS Silence, SequenceTheorems, TLAPS

LEMMA Parameters ==
  /\ FaultMin \in Nat /\ FaultMin >= 1 /\ FaultMax \in Nat
  /\ HotTTL \in Nat /\ HotTTL >= 1 /\ MarkTTL \in Nat /\ MarkTTL >= 2
  /\ Timeout \in Nat /\ Timeout >= 2 /\ MaxLag \in Nat /\ MaxLag >= 1 /\ 2 * MaxLag <= Timeout
  /\ MaxFlight \in Nat /\ MaxFlight >= 1
  /\ LongerTTL = 2 * Timeout /\ LongerTTL \in Nat /\ LongerTTL >= Timeout + 2
  /\ AgeMax = LongerTTL + MarkTTL + MaxLag /\ AgeMax \in Nat
BY SilenceAssumption DEF LongerTTL, AgeMax

-----------------------------------------------------------------------------
(* A queue of readings: what appending, taking and waiting do to it.        *)

LEMMA QueueIsFunction ==
  ASSUME NEW q \in Seq(Flight)
  PROVE  /\ Len(q) \in Nat /\ q \in [1 .. Len(q) -> Flight]
         /\ \A i \in 1 .. Len(q) : q[i] \in Flight /\ q[i].age \in 0 .. MaxLag
                                   /\ q[i].age \in Nat
         /\ q = <<>> <=> Len(q) = 0
<1>1. Len(q) \in Nat /\ q \in [1 .. Len(q) -> Flight] /\ (q = <<>> <=> Len(q) = 0)
  BY LenProperties, EmptySeq
<1>2. \A i \in 1 .. Len(q) : q[i] \in Flight
  BY <1>1
<1> QED
  BY <1>1, <1>2, Parameters DEF Flight

LEMMA QueueAppend ==
  ASSUME NEW q \in Seq(Flight), NEW x \in Flight
  PROVE  /\ Append(q, x) \in Seq(Flight) /\ Len(Append(q, x)) = Len(q) + 1
         /\ Append(q, x)[Len(q) + 1] = x
         /\ \A i \in 1 .. Len(q) : Append(q, x)[i] = q[i]
BY AppendProperties

LEMMA QueueTail ==
  ASSUME NEW q \in Seq(Flight), q # <<>>
  PROVE  /\ Tail(q) \in Seq(Flight) /\ Len(Tail(q)) = Len(q) - 1 /\ Len(q) >= 1
         /\ Head(q) = q[1] /\ Head(q) \in Flight
         /\ \A i \in 1 .. Len(q) - 1 : Tail(q)[i] = q[i + 1]
<1>1. Len(q) \in Nat /\ Len(q) >= 1
  BY QueueIsFunction
<1>2. Tail(q) \in Seq(Flight) /\ Len(Tail(q)) = Len(q) - 1
      /\ \A i \in 1 .. Len(Tail(q)) : Tail(q)[i] = q[i + 1]
  BY HeadTailProperties
<1>3. Head(q) = q[1] /\ q[1] \in Flight
  BY <1>1, QueueIsFunction
<1> QED
  BY <1>1, <1>2, <1>3

LEMMA QueueWaits ==
  ASSUME NEW q \in Seq(Flight), OnTime(q)
  PROVE  /\ Waiting(q) \in Seq(Flight) /\ Len(Waiting(q)) = Len(q)
         /\ \A i \in 1 .. Len(q) : Waiting(q)[i].age = q[i].age + 1 /\ q[i].age < MaxLag
                                   /\ Waiting(q)[i].status = q[i].status
<1> DEFINE w == Waiting(q)
<1>1. Len(q) \in Nat /\ \A i \in 1 .. Len(q) : q[i] \in Flight /\ q[i].age < MaxLag
  BY QueueIsFunction DEF OnTime
<1>2. \A i \in 1 .. Len(q) : /\ w[i] \in Flight /\ w[i].age = q[i].age + 1
                             /\ w[i].status = q[i].status
  <2> SUFFICES ASSUME NEW i \in 1 .. Len(q)
               PROVE  w[i] \in Flight /\ w[i].age = q[i].age + 1 /\ w[i].status = q[i].status
    OBVIOUS
  <2>1. w[i] = [q[i] EXCEPT !.age = @ + 1]
    BY DEF Waiting
  <2> HIDE DEF w
  <2>2. q[i] \in Flight /\ q[i].age < MaxLag
    BY <1>1
  <2>3. PICK a \in 0 .. MaxLag, b \in {0, 1} : q[i] = [status |-> b, age |-> a]
    BY <2>2 DEF Flight
  <2>4. w[i] = [status |-> b, age |-> a + 1] /\ a < MaxLag
    BY <2>1, <2>2, <2>3
  <2> QED
    BY <2>3, <2>4, Parameters DEF Flight
<1>3. w \in [1 .. Len(q) -> Flight]
  BY <1>2 DEF Waiting
<1>4. w \in Seq(Flight) /\ Len(w) = Len(q)
  BY <1>1, <1>3, SeqDef, LenProperties
<1> QED
  BY <1>1, <1>2, <1>4

-----------------------------------------------------------------------------
(* Type correctness, one part of it per process.                            *)

SensorType ==
  /\ running \in BOOLEAN /\ published \in BOOLEAN /\ arrived \in BOOLEAN
  /\ remaining \in 0 .. FaultMax
QueueType ==
  /\ telemetry \in Seq(Flight) /\ Len(telemetry) <= MaxFlight
  /\ engine \in Seq(Flight) /\ Len(engine) <= MaxFlight
  /\ tracked \in BOOLEAN /\ (tracked => engine # <<>>) /\ missed \in BOOLEAN
Keys == [age : 0 .. AgeMax, left : 1 .. HotTTL + LongerTTL]
KeyType ==
  /\ latest \subseteq Keys
  /\ marked \in 0 .. MarkTTL /\ engineLast \in BOOLEAN /\ heard \in 0 .. AgeMax
WatchType ==
  /\ scanned \in BOOLEAN /\ scan \in Idle .. AgeMax
  /\ quiet \in 0 .. AgeMax /\ cause \in 0 .. AgeMax /\ status \in {0, 1}

LEMMA InitType == Init => TypeOK
<1> SUFFICES ASSUME Init PROVE SensorType /\ QueueType /\ KeyType /\ WatchType
  BY DEF TypeOK, SensorType, QueueType, KeyType, WatchType, Keys
<1> USE Parameters
<1>0. /\ remaining = 0 /\ telemetry = <<>> /\ engine = <<>> /\ latest = {} /\ marked = 0
      /\ scan = Idle /\ quiet = AgeMax /\ heard = AgeMax /\ cause = 0 /\ status = 1
  BY DEF Init
<1>1. SensorType
  <2>1. remaining \in 0 .. FaultMax
    BY <1>0
  <2> QED
    BY <2>1, Zenon DEF Init, SensorType
<1>2. QueueType
  <2>1. <<>> \in Seq(Flight) /\ Len(<<>>) = 0
    BY EmptySeq
  <2>2. /\ telemetry \in Seq(Flight) /\ Len(telemetry) <= MaxFlight
        /\ engine \in Seq(Flight) /\ Len(engine) <= MaxFlight
    BY <1>0, <2>1
  <2> QED
    BY <2>2, Zenon DEF Init, QueueType
<1>3. KeyType
  <2>1. latest \subseteq Keys /\ marked \in 0 .. MarkTTL /\ heard \in 0 .. AgeMax
    BY <1>0
  <2> QED
    BY <2>1, Zenon DEF Init, KeyType
<1>4. WatchType
  <2>1. /\ scan \in Idle .. AgeMax /\ quiet \in 0 .. AgeMax /\ cause \in 0 .. AgeMax
        /\ status \in {0, 1}
    BY <1>0 DEF Idle
  <2> QED
    BY <2>1, Zenon DEF Init, WatchType
<1> QED
  BY <1>1, <1>2, <1>3, <1>4

(* Storing takes the head of a queue; its age is a lag.                     *)
LEMMA SetType ==
  ASSUME TypeOK, NEW age \in 0 .. MaxLag, NEW ttl \in {HotTTL, LongerTTL}, Set(age, ttl)
  PROVE  latest' \subseteq Keys /\ heard' \in 0 .. AgeMax
<1> USE Parameters
<1>1. latest' = {[age |-> age, left |-> ttl]}
  BY DEF Set, Overwritten
<1>2. [age |-> age, left |-> ttl] \in Keys
  BY DEF Keys
<1>3. heard' \in 0 .. AgeMax
  BY DEF Set, TypeOK
<1> QED
  BY <1>1, <1>2, <1>3

LEMMA CycleType ==
  ASSUME TypeOK, Cycle
  PROVE  TypeOK'
<1>1. PICK drawn \in {0} \cup FaultMin .. FaultMax :
        /\ remaining' = Countdown(drawn)
        /\ Suppress(drawn) \/ Transmit(drawn)
  BY DEF Cycle
<1>2. remaining \in 0 .. FaultMax /\ remaining' \in 0 .. FaultMax
  <2>1. remaining \in 0 .. FaultMax
    BY DEF TypeOK
  <2>2. CASE remaining > 0
    BY <1>1, <2>1, <2>2, Parameters DEF Countdown
  <2>3. CASE remaining = 0
    BY <1>1, <2>1, <2>3, Parameters DEF Countdown
  <2> QED
    BY <2>1, <2>2, <2>3, Parameters
<1>3. published' \in BOOLEAN /\ arrived' \in BOOLEAN
  BY <1>1 DEF Suppress, Transmit, TypeOK
<1>4. SensorType'
  BY <1>2, <1>3 DEF Cycle, SensorType, TypeOK
<1>5. QueueType' /\ quiet' \in 0 .. AgeMax
  <2>1. CASE UNCHANGED <<telemetry, engine, quiet>>
    BY <2>1 DEF Cycle, QueueType, TypeOK
  <2>2. CASE \E st \in {0, 1} : Ingest(st)
    <3>1. PICK st \in {0, 1} : Ingest(st)
      BY <2>2
    <3> DEFINE x == [status |-> st, age |-> 0]
    <3>2. x \in Flight
      BY Parameters DEF Flight
    <3>3. /\ telemetry' = Append(telemetry, x) /\ engine' = Append(engine, x) /\ quiet' = 0
          /\ Len(telemetry) < MaxFlight /\ Len(engine) < MaxFlight
          /\ tracked' = tracked /\ missed' = missed
      BY <3>1 DEF Ingest, Cycle
    <3> HIDE DEF x
    <3>4. telemetry \in Seq(Flight) /\ engine \in Seq(Flight)
          /\ tracked \in BOOLEAN /\ missed \in BOOLEAN
      BY DEF TypeOK
    <3>5. telemetry' \in Seq(Flight) /\ Len(telemetry') = Len(telemetry) + 1
      BY <3>2, <3>3, <3>4, QueueAppend
    <3>6. engine' \in Seq(Flight) /\ Len(engine') = Len(engine) + 1
      BY <3>2, <3>3, <3>4, QueueAppend
    <3>7. Len(telemetry) \in Nat /\ Len(engine) \in Nat /\ engine' # <<>>
      BY <3>4, <3>6, QueueIsFunction
    <3>8. QueueType'
      BY <3>3, <3>4, <3>5, <3>6, <3>7, Parameters DEF QueueType
    <3> QED
      BY <3>3, <3>8, Parameters
  <2> QED
    BY <1>1, <2>1, <2>2 DEF Suppress, Transmit
<1>6. KeyType'
  BY DEF Cycle, KeyType, TypeOK, redis, Keys
<1>7. WatchType'
  BY <1>5 DEF Cycle, WatchType, TypeOK, watchdog
<1> QED
  BY <1>4, <1>5, <1>6, <1>7 DEF TypeOK, SensorType, QueueType, KeyType, WatchType, Keys

LEMMA StoreHotType ==
  ASSUME TypeOK, StoreHot
  PROVE  TypeOK'
<1>1. /\ telemetry # <<>> /\ Set(Head(telemetry).age, HotTTL) /\ telemetry' = Tail(telemetry)
      /\ engineLast' = FALSE /\ missed' = FALSE
      /\ UNCHANGED <<sensor, engine, tracked, marked, watchdog, arrived, quiet, cause, status>>
  BY DEF StoreHot
<1>2. /\ telemetry' \in Seq(Flight) /\ Len(telemetry') = Len(telemetry) - 1
      /\ Head(telemetry) \in Flight
  BY <1>1, QueueTail DEF TypeOK
<1>3. QueueType'
  <2>1. Len(telemetry') <= MaxFlight
    BY <1>2, QueueIsFunction, Parameters DEF TypeOK
  <2> QED
    BY <1>1, <1>2, <2>1 DEF QueueType, TypeOK
<1>4. latest' \subseteq Keys /\ heard' \in 0 .. AgeMax
  BY <1>1, <1>2, SetType DEF Flight
<1>5. KeyType'
  BY <1>1, <1>4 DEF KeyType, TypeOK
<1>6. SensorType' /\ WatchType'
  BY <1>1 DEF SensorType, WatchType, TypeOK, sensor, watchdog
<1> QED
  BY <1>3, <1>5, <1>6 DEF TypeOK, SensorType, QueueType, KeyType, WatchType, Keys

LEMMA SkipHotType ==
  ASSUME TypeOK, SkipHot
  PROVE  TypeOK'
<1>1. /\ telemetry # <<>> /\ telemetry' = Tail(telemetry) /\ missed' = TRUE
      /\ UNCHANGED <<sensor, engine, tracked, redis, watchdog, history>>
  BY DEF SkipHot
<1>2. telemetry' \in Seq(Flight) /\ Len(telemetry') = Len(telemetry) - 1
  BY <1>1, QueueTail DEF TypeOK
<1>3. QueueType'
  <2>1. Len(telemetry') <= MaxFlight
    BY <1>2, QueueIsFunction, Parameters DEF TypeOK
  <2> QED
    BY <1>1, <1>2, <2>1 DEF QueueType, TypeOK
<1>4. SensorType' /\ KeyType' /\ WatchType'
  BY <1>1 DEF SensorType, KeyType, WatchType, TypeOK, sensor, redis, watchdog, history, Keys
<1> QED
  BY <1>3, <1>4 DEF TypeOK, SensorType, QueueType, KeyType, WatchType, Keys

LEMMA StoreLatestType ==
  ASSUME TypeOK, StoreLatest
  PROVE  TypeOK'
<1>1. /\ tracked /\ Set(Head(engine).age, LongerTTL) /\ engine' = Tail(engine)
      /\ tracked' = FALSE /\ engineLast' = TRUE
      /\ UNCHANGED <<sensor, telemetry, missed, marked, watchdog, arrived, quiet, cause, status>>
  BY DEF StoreLatest, LatestTTL
<1>2. engine # <<>>
  BY <1>1 DEF TypeOK
<1>3. /\ engine' \in Seq(Flight) /\ Len(engine') = Len(engine) - 1
      /\ Head(engine) \in Flight
  BY <1>1, <1>2, QueueTail DEF TypeOK
<1>4. QueueType'
  <2>1. Len(engine') <= MaxFlight
    BY <1>3, QueueIsFunction, Parameters DEF TypeOK
  <2> QED
    BY <1>1, <1>3, <2>1 DEF QueueType, TypeOK
<1>5. latest' \subseteq Keys /\ heard' \in 0 .. AgeMax
  BY <1>1, <1>3, SetType DEF Flight
<1>6. KeyType'
  BY <1>1, <1>5 DEF KeyType, TypeOK
<1>7. SensorType' /\ WatchType'
  BY <1>1 DEF SensorType, WatchType, TypeOK, sensor, watchdog
<1> QED
  BY <1>4, <1>6, <1>7 DEF TypeOK, SensorType, QueueType, KeyType, WatchType, Keys

LEMMA TrackType ==
  ASSUME TypeOK, Track
  PROVE  TypeOK'
<1>1. /\ engine # <<>> /\ tracked' = TRUE /\ status' = Head(engine).status
      /\ marked' = (IF status' = 0 THEN MarkTTL ELSE 0) /\ cause' = 0
      /\ UNCHANGED <<sensor, telemetry, engine, missed, latest, watchdog, arrived, quiet, heard,
                     engineLast>>
  BY DEF Track
<1>2. Head(engine) \in Flight
  BY <1>1, QueueTail DEF TypeOK
<1>3. status' \in {0, 1}
  BY <1>1, <1>2 DEF Flight
<1>4. QueueType' /\ SensorType'
  BY <1>1 DEF QueueType, SensorType, TypeOK, sensor
<1>5. KeyType'
  BY <1>1, Parameters DEF KeyType, TypeOK, Keys
<1>6. WatchType'
  BY <1>1, <1>3, Parameters DEF WatchType, TypeOK, watchdog
<1> QED
  BY <1>4, <1>5, <1>6 DEF TypeOK, SensorType, QueueType, KeyType, WatchType, Keys

LEMMA WatchdogType ==
  ASSUME TypeOK, Look \/ Mark
  PROVE  TypeOK'
<1>1. SensorType' /\ QueueType'
  BY DEF Look, Mark, SensorType, QueueType, TypeOK, sensor, topic, history
<1>2. KeyType'
  <2>1. latest' = latest /\ engineLast' = engineLast /\ heard' = heard
    BY DEF Look, Mark, redis, history
  <2>2. latest \subseteq Keys /\ engineLast \in BOOLEAN /\ heard \in 0 .. AgeMax
    BY Zenon DEF TypeOK, Keys
  <2>3. marked' \in {marked, MarkTTL}
    BY DEF Look, Mark, redis
  <2>4. marked' \in 0 .. MarkTTL
    BY <2>3, Parameters DEF TypeOK
  <2> QED
    BY Zenon, <2>1, <2>2, <2>4 DEF KeyType, Keys
<1>3. scan' \in Idle .. AgeMax /\ scanned' \in BOOLEAN
  <2>1. scanned' \in BOOLEAN
    BY Zenon DEF Look, Mark, TypeOK
  <2>2. scan' \in {scan, heard, Idle}
    BY DEF Look, Mark
  <2> QED
    BY <2>1, <2>2, Parameters DEF TypeOK, Idle
<1>4. cause' \in 0 .. AgeMax
  BY Parameters DEF Look, Mark, TypeOK, Idle, history
<1>5. WatchType'
  BY <1>3, <1>4 DEF Look, Mark, WatchType, TypeOK, history
<1> QED
  BY <1>1, <1>2, <1>5 DEF TypeOK, SensorType, QueueType, KeyType, WatchType, Keys

LEMMA OlderType ==
  ASSUME NEW age \in 0 .. AgeMax
  PROVE  Older(age) \in 0 .. AgeMax
BY Parameters DEF Older

LEMMA TickType ==
  ASSUME TypeOK, Tick
  PROVE  TypeOK'
<1>1. /\ OnTime(telemetry) /\ OnTime(engine)
      /\ telemetry' = Waiting(telemetry) /\ engine' = Waiting(engine)
      /\ latest' = {[age |-> Older(r.age), left |-> r.left - 1] :
                      r \in {r \in latest : r.left > 1}}
      /\ marked' = (IF marked > 0 THEN marked - 1 ELSE 0)
      /\ quiet' = Older(quiet) /\ heard' = Older(heard) /\ scanned' = FALSE
      /\ UNCHANGED <<running, remaining, published, tracked, missed, scan, arrived, cause,
                     status, engineLast>>
  BY DEF Tick
<1>2. /\ telemetry' \in Seq(Flight) /\ Len(telemetry') = Len(telemetry)
      /\ engine' \in Seq(Flight) /\ Len(engine') = Len(engine)
  BY <1>1, QueueWaits DEF TypeOK
<1>3. engine' = <<>> => engine = <<>>
  BY <1>2, QueueIsFunction DEF TypeOK
<1>4. SensorType' /\ QueueType'
  BY <1>1, <1>2, <1>3 DEF SensorType, QueueType, TypeOK
<1>5. quiet' \in 0 .. AgeMax /\ heard' \in 0 .. AgeMax
  BY <1>1, OlderType DEF TypeOK
<1>6. latest' \subseteq Keys
  <2> SUFFICES ASSUME NEW r \in latest, r.left > 1
               PROVE  [age |-> Older(r.age), left |-> r.left - 1] \in Keys
    BY <1>1
  <2>1. r.age \in 0 .. AgeMax /\ r.left \in 1 .. HotTTL + LongerTTL
    BY DEF TypeOK
  <2>2. r.left - 1 \in 1 .. HotTTL + LongerTTL
    BY <2>1, Parameters
  <2> QED
    BY <2>1, <2>2, OlderType DEF Keys
<1>7. marked' \in 0 .. MarkTTL
  BY <1>1, Parameters DEF TypeOK
<1>8. KeyType'
  BY <1>1, <1>5, <1>6, <1>7 DEF KeyType, TypeOK
<1>9. WatchType'
  BY <1>1, <1>5 DEF WatchType, TypeOK
<1> QED
  BY <1>4, <1>8, <1>9 DEF TypeOK, SensorType, QueueType, KeyType, WatchType, Keys

LEMMA NextType == TypeOK /\ [Next]_vars => TypeOK'
<1> SUFFICES ASSUME TypeOK, [Next]_vars PROVE TypeOK'
  OBVIOUS
<1>1. CASE UNCHANGED vars
  BY <1>1 DEF vars, sensor, topic, redis, watchdog, history, TypeOK
<1>2. CASE StartSensor \/ StopSensor
  <2>1. SensorType'
    <3>1. remaining' \in 0 .. FaultMax
      BY <1>2, Parameters DEF StartSensor, StopSensor, TypeOK
    <3>2. running' \in BOOLEAN /\ published' \in BOOLEAN /\ arrived' \in BOOLEAN
      BY <1>2, Zenon DEF StartSensor, StopSensor, TypeOK, history
    <3> QED
      BY <3>1, <3>2 DEF SensorType
  <2>2. QueueType' /\ KeyType' /\ WatchType'
    BY <1>2 DEF StartSensor, StopSensor, QueueType, KeyType, WatchType, TypeOK,
       topic, redis, watchdog, history, Keys
  <2> QED
    BY <2>1, <2>2 DEF TypeOK, SensorType, QueueType, KeyType, WatchType, Keys
<1> QED
  BY <1>1, <1>2, CycleType, StoreHotType, SkipHotType, TrackType, StoreLatestType,
     WatchdogType, TickType
  DEF Next

(* The ages, the time to live of the keys and the readings on their way keep
   their ranges.                                                            *)
THEOREM TypeCorrect == Spec => []TypeOK
<1> QED
  BY InitType, NextType, PTL DEF Spec

-----------------------------------------------------------------------------
(* The ages of the readings a consumer has still to handle: oldest first, and
   the last is the newest reading that came in, of age n.                    *)

Ages(q) == {q[i].age : i \in 1 .. Len(q)}
Ordered(q) == \A i, j \in 1 .. Len(q) : i <= j => q[j].age <= q[i].age
EndsWith(q, n) == \A i \in 1 .. Len(q) : i = Len(q) => q[i].age = n
Line(q, n) == Ordered(q) /\ EndsWith(q, n)

LEMMA LineFacts ==
  ASSUME NEW q \in Seq(Flight), NEW n \in Nat, Line(q, n)
  PROVE  /\ \A a \in Ages(q) : a \in Nat /\ a <= MaxLag
         /\ q = <<>> => Ages(q) = {}
         /\ q # <<>> => /\ n \in Ages(q) /\ q[1].age \in Ages(q)
                        /\ \A a \in Ages(q) : n <= a /\ a <= q[1].age
<1>1. /\ Len(q) \in Nat /\ (q = <<>> <=> Len(q) = 0)
      /\ \A i \in 1 .. Len(q) : q[i].age \in Nat /\ q[i].age <= MaxLag
  BY QueueIsFunction, Parameters
<1>2. /\ \A i, j \in 1 .. Len(q) : i <= j => q[j].age <= q[i].age
      /\ \A i \in 1 .. Len(q) : i = Len(q) => q[i].age = n
  BY DEF Line, Ordered, EndsWith
<1>3. q # <<>> => /\ 1 \in 1 .. Len(q) /\ Len(q) \in 1 .. Len(q)
                  /\ \A i \in 1 .. Len(q) : 1 <= i /\ i <= Len(q)
  BY <1>1
<1> QED
  BY <1>1, <1>2, <1>3 DEF Ages

LEMMA LineAppend ==
  ASSUME NEW q \in Seq(Flight), NEW n \in Nat, NEW x \in Flight, x.age = 0, Line(q, n)
  PROVE  /\ Line(Append(q, x), 0) /\ Append(q, x) # <<>>
         /\ Ages(Append(q, x)) = Ages(q) \cup {0}
         /\ Append(q, x)[1].age = IF q = <<>> THEN 0 ELSE q[1].age
<1> DEFINE p == Append(q, x)
           k == Len(q)
<1>1. /\ k \in Nat /\ Len(p) = k + 1 /\ p[k + 1].age = 0 /\ p \in Seq(Flight)
      /\ \A i \in 1 .. k : p[i].age = q[i].age /\ q[i].age \in Nat
      /\ q = <<>> <=> k = 0
  BY QueueAppend, QueueIsFunction
<1>2. \A i, j \in 1 .. k : i <= j => q[j].age <= q[i].age
  BY DEF Line, Ordered
<1>3. p # <<>>
  BY <1>1, QueueIsFunction
<1>4. Ages(p) = {p[i].age : i \in 1 .. k + 1} /\ Ages(q) = {q[i].age : i \in 1 .. k}
  BY <1>1 DEF Ages
<1> HIDE DEF p, k
<1>5. 1 .. k + 1 = 1 .. k \cup {k + 1}
  BY <1>1
<1>6. Ordered(p)
  <2> SUFFICES ASSUME NEW i \in 1 .. k + 1, NEW j \in 1 .. k + 1, i <= j
               PROVE  p[j].age <= p[i].age
    BY <1>1 DEF Ordered
  <2>1. CASE j = k + 1
    BY <1>1, <1>5, <2>1
  <2>2. CASE j \in 1 .. k
    <3>1. i \in 1 .. k
      BY <1>1, <2>2
    <3> QED
      BY <1>1, <1>2, <2>2, <3>1
  <2> QED
    BY <1>5, <2>1, <2>2
<1>7. EndsWith(p, 0)
  BY <1>1 DEF EndsWith
<1>8. Ages(p) = Ages(q) \cup {0}
  BY <1>1, <1>4, <1>5
<1>9. p[1].age = IF q = <<>> THEN 0 ELSE q[1].age
  <2>1. k # 0 => 1 \in 1 .. k
    BY <1>1
  <2> QED
    BY <1>1, <2>1
<1> QED
  BY <1>3, <1>6, <1>7, <1>8, <1>9 DEF p, Line

LEMMA LineTail ==
  ASSUME NEW q \in Seq(Flight), NEW n \in Nat, q # <<>>, Line(q, n)
  PROVE  /\ Line(Tail(q), n) /\ Tail(q) \in Seq(Flight)
         /\ Ages(q) = Ages(Tail(q)) \cup {q[1].age}
         /\ Tail(q) # <<>> => Tail(q)[1].age <= q[1].age
         /\ Tail(q) = <<>> => q[1].age = n
         /\ Head(q) = q[1]
<1> DEFINE p == Tail(q)
           k == Len(q)
<1>1. /\ k \in Nat /\ k >= 1 /\ Len(p) = k - 1 /\ p \in Seq(Flight) /\ Head(q) = q[1]
      /\ \A i \in 1 .. k - 1 : p[i].age = q[i + 1].age
      /\ p = <<>> <=> k = 1
  <2>1. /\ k \in Nat /\ k >= 1 /\ Len(p) = k - 1 /\ p \in Seq(Flight) /\ Head(q) = q[1]
        /\ \A i \in 1 .. k - 1 : p[i] = q[i + 1]
    BY QueueTail, QueueIsFunction
  <2>2. p = <<>> <=> Len(p) = 0
    BY <2>1, QueueIsFunction
  <2>3. p = <<>> <=> k = 1
    BY <2>1, <2>2
  <2> HIDE DEF p, k
  <2> QED
    BY <2>1, <2>3
<1>2. /\ \A i, j \in 1 .. k : i <= j => q[j].age <= q[i].age
      /\ \A i \in 1 .. k : i = k => q[i].age = n
  BY DEF Line, Ordered, EndsWith
<1>3. Ages(p) = {p[i].age : i \in 1 .. k - 1} /\ Ages(q) = {q[i].age : i \in 1 .. k}
  BY <1>1 DEF Ages
<1> HIDE DEF p, k
<1>4. /\ \A i \in 1 .. k - 1 : i + 1 \in 1 .. k
      /\ \A i \in 1 .. k : i = 1 \/ i - 1 \in 1 .. k - 1
      /\ \A i \in 1 .. k : (i - 1) + 1 = i
      /\ 1 \in 1 .. k
  BY <1>1
<1>5. Ordered(p)
  <2> SUFFICES ASSUME NEW i \in 1 .. k - 1, NEW j \in 1 .. k - 1, i <= j
               PROVE  p[j].age <= p[i].age
    BY <1>1 DEF Ordered
  <2>1. i + 1 \in 1 .. k /\ j + 1 \in 1 .. k /\ i + 1 <= j + 1
    BY <1>1
  <2> QED
    BY <1>1, <1>2, <2>1
<1>6. EndsWith(p, n)
  <2> SUFFICES ASSUME NEW i \in 1 .. k - 1, i = k - 1 PROVE p[i].age = n
    BY <1>1 DEF EndsWith
  <2> QED
    BY <1>1, <1>2
<1>7. Ages(q) = Ages(p) \cup {q[1].age}
  <2>1. ASSUME NEW i \in 1 .. k PROVE q[i].age \in Ages(p) \cup {q[1].age}
    <3>1. CASE i = 1
      BY <3>1
    <3>2. CASE i - 1 \in 1 .. k - 1
      <4>1. p[i - 1].age = q[i].age
        BY <1>1, <1>4, <3>2
      <4> QED
        BY <1>3, <3>2, <4>1
    <3> QED
      BY <1>4, <3>1, <3>2
  <2>2. ASSUME NEW i \in 1 .. k - 1 PROVE p[i].age \in Ages(q)
    BY <1>1, <1>3, <1>4
  <2>3. q[1].age \in Ages(q)
    BY <1>3, <1>4
  <2> QED
    BY <1>3, <2>1, <2>2, <2>3
<1>8. p # <<>> => p[1].age <= q[1].age
  <2> SUFFICES ASSUME p # <<>> PROVE p[1].age <= q[1].age
    OBVIOUS
  <2>1. 1 \in 1 .. k - 1 /\ 2 \in 1 .. k /\ 1 <= 2 /\ 1 + 1 = 2
    BY <1>1
  <2> QED
    BY <1>1, <1>2, <2>1
<1>9. p = <<>> => q[1].age = n
  BY <1>1, <1>2
<1> QED
  BY <1>1, <1>5, <1>6, <1>7, <1>8, <1>9 DEF p, Line

LEMMA LineWaits ==
  ASSUME NEW q \in Seq(Flight), NEW n \in 0 .. AgeMax, OnTime(q), Line(q, n)
  PROVE  /\ Line(Waiting(q), Older(n))
         /\ Waiting(q) = <<>> <=> q = <<>>
         /\ \A a \in Ages(q) : a \in Nat /\ a < MaxLag
         /\ Ages(Waiting(q)) = {a + 1 : a \in Ages(q)}
         /\ q # <<>> => Waiting(q)[1].age = q[1].age + 1 /\ q[1].age \in Ages(q)
<1> DEFINE p == Waiting(q)
           k == Len(q)
<1>1. /\ k \in Nat /\ Len(p) = k /\ p \in Seq(Flight) /\ (q = <<>> <=> k = 0)
      /\ p = <<>> <=> k = 0
      /\ \A i \in 1 .. k : p[i].age = q[i].age + 1 /\ q[i].age \in Nat /\ q[i].age < MaxLag
  BY QueueWaits, QueueIsFunction
<1>2. /\ \A i, j \in 1 .. k : i <= j => q[j].age <= q[i].age
      /\ \A i \in 1 .. k : i = k => q[i].age = n
  BY DEF Line, Ordered, EndsWith
<1>3. Ages(p) = {p[i].age : i \in 1 .. k} /\ Ages(q) = {q[i].age : i \in 1 .. k}
  BY <1>1 DEF Ages
<1> HIDE DEF p, k
<1>4. Ordered(p)
  <2> SUFFICES ASSUME NEW i \in 1 .. k, NEW j \in 1 .. k, i <= j PROVE p[j].age <= p[i].age
    BY <1>1 DEF Ordered
  <2>1. q[j].age <= q[i].age
    BY <1>2
  <2>2. p[i].age = q[i].age + 1 /\ q[i].age \in Nat
    BY <1>1
  <2>3. p[j].age = q[j].age + 1 /\ q[j].age \in Nat
    BY <1>1
  <2> QED
    BY <2>1, <2>2, <2>3
<1>5. EndsWith(p, Older(n))
  <2> SUFFICES ASSUME NEW i \in 1 .. k, i = k PROVE p[i].age = Older(n)
    BY <1>1 DEF EndsWith
  <2>1. p[i].age = n + 1 /\ n \in Nat /\ n < MaxLag
    BY <1>1, <1>2
  <2> QED
    BY <2>1, Parameters DEF Older
<1>6. Ages(p) = {a + 1 : a \in Ages(q)}
  <2>1. ASSUME NEW i \in 1 .. k
        PROVE  p[i].age \in {a + 1 : a \in Ages(q)} /\ q[i].age + 1 \in Ages(p)
    <3>1. p[i].age = q[i].age + 1
      BY <1>1
    <3>2. q[i].age \in Ages(q) /\ p[i].age \in Ages(p)
      BY <1>3
    <3> QED
      BY <3>1, <3>2
  <2> QED
    BY <1>3, <2>1
<1>7. k # 0 => 1 \in 1 .. k
  BY <1>1
<1> QED
  BY <1>1, <1>3, <1>4, <1>5, <1>6, <1>7 DEF p, Line

-----------------------------------------------------------------------------
(* The two consumers of one topic and the key they both write.  The engine
   skips no reading: what it has handled is stored, and what it has not handled
   it holds; so of what the telemetry service has in hand or has stored, what is
   newer than the engine's oldest is in the engine's hands too.              *)

Engine(e, t, h, n) ==
  /\ n <= h
  /\ e = <<>> => h = n
  /\ e # <<>> =>
       /\ \A a \in Ages(t) : a < e[1].age => a \in Ages(e)
       /\ h < e[1].age => h \in Ages(e)
Lag(h, L) == \A r \in L : h <= r.age /\ r.age <= h + MaxLag
EngineKey(e, h, L) == \A r \in L : r.age = h \/ h \in Ages(e)
Fresh(n, L) == \A r \in L : r.age = n
Short(L) == \A r \in L : r.age + r.left <= HotTTL + MaxLag

Streams == /\ Line(engine, quiet) /\ Line(telemetry, quiet)
           /\ Engine(engine, telemetry, heard, quiet)
Key == /\ Lag(heard, latest)
       /\ engineLast => EngineKey(engine, heard, latest)
       /\ ~engineLast => Short(latest)
       /\ ~engineLast /\ ~missed /\ telemetry = <<>> => Fresh(quiet, latest)
Queues == Streams /\ Key

LEMMA TypeFacts ==
  ASSUME TypeOK
  PROVE  /\ telemetry \in Seq(Flight) /\ engine \in Seq(Flight)
         /\ Len(telemetry) \in Nat /\ Len(engine) \in Nat
         /\ latest \subseteq Keys
         /\ \A r \in latest : r.age \in 0 .. AgeMax /\ r.left \in Nat /\ r.left >= 1
         /\ quiet \in 0 .. AgeMax /\ heard \in 0 .. AgeMax /\ quiet \in Nat /\ heard \in Nat
         /\ marked \in 0 .. MarkTTL /\ remaining \in 0 .. FaultMax /\ cause \in 0 .. AgeMax
         /\ marked \in Nat
<1>1. telemetry \in Seq(Flight) /\ engine \in Seq(Flight) /\ latest \subseteq Keys
  BY DEF TypeOK, Keys
<1>2. /\ quiet \in 0 .. AgeMax /\ heard \in 0 .. AgeMax /\ marked \in 0 .. MarkTTL
      /\ remaining \in 0 .. FaultMax /\ cause \in 0 .. AgeMax
  BY DEF TypeOK
<1>3. \A r \in latest : r.age \in 0 .. AgeMax /\ r.left \in Nat /\ r.left >= 1
  BY <1>1, Parameters DEF Keys
<1>4. quiet \in Nat /\ heard \in Nat /\ marked \in Nat
  BY <1>2, Parameters
<1> QED
  BY <1>1, <1>2, <1>3, <1>4, QueueIsFunction

LEMMA InitQueues == Init => Queues
<1> SUFFICES ASSUME Init PROVE Queues
  OBVIOUS
<1>1. /\ telemetry = <<>> /\ engine = <<>> /\ latest = {} /\ quiet = AgeMax /\ heard = AgeMax
      /\ Len(<<>>) = 0 /\ 1 .. 0 = {}
  BY EmptySeq DEF Init
<1>2. Streams
  BY <1>1, Parameters DEF Streams, Line, Ordered, EndsWith, Engine
<1>3. Key
  BY <1>1 DEF Key, Lag, EngineKey, Fresh, Short
<1> QED
  BY <1>2, <1>3 DEF Queues

LEMMA QueuesStay ==
  ASSUME Queues, UNCHANGED <<telemetry, engine, quiet, heard, latest, missed, engineLast>>
  PROVE  Queues'
BY DEF Queues, Streams, Key, Line, Ordered, EndsWith, Engine, Lag, EngineKey, Fresh, Short, Ages

LEMMA StreamsNext ==
  ASSUME NEW e, NEW t, NEW h, NEW n,
         engine' = e, telemetry' = t, heard' = h, quiet' = n,
         Line(e, n), Line(t, n), Engine(e, t, h, n)
  PROVE  Streams'
BY DEF Streams, Line, Ordered, EndsWith, Engine, Ages

LEMMA KeyNext ==
  ASSUME NEW e, NEW t, NEW h, NEW n, NEW L, NEW last, NEW failed,
         engine' = e, telemetry' = t, heard' = h, quiet' = n, latest' = L,
         engineLast' = last, missed' = failed,
         Lag(h, L), last => EngineKey(e, h, L), ~last => Short(L),
         ~last /\ ~failed /\ t = <<>> => Fresh(n, L)
  PROVE  Key'
BY DEF Key, Lag, EngineKey, Fresh, Short, Ages

(* What a cycle does to the queues: nothing, or one reading for both.        *)
LEMMA CycleQueues ==
  ASSUME TypeOK, Queues, Cycle
  PROVE  Queues'
<1>1. PICK drawn \in {0} \cup FaultMin .. FaultMax : Suppress(drawn) \/ Transmit(drawn)
  BY DEF Cycle
<1>2. UNCHANGED <<heard, latest, missed, engineLast>>
  BY DEF Cycle, redis
<1>3. CASE UNCHANGED <<telemetry, engine, quiet>>
  BY <1>2, <1>3, QueuesStay
<1>4. CASE \E st \in {0, 1} : Ingest(st)
  <2>1. PICK st \in {0, 1} : Ingest(st)
    BY <1>4
  <2> DEFINE x == [status |-> st, age |-> 0]
             e == Append(engine, x)
             t == Append(telemetry, x)
  <2>2. x \in Flight /\ x.age = 0
    BY Parameters DEF Flight
  <2>3. telemetry' = t /\ engine' = e /\ quiet' = 0
    BY <2>1 DEF Ingest
  <2>4. /\ Line(engine, quiet) /\ Line(telemetry, quiet)
        /\ Engine(engine, telemetry, heard, quiet)
    BY DEF Queues, Streams
  <2> HIDE DEF x
  <2>5. /\ Line(e, 0) /\ e # <<>> /\ Ages(e) = Ages(engine) \cup {0}
        /\ e[1].age = IF engine = <<>> THEN 0 ELSE engine[1].age
    BY <2>2, <2>4, TypeFacts, LineAppend
  <2>6. Line(t, 0) /\ t # <<>> /\ Ages(t) = Ages(telemetry) \cup {0}
    BY <2>2, <2>4, TypeFacts, LineAppend
  <2> HIDE DEF e, t
  <2>7. Engine(e, t, heard, 0)
    <3>1. \A a \in Ages(t) : a \in Nat
      BY <2>4, <2>6, TypeFacts, LineFacts
    <3>2. heard \in Nat
      BY TypeFacts
    <3>3. CASE engine = <<>>
      BY <2>5, <3>1, <3>2, <3>3 DEF Engine
    <3>4. CASE engine # <<>>
      <4>1. /\ \A a \in Ages(telemetry) : a < engine[1].age => a \in Ages(engine)
            /\ heard < engine[1].age => heard \in Ages(engine)
        BY <2>4, <3>4 DEF Engine
      <4> QED
        BY <2>5, <2>6, <3>2, <3>4, <4>1 DEF Engine
    <3> QED
      BY <3>3, <3>4
  <2>8. Streams'
    BY <1>2, <2>3, <2>5, <2>6, <2>7, StreamsNext
  <2>9. /\ Lag(heard, latest)
        /\ engineLast => EngineKey(e, heard, latest)
        /\ ~engineLast => Short(latest)
        /\ ~engineLast /\ ~missed /\ t = <<>> => Fresh(0, latest)
    BY <2>5, <2>6 DEF Queues, Key, EngineKey
  <2>10. Key'
    BY <1>2, <2>3, <2>9, KeyNext
  <2> QED
    BY <2>8, <2>10 DEF Queues
<1> QED
  BY <1>1, <1>3, <1>4 DEF Suppress, Transmit

(* The older of two readings stored leaves the newer as what was heard.      *)
LEMMA Newest ==
  ASSUME NEW a \in Nat, NEW h \in Nat, a <= MaxLag, NEW g, g = IF a < h THEN a ELSE h
  PROVE  g \in Nat /\ (g = a \/ g = h) /\ g <= a /\ g <= h /\ a <= g + MaxLag
BY Parameters

LEMMA SkipHotQueues ==
  ASSUME TypeOK, Queues, SkipHot
  PROVE  Queues'
<1>1. /\ telemetry # <<>> /\ telemetry' = Tail(telemetry) /\ missed' = TRUE
      /\ UNCHANGED <<engine, quiet, heard, latest, engineLast>>
  BY DEF SkipHot, redis, history
<1>2. /\ Line(engine, quiet) /\ Line(telemetry, quiet)
      /\ Engine(engine, telemetry, heard, quiet)
  BY DEF Queues, Streams
<1>3. Line(Tail(telemetry), quiet) /\ Ages(Tail(telemetry)) \subseteq Ages(telemetry)
  BY <1>1, <1>2, TypeFacts, LineTail
<1>4. Engine(engine, Tail(telemetry), heard, quiet)
  BY <1>2, <1>3 DEF Engine
<1>5. Streams'
  BY <1>1, <1>2, <1>3, <1>4, StreamsNext
<1>6. Key'
  BY <1>1 DEF Queues, Key, Lag, EngineKey, Short, Ages
<1> QED
  BY <1>5, <1>6 DEF Queues

LEMMA StoreHotQueues ==
  ASSUME TypeOK, Queues, StoreHot
  PROVE  Queues'
<1> DEFINE a == telemetry[1].age
           t == Tail(telemetry)
           L == {[age |-> a, left |-> HotTTL]}
<1>1. /\ telemetry # <<>> /\ telemetry' = Tail(telemetry) /\ UNCHANGED <<engine, quiet>>
      /\ latest' = {[age |-> Head(telemetry).age, left |-> HotTTL]}
      /\ heard' = (IF Head(telemetry).age < heard THEN Head(telemetry).age ELSE heard)
      /\ engineLast' = FALSE /\ missed' = FALSE
  BY DEF StoreHot, Set, Overwritten
<1>2. /\ Line(engine, quiet) /\ Line(telemetry, quiet)
      /\ Engine(engine, telemetry, heard, quiet)
  BY DEF Queues, Streams
<1>3. /\ Line(t, quiet) /\ Ages(telemetry) = Ages(t) \cup {a} /\ Head(telemetry) = telemetry[1]
      /\ t = <<>> => a = quiet
  BY <1>1, <1>2, TypeFacts, LineTail
<1>4. a \in Nat /\ a <= MaxLag /\ quiet <= a /\ heard \in Nat /\ quiet \in Nat
  BY <1>1, <1>2, TypeFacts, LineFacts
<1>5. heard' = (IF a < heard THEN a ELSE heard) /\ latest' = L /\ telemetry' = t
  BY <1>1, <1>3
<1> HIDE DEF a, t
<1>6. PICK g \in Nat : g = IF a < heard THEN a ELSE heard
  BY <1>4
<1>7. (g = a \/ g = heard) /\ g <= a /\ g <= heard /\ a <= g + MaxLag
  BY <1>4, <1>6, Newest
<1>8. Engine(engine, t, g, quiet)
  <2>1. quiet <= g
    BY <1>2, <1>4, <1>7 DEF Engine
  <2>2. engine = <<>> => g = quiet
    BY <1>2, <1>4, <1>7, <2>1 DEF Engine
  <2>3. a \in Ages(telemetry) /\ Ages(t) \subseteq Ages(telemetry)
    BY <1>3
  <2>4. engine # <<>> => /\ \A b \in Ages(telemetry) : b < engine[1].age => b \in Ages(engine)
                         /\ heard < engine[1].age => heard \in Ages(engine)
    BY <1>2 DEF Engine
  <2>5. engine # <<>> => (g < engine[1].age => g \in Ages(engine))
    BY <1>7, <2>3, <2>4
  <2> QED
    BY <2>1, <2>2, <2>3, <2>4, <2>5 DEF Engine
<1>9. Streams'
  BY <1>1, <1>2, <1>3, <1>5, <1>6, <1>8, StreamsNext
<1>10. Lag(g, L)
  BY <1>7 DEF Lag
<1>11. Short(L)
  BY <1>4, Parameters DEF Short
<1>12. t = <<>> => Fresh(quiet, L)
  BY <1>3 DEF Fresh
<1> HIDE DEF L
<1>13. Key'
  BY <1>1, <1>5, <1>6, <1>10, <1>11, <1>12, KeyNext
<1> QED
  BY <1>9, <1>13 DEF Queues

LEMMA StoreLatestQueues ==
  ASSUME TypeOK, Queues, StoreLatest
  PROVE  Queues'
<1> DEFINE a == engine[1].age
           e == Tail(engine)
           L == {[age |-> a, left |-> LatestTTL]}
<1>1. /\ engine' = Tail(engine) /\ UNCHANGED <<telemetry, quiet, missed>>
      /\ latest' = {[age |-> Head(engine).age, left |-> LatestTTL]}
      /\ heard' = (IF Head(engine).age < heard THEN Head(engine).age ELSE heard)
      /\ engineLast' = TRUE
  BY DEF StoreLatest, Set, Overwritten
<1>2. engine # <<>>
  BY DEF StoreLatest, TypeOK
<1>3. /\ Line(engine, quiet) /\ Line(telemetry, quiet)
      /\ Engine(engine, telemetry, heard, quiet)
  BY DEF Queues, Streams
<1>4. /\ Line(e, quiet) /\ Ages(engine) = Ages(e) \cup {a} /\ Head(engine) = engine[1]
      /\ (e = <<>> => a = quiet) /\ (e # <<>> => e[1].age <= a)
      /\ e \in Seq(Flight)
  BY <1>2, <1>3, TypeFacts, LineTail
<1>5. /\ a \in Nat /\ a <= MaxLag /\ quiet <= a /\ heard \in Nat /\ quiet \in Nat
      /\ \A b \in Ages(telemetry) : b \in Nat
  BY <1>2, <1>3, TypeFacts, LineFacts
<1>6. e # <<>> => e[1].age \in Nat
  BY <1>3, <1>4, <1>5, LineFacts
<1>7. heard' = (IF a < heard THEN a ELSE heard) /\ latest' = L /\ engine' = e
  BY <1>1, <1>4
<1> HIDE DEF a, e
<1>8. PICK g \in Nat : g = IF a < heard THEN a ELSE heard
  BY <1>5
<1>9. (g = a \/ g = heard) /\ g <= a /\ g <= heard /\ a <= g + MaxLag
  BY <1>5, <1>8, Newest
<1>10. /\ quiet <= heard
       /\ \A b \in Ages(telemetry) : b < a => b \in Ages(engine)
       /\ heard < a => heard \in Ages(engine)
  BY <1>2, <1>3 DEF Engine, a
<1>11. \A b \in Ages(engine) : b # a => b \in Ages(e)
  BY <1>4
<1>12. Engine(e, telemetry, g, quiet)
  <2>1. quiet <= g /\ (e = <<>> => g = quiet)
    BY <1>4, <1>5, <1>9, <1>10
  <2>2. ASSUME e # <<>>, NEW b \in Ages(telemetry), b < e[1].age PROVE b \in Ages(e)
    <3>1. b < a /\ b # a
      BY <1>4, <1>5, <1>6, <2>2
    <3> QED
      BY <1>10, <1>11, <3>1
  <2>3. ASSUME e # <<>>, g < e[1].age PROVE g \in Ages(e)
    <3>1. g < a /\ g = heard
      BY <1>4, <1>5, <1>6, <1>9, <2>3
    <3> QED
      BY <1>5, <1>10, <1>11, <3>1
  <2> QED
    BY <2>1, <2>2, <2>3 DEF Engine
<1>13. Streams'
  BY <1>1, <1>3, <1>4, <1>7, <1>8, <1>12, StreamsNext
<1>14. Lag(g, L)
  BY <1>9 DEF Lag
<1>15. EngineKey(e, g, L)
  <2>1. a = g \/ g \in Ages(e)
    BY <1>5, <1>8, <1>9, <1>10, <1>11
  <2> QED
    BY <2>1 DEF EngineKey
<1> HIDE DEF L
<1>16. Key'
  BY <1>1, <1>7, <1>8, <1>14, <1>15, KeyNext
<1> QED
  BY <1>13, <1>16 DEF Queues

(* A tick ages everything by one, and what is younger than the lag is not
   capped.                                                                   *)
LEMMA Aging ==
  ASSUME NEW a \in 0 .. AgeMax, NEW b \in 0 .. AgeMax
  PROVE  /\ a <= b => Older(a) <= Older(b)
         /\ b <= a + MaxLag => Older(b) <= Older(a) + MaxLag
         /\ Older(a) <= a + 1
         /\ a < MaxLag => Older(a) = a + 1
         /\ \A c \in Nat : c < MaxLag /\ Older(a) < c + 1 => a < c
<1>1. a \in Nat /\ b \in Nat /\ AgeMax \in Nat /\ MaxLag \in Nat /\ MaxLag <= AgeMax
      /\ a <= AgeMax /\ b <= AgeMax
  BY Parameters
<1>2. (Older(a) = a + 1 /\ a < AgeMax) \/ (Older(a) = a /\ a = AgeMax)
  BY <1>1 DEF Older
<1>3. (Older(b) = b + 1 /\ b < AgeMax) \/ (Older(b) = b /\ b = AgeMax)
  BY <1>1 DEF Older
<1> QED
  BY <1>1, <1>2, <1>3

LEMMA TickQueues ==
  ASSUME TypeOK, Queues, Tick
  PROVE  Queues'
<1> DEFINE e == Waiting(engine)
           t == Waiting(telemetry)
           h == Older(heard)
           n == Older(quiet)
           L == {[age |-> Older(r.age), left |-> r.left - 1] :
                      r \in {r \in latest : r.left > 1}}
<1>1. /\ OnTime(telemetry) /\ OnTime(engine)
      /\ telemetry' = t /\ engine' = e /\ latest' = L /\ quiet' = n /\ heard' = h
      /\ UNCHANGED <<engineLast, missed>>
  BY DEF Tick
<1>2. /\ Line(engine, quiet) /\ Line(telemetry, quiet)
      /\ Engine(engine, telemetry, heard, quiet)
  BY DEF Queues, Streams
<1>3. quiet \in 0 .. AgeMax /\ heard \in 0 .. AgeMax /\ quiet \in Nat /\ heard \in Nat
  BY TypeFacts
<1>4. /\ Line(e, n) /\ (e = <<>> <=> engine = <<>>)
      /\ \A a \in Ages(engine) : a \in Nat /\ a < MaxLag
      /\ Ages(e) = {a + 1 : a \in Ages(engine)}
      /\ engine # <<>> => e[1].age = engine[1].age + 1 /\ engine[1].age \in Ages(engine)
  BY <1>1, <1>2, <1>3, TypeFacts, LineWaits
<1>5. /\ Line(t, n) /\ (t = <<>> <=> telemetry = <<>>)
      /\ \A a \in Ages(telemetry) : a \in Nat /\ a < MaxLag
      /\ Ages(t) = {a + 1 : a \in Ages(telemetry)}
  BY <1>1, <1>2, <1>3, TypeFacts, LineWaits
<1>6. \A r \in L : \E s \in latest : /\ r.age = Older(s.age) /\ r.left = s.left - 1
                                     /\ s.age \in 0 .. AgeMax /\ s.left \in Nat
  BY TypeFacts
<1>7. heard \in Ages(engine) => h \in Ages(e)
  <2> SUFFICES ASSUME heard \in Ages(engine) PROVE h \in Ages(e)
    OBVIOUS
  <2>1. Older(heard) = heard + 1
    BY <1>3, <1>4, Aging
  <2> QED
    BY <1>4, <2>1
<1> HIDE DEF e, t, L
<1>8. Engine(e, t, h, n)
  <2>1. n <= h
    BY <1>2, <1>3, Aging DEF Engine
  <2>2. e = <<>> => h = n
    BY <1>2, <1>4 DEF Engine
  <2>3. ASSUME e # <<>>, NEW b \in Ages(t), b < e[1].age PROVE b \in Ages(e)
    <3>1. PICK a \in Ages(telemetry) : b = a + 1
      BY <1>5
    <3>2. a < engine[1].age
      <4>1. a \in Nat /\ engine[1].age \in Nat /\ e[1].age = engine[1].age + 1
        BY <1>4, <1>5, <2>3
      <4>2. a + 1 < engine[1].age + 1
        BY <2>3, <3>1, <4>1
      <4> QED
        BY <4>1, <4>2
    <3>3. a \in Ages(engine)
      BY <1>2, <1>4, <2>3, <3>2 DEF Engine
    <3> QED
      BY <1>4, <3>1, <3>3
  <2>4. ASSUME e # <<>>, h < e[1].age PROVE h \in Ages(e)
    <3>1. engine[1].age \in Nat /\ engine[1].age < MaxLag /\ e[1].age = engine[1].age + 1
      BY <1>4, <2>4
    <3>2. heard < engine[1].age
      BY <1>3, <2>4, <3>1, Aging
    <3>3. heard \in Ages(engine)
      BY <1>2, <1>4, <2>4, <3>2 DEF Engine
    <3> QED
      BY <1>7, <3>3
  <2> HIDE DEF h, n
  <2> QED
    BY <2>1, <2>2, <2>3, <2>4 DEF Engine
<1>9. Lag(h, L)
  <2> SUFFICES ASSUME NEW r \in L PROVE h <= r.age /\ r.age <= h + MaxLag
    BY DEF Lag
  <2>1. PICK s \in latest : r.age = Older(s.age) /\ s.age \in 0 .. AgeMax
    BY <1>6
  <2>2. heard <= s.age /\ s.age <= heard + MaxLag
    BY DEF Queues, Key, Lag
  <2> QED
    BY <1>3, <2>1, <2>2, Aging
<1>10. engineLast => EngineKey(e, h, L)
  <2> SUFFICES ASSUME engineLast, NEW r \in L PROVE r.age = h \/ h \in Ages(e)
    BY DEF EngineKey
  <2>1. PICK s \in latest : r.age = Older(s.age)
    BY <1>6
  <2>2. s.age = heard \/ heard \in Ages(engine)
    BY DEF Queues, Key, EngineKey
  <2> QED
    BY <1>7, <2>1, <2>2
<1>11. ~engineLast => Short(L)
  <2> SUFFICES ASSUME ~engineLast, NEW r \in L PROVE r.age + r.left <= HotTTL + MaxLag
    BY DEF Short
  <2>1. PICK s \in latest : /\ r.age = Older(s.age) /\ r.left = s.left - 1
                            /\ s.age \in 0 .. AgeMax /\ s.left \in Nat
    BY <1>6
  <2>2. s.age + s.left <= HotTTL + MaxLag
    BY DEF Queues, Key, Short
  <2>3. Older(s.age) <= s.age + 1 /\ Older(s.age) \in Nat
    BY <2>1, Aging, OlderType, Parameters
  <2> QED
    BY <2>1, <2>2, <2>3, Parameters
<1>12. ~engineLast /\ ~missed /\ t = <<>> => Fresh(n, L)
  <2> SUFFICES ASSUME ~engineLast, ~missed, t = <<>>, NEW r \in L PROVE r.age = n
    BY DEF Fresh
  <2>1. PICK s \in latest : r.age = Older(s.age)
    BY <1>6
  <2>2. s.age = quiet
    BY <1>5 DEF Queues, Key, Fresh
  <2> QED
    BY <2>1, <2>2
<1> HIDE DEF h, n
<1>13. Streams'
  BY <1>1, <1>4, <1>5, <1>8, StreamsNext
<1>14. Key'
  BY <1>1, <1>9, <1>10, <1>11, <1>12, KeyNext
<1> QED
  BY <1>13, <1>14 DEF Queues

LEMMA NextQueues == TypeOK /\ Queues /\ [Next]_vars => Queues'
<1> SUFFICES ASSUME TypeOK, Queues, [Next]_vars PROVE Queues'
  OBVIOUS
<1>1. CASE StartSensor \/ StopSensor \/ Track \/ Look \/ Mark \/ UNCHANGED vars
  <2>1. UNCHANGED <<telemetry, engine, quiet, heard, latest, missed, engineLast>>
    BY <1>1 DEF StartSensor, StopSensor, Track, Look, Mark, vars, topic, redis, history
  <2> QED
    BY <2>1, QueuesStay
<1> QED
  BY <1>1, CycleQueues, StoreHotQueues, SkipHotQueues, StoreLatestQueues, TickQueues DEF Next

(* The key is never further behind what has been stored than the lag, and once
   both services have caught up it holds the newest reading, whichever of the
   two wrote it last; unless that was the telemetry service, and its write of
   the newest one failed.                                                    *)
THEOREM LatestNotStaleAlways == Spec => []LatestNotStale
<1>1. TypeOK /\ Queues => LatestNotStale
  <2> SUFFICES ASSUME TypeOK, Queues, NEW r \in latest
               PROVE  /\ r.age <= heard + MaxLag
                      /\ telemetry = <<>> /\ engine = <<>> =>
                           r.age = quiet \/ (missed /\ ~engineLast)
    BY DEF LatestNotStale
  <2>1. r.age <= heard + MaxLag
    BY DEF Queues, Key, Lag
  <2>2. ASSUME telemetry = <<>>, engine = <<>>, engineLast PROVE r.age = quiet
    <3>1. Ages(engine) = {} /\ heard = quiet
      BY <2>2, TypeFacts, LineFacts DEF Queues, Streams, Engine
    <3> QED
      BY <2>2, <3>1 DEF Queues, Key, EngineKey
  <2>3. ASSUME telemetry = <<>>, ~engineLast, ~missed PROVE r.age = quiet
    BY <2>3 DEF Queues, Key, Fresh
  <2> QED
    BY <2>1, <2>2, <2>3, Zenon
<1> QED
  BY <1>1, InitType, NextType, InitQueues, NextQueues, PTL DEF Spec

-----------------------------------------------------------------------------
(* What the watchdog takes for silence is silence, in a key that the engine
   wrote: an older reading it put back is overwritten before it is past the
   timeout.  A key that the telemetry service wrote either expires first, or
   makes the verdict early by the lag.                                       *)
LEMMA QuietMeansCaughtUp ==
  ASSUME TypeOK, Queues, quiet > MaxLag
  PROVE  /\ engine = <<>> /\ telemetry = <<>> /\ heard = quiet
         /\ \A r \in latest : r.age >= quiet
<1>1. /\ engine # <<>> => quiet \in Ages(engine) /\ quiet <= MaxLag
      /\ telemetry # <<>> => quiet \in Ages(telemetry) /\ quiet <= MaxLag
  BY TypeFacts, LineFacts DEF Queues, Streams
<1>2. engine = <<>> /\ telemetry = <<>>
  BY <1>1, TypeFacts, Parameters
<1>3. heard = quiet
  BY <1>2 DEF Queues, Streams, Engine
<1>4. \A r \in latest : heard <= r.age /\ r.age \in 0 .. AgeMax
  BY TypeFacts DEF Queues, Key, Lag
<1> QED
  BY <1>2, <1>3, <1>4, TypeFacts, Parameters

LEMMA OldKeyMeansSilence ==
  ASSUME TypeOK, Queues, NEW r \in latest, r.age > Timeout
  PROVE  /\ engineLast => heard = r.age
         /\ heard + Early > Timeout
<1>1. /\ heard <= r.age /\ r.age <= heard + MaxLag
      /\ r.age \in Nat /\ r.left \in Nat /\ r.left >= 1 /\ heard \in Nat
  BY TypeFacts, Parameters DEF Queues, Key, Lag
<1>2. engineLast => heard = r.age
  <2> SUFFICES ASSUME engineLast, heard \in Ages(engine) PROVE FALSE
    BY DEF Queues, Key, EngineKey
  <2>1. heard <= MaxLag
    BY TypeFacts, LineFacts DEF Queues, Streams
  <2> QED
    BY <1>1, <2>1, Parameters
<1>3. ~engineLast => heard + Early > Timeout
  <2> SUFFICES ASSUME ~engineLast PROVE heard + Early > Timeout
    OBVIOUS
  <2>1. r.age + r.left <= HotTTL + MaxLag
    BY DEF Queues, Key, Short
  <2>2. HotTTL + MaxLag > Timeout + 1
    BY <1>1, <2>1, Parameters
  <2>3. Early = MaxLag
    BY <2>2 DEF Early
  <2> QED
    BY <1>1, <2>3, Parameters
<1>4. Early \in Nat
  BY Parameters DEF Early
<1>5. heard = r.age => heard + Early > Timeout
  BY <1>1, <1>4, Parameters
<1> QED
  BY <1>2, <1>3, <1>5, Zenon

LookedAtSilence == scan # Idle => scan + Early > Timeout

LEMMA InitCause == Init => LookedAtSilence /\ MarkedForCause
BY DEF Init, LookedAtSilence, MarkedForCause

LEMMA NextCause ==
  TypeOK /\ Queues /\ LookedAtSilence /\ MarkedForCause /\ [Next]_vars
    => LookedAtSilence' /\ MarkedForCause'
<1> SUFFICES ASSUME TypeOK, Queues, LookedAtSilence, MarkedForCause, [Next]_vars
             PROVE  LookedAtSilence' /\ MarkedForCause'
  OBVIOUS
<1> USE DEF LookedAtSilence, MarkedForCause
<1>0. Early' = Early
  BY DEF Early
<1>1. CASE UNCHANGED <<scan, marked, status, cause>>
  BY <1>0, <1>1
<1>2. CASE Track
  <2>1. scan' = scan /\ marked' = IF status' = 0 THEN MarkTTL ELSE 0
    BY <1>2 DEF Track, watchdog
  <2> QED
    BY <1>0, <2>1
<1>3. CASE Look
  <2>1. UNCHANGED <<marked, status, cause>>
        /\ scan' = IF \E r \in latest : TooOld(r.age) THEN heard ELSE Idle
    BY <1>3 DEF Look, redis, history
  <2>2. (\E r \in latest : TooOld(r.age)) => heard + Early > Timeout
    BY OldKeyMeansSilence DEF TooOld
  <2> QED
    BY <1>0, <2>1, <2>2
<1>4. CASE Mark
  <2>1. /\ scan # Idle /\ scan' = Idle /\ status' = status
        /\ cause' = IF marked > 0 THEN cause ELSE scan
    BY <1>4 DEF Mark
  <2> QED
    BY <1>0, <2>1
<1>5. CASE Tick
  <2>1. /\ UNCHANGED <<scan, status, cause>>
        /\ marked' = IF marked > 0 THEN marked - 1 ELSE 0
    BY <1>5 DEF Tick
  <2> QED
    BY <1>0, <2>1, TypeFacts
<1> QED
  BY <1>1, <1>2, <1>3, <1>4, <1>5 DEF Next, StartSensor, StopSensor, Cycle, StoreHot, SkipHot,
     StoreLatest, vars, watchdog, redis, history

(* A sensor is marked faulty because the last reading tracked said so, or
   because nothing newer than the timeout had been stored of it when the
   watchdog looked; where a key of the telemetry service can outlast the
   timeout, the verdict may come early by the lag.                           *)
THEOREM MarkedForCauseAlways == Spec => []MarkedForCause
<1> QED
  BY InitType, NextType, InitQueues, NextQueues, InitCause, NextCause, PTL DEF Spec

-----------------------------------------------------------------------------
(* Faults.  While one lasts its latest reading is faulty, wherever it is, and
   the mark made on tracking it is as old as the reading at most.           *)

Handled == engine = <<>> \/ (tracked /\ Len(engine) = 1)
NewestFaulty ==
  remaining > 0 /\ arrived =>
    /\ \A i \in 1 .. Len(engine) : i = Len(engine) => engine[i].status = 0
    /\ Handled => status = 0
MarkKept == status = 0 /\ Handled => marked + quiet >= MarkTTL
Faults == NewestFaulty /\ MarkKept

LEMMA InitFaults == Init => Faults
<1> SUFFICES ASSUME Init PROVE Faults
  OBVIOUS
<1>1. remaining = 0 /\ marked = 0 /\ quiet = AgeMax
  BY DEF Init
<1>2. NewestFaulty
  BY <1>1 DEF NewestFaulty
<1>3. MarkKept
  BY <1>1, Parameters DEF MarkKept
<1> QED
  BY <1>2, <1>3 DEF Faults

LEMMA FaultsStay ==
  ASSUME Faults, UNCHANGED <<remaining, arrived, engine, tracked, status, marked, quiet>>
  PROVE  Faults'
BY DEF Faults, NewestFaulty, MarkKept, Handled

(* A cycle of a fault is never suppressed, and publishes a faulty reading.   *)
LEMMA CycleFaults ==
  ASSUME TypeOK, Faults, Cycle
  PROVE  Faults'
<1>1. PICK drawn \in {0} \cup FaultMin .. FaultMax :
        /\ remaining' = Countdown(drawn)
        /\ Suppress(drawn) \/ Transmit(drawn)
  BY DEF Cycle
<1>2. UNCHANGED <<tracked, status, marked>>
  BY DEF Cycle, redis
<1>3. remaining' > 0 => Faulty(drawn)
  <2>1. remaining \in Nat /\ drawn \in Nat
    BY TypeFacts, Parameters
  <2>2. CASE drawn > 0
    BY <2>2 DEF Faulty
  <2>3. CASE remaining > 0
    BY <2>3 DEF Faulty
  <2>4. CASE drawn = 0 /\ remaining = 0
    BY <1>1, <2>4 DEF Countdown
  <2> QED
    BY <2>1, <2>2, <2>3, <2>4
<1>4. CASE Suppress(drawn)
  <2>1. ~Faulty(drawn) /\ UNCHANGED <<arrived, engine, quiet>>
    BY <1>4 DEF Suppress, Suppressible
  <2> QED
    BY <1>2, <1>3, <2>1 DEF Faults, NewestFaulty, MarkKept, Handled
<1>5. CASE arrived' = FALSE /\ UNCHANGED <<engine, quiet>>
  BY <1>2, <1>5 DEF Faults, NewestFaulty, MarkKept, Handled
<1>6. CASE Ingest(IF Faulty(drawn) THEN 0 ELSE 1)
  <2> DEFINE x == [status |-> IF Faulty(drawn) THEN 0 ELSE 1, age |-> 0]
  <2>1. engine' = Append(engine, x)
    BY <1>6 DEF Ingest
  <2>2. x \in Flight /\ (Faulty(drawn) => x.status = 0)
    BY Parameters DEF Flight
  <2> HIDE DEF x
  <2>3. Len(engine') = Len(engine) + 1 /\ engine'[Len(engine) + 1] = x /\ Len(engine) \in Nat
    BY <2>1, <2>2, TypeFacts, QueueAppend
  <2>4. ~Handled'
    <3>1. engine' # <<>>
      BY <2>3, EmptySeq
    <3>2. tracked => Len(engine) >= 1
      BY <2>3, TypeFacts, QueueIsFunction DEF TypeOK
    <3> QED
      BY <1>2, <2>3, <3>1, <3>2 DEF Handled
  <2> QED
    BY <1>3, <2>2, <2>3, <2>4 DEF Faults, NewestFaulty, MarkKept
<1> QED
  BY <1>1, <1>4, <1>5, <1>6 DEF Transmit

LEMMA TrackFaults ==
  ASSUME TypeOK, Faults, Track
  PROVE  Faults'
<1>1. /\ engine # <<>> /\ tracked' /\ status' = Head(engine).status
      /\ marked' = (IF status' = 0 THEN MarkTTL ELSE 0)
      /\ UNCHANGED <<remaining, arrived, engine, quiet>>
  BY DEF Track, sensor
<1>2. Handled' => Len(engine) = 1
  BY <1>1, TypeFacts, QueueIsFunction DEF Handled
<1>3. MarkKept'
  BY <1>1, TypeFacts, Parameters DEF MarkKept
<1>4. Len(engine) = 1 => Head(engine) = engine[1]
  BY <1>1, TypeFacts, QueueTail
<1>5. NewestFaulty'
  <2> SUFFICES ASSUME remaining > 0, arrived
               PROVE  /\ \A i \in 1 .. Len(engine) : i = Len(engine) => engine[i].status = 0
                      /\ Handled' => status' = 0
    BY <1>1 DEF NewestFaulty
  <2>1. \A i \in 1 .. Len(engine) : i = Len(engine) => engine[i].status = 0
    BY DEF Faults, NewestFaulty
  <2> QED
    BY <1>1, <1>2, <1>4, <2>1
<1> QED
  BY <1>3, <1>5 DEF Faults

LEMMA StoreLatestFaults ==
  ASSUME TypeOK, Faults, StoreLatest
  PROVE  Faults'
<1>1. /\ tracked /\ engine' = Tail(engine) /\ tracked' = FALSE
      /\ UNCHANGED <<remaining, arrived, status, marked, quiet>>
  BY DEF StoreLatest, sensor
<1>2. engine # <<>>
  BY <1>1 DEF TypeOK
<1>3. /\ Len(engine') = Len(engine) - 1 /\ Len(engine) \in Nat /\ Len(engine) >= 1
      /\ \A i \in 1 .. Len(engine) - 1 : engine'[i] = engine[i + 1]
      /\ engine' \in Seq(Flight)
  BY <1>1, <1>2, TypeFacts, QueueTail
<1>4. Handled' => Handled
  BY <1>1, <1>3, EmptySeq DEF Handled
<1>5. MarkKept'
  BY <1>1, <1>4 DEF Faults, MarkKept
<1>6. NewestFaulty'
  <2> SUFFICES ASSUME remaining > 0, arrived
               PROVE  /\ \A i \in 1 .. Len(engine') : i = Len(engine') => engine'[i].status = 0
                      /\ Handled' => status = 0
    BY <1>1 DEF NewestFaulty
  <2>1. /\ \A i \in 1 .. Len(engine) : i = Len(engine) => engine[i].status = 0
        /\ Handled => status = 0
    BY DEF Faults, NewestFaulty
  <2> QED
    BY <1>3, <1>4, <2>1
<1> QED
  BY <1>5, <1>6 DEF Faults

LEMMA TickFaults ==
  ASSUME TypeOK, Faults, Tick
  PROVE  Faults'
<1>1. /\ OnTime(engine) /\ engine' = Waiting(engine)
      /\ marked' = (IF marked > 0 THEN marked - 1 ELSE 0) /\ quiet' = Older(quiet)
      /\ UNCHANGED <<remaining, tracked, arrived, status>>
  BY DEF Tick
<1>2. /\ Len(engine') = Len(engine) /\ engine' \in Seq(Flight)
      /\ \A i \in 1 .. Len(engine) : engine'[i].status = engine[i].status
  BY <1>1, TypeFacts, QueueWaits
<1>3. Handled' => Handled
  BY <1>1, <1>2, TypeFacts, QueueIsFunction DEF Handled
<1>4. NewestFaulty'
  BY <1>1, <1>2, <1>3 DEF Faults, NewestFaulty
<1>5. marked + quiet >= MarkTTL => marked' + quiet' >= MarkTTL
  <2>1. /\ marked \in Nat /\ quiet \in Nat /\ MarkTTL \in Nat /\ AgeMax \in Nat
        /\ AgeMax >= MarkTTL
    BY TypeFacts, Parameters
  <2>2. quiet' \in Nat /\ (quiet' = quiet + 1 \/ quiet' >= MarkTTL)
    BY <1>1, <2>1 DEF Older
  <2>3. marked' \in Nat /\ marked' + 1 >= marked
    BY <1>1, <2>1
  <2>4. \A m, n, q, r, l \in Nat :
          n + 1 >= m /\ (r = q + 1 \/ r >= l) /\ m + q >= l => n + r >= l
    OBVIOUS
  <2> QED
    BY Zenon, <2>1, <2>2, <2>3, <2>4
<1>6. MarkKept'
  BY <1>1, <1>3, <1>5 DEF Faults, MarkKept
<1> QED
  BY <1>4, <1>6 DEF Faults

LEMMA NextFaults == TypeOK /\ Faults /\ [Next]_vars => Faults'
<1> SUFFICES ASSUME TypeOK, Faults, [Next]_vars PROVE Faults'
  OBVIOUS
<1>1. CASE StopSensor \/ StoreHot \/ SkipHot \/ Look \/ UNCHANGED vars
  <2>1. UNCHANGED <<remaining, arrived, engine, tracked, status, marked, quiet>>
    BY <1>1 DEF StopSensor, StoreHot, SkipHot, Look, vars, sensor, topic, redis, history
  <2> QED
    BY <2>1, FaultsStay
<1>2. CASE StartSensor
  <2>1. remaining' = 0 /\ UNCHANGED <<engine, tracked, status, marked, quiet>>
    BY <1>2 DEF StartSensor, topic, redis, history
  <2> QED
    BY <2>1 DEF Faults, NewestFaulty, MarkKept, Handled
<1>3. CASE Mark
  <2>1. marked' = MarkTTL /\ UNCHANGED <<remaining, arrived, engine, tracked, status, quiet>>
    BY <1>3 DEF Mark, sensor, topic
  <2>2. MarkKept'
    BY <2>1, TypeFacts, Parameters DEF MarkKept
  <2> QED
    BY <2>1, <2>2 DEF Faults, NewestFaulty, Handled
<1> QED
  BY <1>1, <1>2, <1>3, CycleFaults, TrackFaults, StoreLatestFaults, TickFaults DEF Next

(* "Faulty sensors always transmit": while a fault lasts the sensor is marked
   as soon as the engine has caught up, unless its last transmission was lost,
   and nothing but a later reading or the TTL unmarks it.                    *)
THEOREM FaultSeenAlways == Spec => []FaultSeen
<1>1. TypeOK /\ Faults => FaultSeen
  BY TypeFacts, Parameters DEF Faults, NewestFaulty, MarkKept, Handled, FaultSeen
<1> QED
  BY <1>1, InitType, NextType, InitFaults, NextFaults, PTL DEF Spec

-----------------------------------------------------------------------------
(* Silence.  The rule engine's TTL lets the key outlast the timeout, every
   tick comes after a look at it, and the last mark made while the key was
   there outlives it.                                                       *)

KeyLasts ==
  engineLast => /\ latest = {} => heard >= LongerTTL
                /\ \A r \in latest : r.age + r.left >= LongerTTL
MarkedOnLook == quiet > Timeout /\ scanned /\ scan = Idle /\ latest # {} => marked = MarkTTL
MarkOutlives ==
  quiet > Timeout + 1 /\ engineLast =>
    \/ latest # {} /\ marked >= MarkTTL - 1
    \/ marked + quiet >= MarkTTL + LongerTTL - 1
Silences == KeyLasts /\ MarkedOnLook /\ MarkOutlives

LEMMA InitSilences == Init => Silences
BY DEF Init, Silences, KeyLasts, MarkedOnLook, MarkOutlives

LEMMA SilencesStay ==
  ASSUME Silences, UNCHANGED <<engineLast, latest, heard, quiet, scanned, scan, marked>>
  PROVE  Silences'
BY DEF Silences, KeyLasts, MarkedOnLook, MarkOutlives

LEMMA CycleSilences ==
  ASSUME TypeOK, Silences, Cycle
  PROVE  Silences'
<1>1. UNCHANGED <<engineLast, latest, heard, scanned, scan, marked>>
  BY DEF Cycle, redis, watchdog
<1>2. quiet' = quiet \/ quiet' = 0
  BY DEF Cycle, Suppress, Transmit, Ingest
<1>3. CASE quiet' = quiet
  BY <1>1, <1>3, SilencesStay
<1>4. CASE quiet' = 0
  BY <1>1, <1>4, Parameters DEF Silences, KeyLasts, MarkedOnLook, MarkOutlives
<1> QED
  BY <1>2, <1>3, <1>4

(* While a consumer has something to handle nothing is quiet.                *)
LEMMA StoreSilences ==
  ASSUME TypeOK, Queues, Silences, StoreHot \/ StoreLatest
  PROVE  Silences'
<1>1. quiet' = quiet /\ ~(quiet > MaxLag)
  BY QuietMeansCaughtUp DEF StoreHot, StoreLatest, TypeOK
<1>2. MarkedOnLook' /\ MarkOutlives'
  BY <1>1, TypeFacts, Parameters DEF MarkedOnLook, MarkOutlives
<1>3. KeyLasts'
  <2>1. CASE StoreHot
    BY <2>1 DEF StoreHot, KeyLasts
  <2>2. CASE StoreLatest
    <3>1. latest' = {[age |-> Head(engine).age, left |-> LongerTTL]} /\ engine # <<>>
      BY <2>2 DEF StoreLatest, Set, Overwritten, LatestTTL, TypeOK
    <3>2. Head(engine).age \in Nat
      <4>1. Head(engine) \in Flight
        BY <3>1, TypeFacts, QueueTail
      <4> QED
        BY <4>1, Parameters DEF Flight
    <3> DEFINE key == [age |-> Head(engine).age, left |-> LongerTTL]
    <3>3. key.age + key.left >= LongerTTL
      BY <3>2, Parameters
    <3> HIDE DEF key
    <3>4. latest' = {key}
      BY <3>1 DEF key
    <3> QED
      BY <3>3, <3>4 DEF KeyLasts
  <2> QED
    BY <2>1, <2>2
<1> QED
  BY <1>2, <1>3 DEF Silences

LEMMA TrackSilences ==
  ASSUME TypeOK, Queues, Silences, Track
  PROVE  Silences'
<1>1. /\ ~(quiet > MaxLag)
      /\ UNCHANGED <<engineLast, latest, heard, quiet, scanned, scan>>
  BY QuietMeansCaughtUp DEF Track, watchdog
<1>2. MarkedOnLook' /\ MarkOutlives'
  BY <1>1, TypeFacts, Parameters DEF MarkedOnLook, MarkOutlives
<1> QED
  BY <1>1, <1>2 DEF Silences, KeyLasts

LEMMA WatchdogSilences ==
  ASSUME TypeOK, Queues, Silences, Look \/ Mark
  PROVE  Silences'
<1>1. CASE Look
  <2>1. /\ UNCHANGED <<engineLast, latest, heard, quiet, marked>>
        /\ scan' = IF \E r \in latest : TooOld(r.age) THEN heard ELSE Idle
    BY <1>1 DEF Look, redis, history
  <2>2. ASSUME quiet > Timeout, latest # {} PROVE scan' # Idle
    <3>1. \A r \in latest : r.age > Timeout
      BY <2>2, TypeFacts, QuietMeansCaughtUp, Parameters
    <3> QED
      BY <2>1, <2>2, <3>1, TypeFacts DEF TooOld, Idle
  <2>3. MarkedOnLook'
    BY <2>1, <2>2 DEF MarkedOnLook
  <2> QED
    BY <2>1, <2>3 DEF Silences, KeyLasts, MarkOutlives
<1>2. CASE Mark
  <2>1. marked' = MarkTTL /\ UNCHANGED <<engineLast, latest, heard, quiet>>
    BY <1>2 DEF Mark
  <2>2. MarkOutlives'
    BY <2>1, TypeFacts, Parameters DEF Silences, MarkOutlives
  <2> QED
    BY <2>1, <2>2 DEF Silences, KeyLasts, MarkedOnLook
<1> QED
  BY <1>1, <1>2

LEMMA OlderGrows ==
  ASSUME NEW age \in 0 .. AgeMax
  PROVE  /\ Older(age) \in Nat /\ age \in Nat /\ age <= Older(age) /\ Older(age) <= age + 1
         /\ Older(age) = age + 1 \/ (Older(age) = AgeMax /\ age = AgeMax)
BY Parameters DEF Older

LEMMA Sums ==
  ASSUME NEW m \in Nat, NEW q \in Nat
  PROVE  /\ m >= MarkTTL - 1 /\ q >= LongerTTL => m + q >= MarkTTL + LongerTTL - 1
         /\ q = AgeMax => m + q >= MarkTTL + LongerTTL - 1
         /\ \A k \in Nat, l \in Nat : k >= m - 1 /\ l = q + 1 => k + l >= m + q
BY Parameters

LEMMA TickSilences ==
  ASSUME TypeOK, Queues, Silences, Tick
  PROVE  Silences'
<1>1. /\ scanned /\ scan = Idle /\ scanned' = FALSE /\ engineLast' = engineLast
      /\ latest' = {[age |-> Older(r.age), left |-> r.left - 1] :
                      r \in {r \in latest : r.left > 1}}
      /\ marked' = (IF marked > 0 THEN marked - 1 ELSE 0)
      /\ quiet' = Older(quiet) /\ heard' = Older(heard)
  BY DEF Tick
<1>2. MarkedOnLook'
  BY <1>1 DEF MarkedOnLook
(* A key that expires has reached the TTL, and holds the newest reading.     *)
<1>3. ASSUME engineLast, latest' = {}
      PROVE  heard' >= LongerTTL
  <2>1. CASE latest = {}
    BY <1>1, <1>3, <2>1, TypeFacts, Parameters DEF Silences, KeyLasts, Older
  <2>2. CASE latest # {}
    <3>1. PICK r \in latest : TRUE
      BY <2>2
    <3>2. ~(r.left > 1)
      BY <1>1, <1>3
    <3>3. r.age + r.left >= LongerTTL /\ r.age \in Nat /\ r.left \in Nat
      BY <1>3, TypeFacts, Parameters DEF Silences, KeyLasts
    <3>4. r.age > Timeout /\ r.age >= LongerTTL - 1
      BY <3>2, <3>3, Parameters
    <3>5. heard = r.age
      BY <1>3, <3>4, OldKeyMeansSilence
    <3>6. heard \in 0 .. AgeMax /\ heard \in Nat /\ heard >= LongerTTL - 1
      BY <3>4, <3>5, TypeFacts
    <3> QED
      BY <1>1, <3>6, OlderGrows, Parameters
  <2> QED
    BY <2>1, <2>2
<1>4. ASSUME engineLast, NEW r \in latest, r.left > 1
      PROVE  Older(r.age) + (r.left - 1) >= LongerTTL
  <2>1. r.age + r.left >= LongerTTL /\ r.age \in 0 .. AgeMax /\ r.left \in Nat
    BY <1>4, TypeFacts DEF Silences, KeyLasts
  <2>2. CASE Older(r.age) = r.age + 1
    BY <2>1, <2>2, Parameters
  <2>3. CASE Older(r.age) = AgeMax
    BY <1>4, <2>1, <2>3, Parameters
  <2> QED
    BY <2>1, <2>2, <2>3, OlderGrows
<1>5. KeyLasts'
  <2> SUFFICES ASSUME engineLast
               PROVE  /\ latest' = {} => heard' >= LongerTTL
                      /\ \A r \in latest' : r.age + r.left >= LongerTTL
    BY <1>1 DEF KeyLasts
  <2> QED
    BY <1>1, <1>3, <1>4
<1>6. MarkOutlives'
  <2> SUFFICES ASSUME quiet' > Timeout + 1, engineLast
               PROVE  \/ latest' # {} /\ marked' >= MarkTTL - 1
                      \/ marked' + quiet' >= MarkTTL + LongerTTL - 1
    BY <1>1 DEF MarkOutlives
  <2>1. quiet > Timeout /\ quiet > MaxLag
    <3>1. quiet \in Nat /\ quiet' \in Nat /\ quiet' <= quiet + 1
      BY <1>1, TypeFacts, OlderGrows
    <3> QED
      BY <3>1, Parameters
  <2>2. heard = quiet /\ heard' = quiet'
    BY <1>1, <2>1, QuietMeansCaughtUp
  <2>3. CASE latest # {}
    <3>1. marked = MarkTTL /\ marked' = MarkTTL - 1
      BY <1>1, <2>1, <2>3, Parameters DEF Silences, MarkedOnLook
    <3>2. quiet' \in Nat
      BY <1>1, TypeFacts, OlderGrows
    <3>3. CASE latest' = {}
      <4>1. quiet' >= LongerTTL
        BY <1>3, <2>2, <3>3
      <4>2. marked' \in Nat /\ marked' >= MarkTTL - 1
        BY <3>1, Parameters
      <4>3. marked' + quiet' >= MarkTTL + LongerTTL - 1
        BY <3>2, <4>1, <4>2, Sums
      <4> QED
        BY <4>3
    <3>4. CASE latest' # {}
      BY <3>1, <3>4, Parameters
    <3> QED
      BY <3>3, <3>4
  <2>4. CASE latest = {}
    <3>1. quiet >= LongerTTL
      BY <2>2, <2>4 DEF Silences, KeyLasts
    <3>2. quiet > Timeout + 1
      BY <3>1, TypeFacts, Parameters
    <3>3. marked + quiet >= MarkTTL + LongerTTL - 1
      BY <2>4, <3>2 DEF Silences, MarkOutlives
    <3>4. marked \in Nat /\ marked' \in Nat /\ marked' >= marked - 1
      BY <1>1, TypeFacts
    <3>5. CASE quiet' = quiet + 1
      <4>1. quiet \in Nat
        BY TypeFacts
      <4>2. marked' + quiet' >= marked + quiet
        <5>1. quiet' \in Nat
          BY <3>5, <4>1
        <5> QED
          BY <3>4, <3>5, <4>1, <5>1, Sums
      <4>3. marked' + quiet' \in Int /\ marked + quiet \in Int /\ MarkTTL + LongerTTL - 1 \in Int
        BY <3>4, <3>5, <4>1, Parameters
      <4>4. \A x, y, z \in Int : x >= y /\ y >= z => x >= z
        OBVIOUS
      <4>5. marked' + quiet' >= MarkTTL + LongerTTL - 1
        BY <3>3, <4>2, <4>3, <4>4
      <4> QED
        BY <4>5
    <3>6. CASE quiet' = AgeMax
      <4>1. marked' + quiet' >= MarkTTL + LongerTTL - 1
        BY <3>4, <3>6, Sums, Parameters
      <4> QED
        BY <4>1
    <3> QED
      BY <1>1, <3>5, <3>6, TypeFacts, OlderGrows
  <2> QED
    BY <2>3, <2>4
<1> QED
  BY <1>2, <1>5, <1>6 DEF Silences

LEMMA NextSilences == TypeOK /\ Queues /\ Silences /\ [Next]_vars => Silences'
<1> SUFFICES ASSUME TypeOK, Queues, Silences, [Next]_vars PROVE Silences'
  OBVIOUS
<1>1. CASE StartSensor \/ StopSensor \/ SkipHot \/ UNCHANGED vars
  <2>1. UNCHANGED <<engineLast, latest, heard, quiet, scanned, scan, marked>>
    BY <1>1 DEF StartSensor, StopSensor, SkipHot, vars, redis, watchdog, history
  <2> QED
    BY <2>1, SilencesStay
<1> QED
  BY <1>1, CycleSilences, StoreSilences, TrackSilences, WatchdogSilences, TickSilences DEF Next

(* A sensor of which nothing has come in for longer than the timeout and one
   scan is marked, until the mark expires, provided the rule engine was the
   last to write its key.                                                   *)
THEOREM SilenceNoticedAlways == Spec => []SilenceNoticed
<1>1. TypeOK /\ Silences => SilenceNoticed
  BY TypeFacts, Parameters DEF Silences, MarkOutlives, SilenceNoticed
<1> QED
  BY <1>1, InitType, NextType, InitQueues, NextQueues, InitSilences, NextSilences, PTL DEF Spec
=============================================================================
