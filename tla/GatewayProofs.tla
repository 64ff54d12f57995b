--------------------------- MODULE GatewayProofs ---------------------------
(* Theorems about the ingestion gateway, for any sensors and areas, any TTL,
   delay, number of messages and number of errors and restarts.             *)
EXTENDS Gateway, SequenceTheorems, WellFoundedInduction, TLAPS

LEMMA Parameters ==
  /\ TTL \in Nat /\ TTL >= 1 /\ MaxDelay \in Nat /\ MaxMessages \in Nat /\ MaxFaults \in Nat
  /\ Forever = TTL + 2 * MaxDelay /\ Forever \in Nat
BY GatewayAssumption DEF Forever

(* The coroutine that runs next is the first of those scheduled.            *)
LEMMA FirstScheduled ==
  ASSUME Scheduled # {}
  PROVE  /\ NextReady(Scheduled) \in Scheduled
         /\ \A j \in Scheduled : NextReady(Scheduled) <= j
<1>1. Scheduled \subseteq Nat
  BY Parameters DEF Scheduled, Ids
<1>2. \E i \in Scheduled : \A j \in Scheduled : ~ (<<j, i>> \in OpToRel(<, Nat))
  BY <1>1, NatLessThanWellFounded, WFMin
<1>4. ASSUME NEW i \in Nat, NEW j \in Nat, j < i
      PROVE  <<j, i>> \in OpToRel(<, Nat)
  <2>1. <<j, i>> \in Nat \X Nat /\ <<j, i>>[1] = j /\ <<j, i>>[2] = i
    OBVIOUS
  <2> QED
    BY <1>4, <2>1, Zenon DEF OpToRel
<1>3. \E i \in Scheduled : \A j \in Scheduled : i <= j
  <2>1. PICK i \in Scheduled : \A j \in Scheduled : ~ (<<j, i>> \in OpToRel(<, Nat))
    BY <1>2
  <2>2. ASSUME NEW j \in Scheduled PROVE ~(j < i)
    BY <1>1, <1>4, <2>1, Zenon
  <2> QED
    BY <1>1, <2>2
<1> QED
  BY <1>3 DEF NextReady

-----------------------------------------------------------------------------
(* Type correctness.                                                        *)

Task == [stage : Stages, answer : Answers, delay : 0 .. MaxDelay]
Entry == [answer : Answers, left : 0 .. TTL]

LEMMA AtType ==
  /\ \A stage \in Stages : At(stage) \in Task
  /\ \A a \in Answers : Resuming(a) \in Task /\ Stored(a) \in Entry
  /\ Expired \in Entry
  /\ \A s \in Sensors : AreaOf[s] \in Answers
  /\ Unknown \in Answers
  /\ \A m, a : Judged(m, a) \in Task /\ Judged(m, a).stage \in {"sending", "rejected"}
BY GatewayAssumption, Parameters
DEF At, Resuming, Stored, Expired, Stages, Task, Entry, Answers, Judged

LEMMA InitType == Init => TypeOK
<1> SUFFICES ASSUME Init PROVE TypeOK
  OBVIOUS
<1> USE Parameters
<1>1. /\ status \in [Sensors -> {"new", "active", "gone"}]
      /\ held \in [Sensors -> 0 .. Forever] /\ failed \in [Sensors -> 0 .. Forever]
  BY DEF Init
<1>2. cache \in [Sensors -> Entry]
  BY AtType DEF Init
<1>3. task \in [Ids -> Task]
  BY AtType DEF Init, Stages
<1>4. /\ mqtt \in Seq(Message) /\ Len(mqtt) = 0 /\ kafka \in Seq(1 .. Len(mqtt))
      /\ faults \in 0 .. MaxFaults
  BY EmptySeq DEF Init
<1>5. \A i \in Ids : task[i].stage = "absent" <=> i > Len(mqtt)
  BY <1>4 DEF Init, At, Ids
<1> QED
  BY <1>1, <1>2, <1>3, <1>4, <1>5 DEF TypeOK, Task, Entry

(* The coroutine of a message works on a sensor and is in the list.         *)
LEMMA TaskIsOfMessage ==
  ASSUME TypeOK, NEW i \in Ids, task[i].stage # "absent"
  PROVE  /\ i \in 1 .. Len(mqtt) /\ Len(mqtt) \in Nat
         /\ mqtt[i] \in Message /\ mqtt[i].sensor \in Sensors /\ mqtt[i].area \in Areas
<1>1. i \in 1 .. Len(mqtt) /\ Len(mqtt) \in Nat
  BY Parameters, LenProperties DEF TypeOK, Ids
<1>2. mqtt[i] \in Message
  BY <1>1, ElementOfSeq DEF TypeOK
<1> QED
  BY <1>1, <1>2 DEF Message

(* A coroutine that is waiting goes on to another stage.                     *)
LEMMA TaskStepType ==
  ASSUME TypeOK, NEW i \in Ids, task[i].stage # "absent", NEW t \in Task,
         t.stage # "absent", task' = [task EXCEPT ![i] = t]
  PROVE  task' \in [Ids -> Task] /\ \A j \in Ids : task'[j].stage = "absent" <=> j > Len(mqtt)
BY DEF TypeOK, Task

LEMMA StartType ==
  ASSUME TypeOK, Start
  PROVE  TypeOK'
<1> DEFINE i == NextReady(Scheduled)
           s == mqtt[i].sensor
<1>1. i \in Ids /\ task[i].stage = "scheduled"
  BY FirstScheduled DEF Start, Scheduled
<1> HIDE DEF i
<1>2. s \in Sensors
  BY <1>1, TaskIsOfMessage
<1>3. UNCHANGED <<status, held, failed, mqtt, kafka, faults>>
  BY DEF Start
<1>4. cache' = cache
  BY <1>2 DEF Start, AfterHit, TypeOK, i
<1>5. \E t \in Task : t.stage # "absent" /\ task' = [task EXCEPT ![i] = t]
  <2>1. CASE cache[s].left > 0
    BY <2>1, AtType DEF Start, i
  <2>2. CASE ~(cache[s].left > 0)
    <3>1. At("selecting") \in Task /\ At("selecting").stage = "selecting"
      BY AtType DEF Stages, At
    <3> QED
      BY <2>2, <3>1 DEF Start, i
  <2> QED
    BY <2>1, <2>2
<1>6. task' \in [Ids -> Task] /\ \A j \in Ids : task'[j].stage = "absent" <=> j > Len(mqtt)
  BY <1>1, <1>5, TaskStepType
<1> QED
  BY <1>3, <1>4, <1>6 DEF TypeOK, Task

LEMMA SelectType ==
  ASSUME TypeOK, NEW i \in Ids, Select(i) \/ SelectError(i)
  PROVE  TypeOK'
<1> DEFINE s == mqtt[i].sensor
           found == IF Select(i) /\ status[s] = "active" THEN AreaOf[s] ELSE Unknown
<1>1. task[i].stage = "selecting"
  BY DEF Select, SelectError
<1>2. s \in Sensors
  BY <1>1, TaskIsOfMessage
<1>3. \E a \in Answers : task' = [task EXCEPT ![i] = Resuming(a)]
  <2>1. CASE Select(i) /\ status[s] = "active"
    BY <1>2, <2>1, AtType DEF Select
  <2>2. CASE Select(i) /\ status[s] # "active"
    BY <1>2, <2>2, AtType DEF Select
  <2>3. CASE SelectError(i)
    BY <2>3, AtType DEF SelectError
  <2> QED
    BY <2>1, <2>2, <2>3
<1>4. PICK a \in Answers : task' = [task EXCEPT ![i] = Resuming(a)]
  BY <1>3
<1>5. Resuming(a) \in Task /\ Resuming(a).stage # "absent"
  BY AtType DEF Resuming
<1>6. task' \in [Ids -> Task] /\ \A j \in Ids : task'[j].stage = "absent" <=> j > Len(mqtt)
  BY <1>1, <1>4, <1>5, TaskStepType
<1>7. UNCHANGED <<status, held, cache, mqtt, kafka>> /\ faults' \in 0 .. MaxFaults
  BY Parameters DEF Select, SelectError, Fault, TypeOK
<1>8. failed' \in [Sensors -> 0 .. Forever]
  <2>1. failed \in [Sensors -> 0 .. Forever] /\ 0 \in 0 .. Forever
    BY Parameters DEF TypeOK
  <2>2. failed' = failed \/ failed' = [failed EXCEPT ![s] = 0]
    BY DEF Select, SelectError
  <2> QED
    BY <1>2, <2>1, <2>2
<1> QED
  BY <1>6, <1>7, <1>8 DEF TypeOK, Task

LEMMA ResumeType ==
  ASSUME TypeOK, NEW i \in Ids, Resume(i)
  PROVE  TypeOK'
<1>1. /\ task[i].stage = "resuming" /\ UNCHANGED <<status, held, failed, mqtt, kafka, faults>>
      /\ cache' = [cache EXCEPT ![mqtt[i].sensor] = Stored(task[i].answer)]
      /\ task' = [task EXCEPT ![i] = Judged(mqtt[i], task[i].answer)]
  BY DEF Resume
<1>2. mqtt[i].sensor \in Sensors /\ task[i].answer \in Answers
  BY <1>1, TaskIsOfMessage DEF TypeOK
<1>3. cache' \in [Sensors -> Entry]
  BY <1>1, <1>2, AtType DEF TypeOK, Entry
<1>4. /\ Judged(mqtt[i], task[i].answer) \in Task
      /\ Judged(mqtt[i], task[i].answer).stage # "absent"
  BY AtType
<1>5. task' \in [Ids -> Task] /\ \A j \in Ids : task'[j].stage = "absent" <=> j > Len(mqtt)
  BY <1>1, <1>4, TaskStepType
<1> QED
  BY <1>1, <1>3, <1>5 DEF TypeOK, Task, Entry

LEMMA SendType ==
  ASSUME TypeOK, NEW i \in Ids, Send(i) \/ SendError(i)
  PROVE  TypeOK'
<1>1. /\ task[i].stage = "sending" /\ UNCHANGED <<status, held, failed, cache, mqtt>>
      /\ task' = [task EXCEPT ![i] = At("done")] /\ kafka' \in {kafka, Append(kafka, i)}
  BY DEF Send, SendError
<1>2. At("done") \in Task /\ At("done").stage # "absent"
  BY AtType DEF Stages, At
<1>3. task' \in [Ids -> Task] /\ \A j \in Ids : task'[j].stage = "absent" <=> j > Len(mqtt)
  BY <1>1, <1>2, TaskStepType
<1>4. kafka' \in Seq(1 .. Len(mqtt))
  <2>1. i \in 1 .. Len(mqtt) /\ kafka \in Seq(1 .. Len(mqtt))
    BY <1>1, TaskIsOfMessage DEF TypeOK
  <2>2. Append(kafka, i) \in Seq(1 .. Len(mqtt))
    BY <2>1, AppendProperties
  <2> QED
    BY <1>1, <2>1, <2>2
<1>5. faults' \in 0 .. MaxFaults
  BY Parameters DEF Send, SendError, Fault, TypeOK
<1> QED
  BY <1>1, <1>3, <1>4, <1>5 DEF TypeOK, Task

LEMMA OnMessageType ==
  ASSUME TypeOK, NEW m \in Message, OnMessage(m)
  PROVE  TypeOK'
<1> DEFINE i == Len(mqtt) + 1
<1>1. /\ i \in Ids /\ mqtt' = Append(mqtt, m) /\ task' = [task EXCEPT ![i] = At("scheduled")]
      /\ UNCHANGED <<status, held, failed, cache, kafka, faults>>
  BY DEF OnMessage
<1>2. mqtt' \in Seq(Message) /\ Len(mqtt') = i /\ Len(mqtt) \in Nat
  BY <1>1, AppendProperties, LenProperties DEF TypeOK
<1>3. At("scheduled") \in Task /\ At("scheduled").stage = "scheduled"
  BY AtType DEF Stages, At
<1>4. task' \in [Ids -> Task]
  BY <1>1, <1>3 DEF TypeOK, Task
<1>5. \A j \in Ids : task'[j].stage = "absent" <=> j > Len(mqtt')
  <2> SUFFICES ASSUME NEW j \in Ids PROVE task'[j].stage = "absent" <=> j > i
    BY <1>2
  <2>1. j \in Nat /\ (task[j].stage = "absent" <=> j > Len(mqtt))
    BY Parameters DEF TypeOK, Ids
  <2>2. task'[j].stage = IF j = i THEN "scheduled" ELSE task[j].stage
    BY <1>1, <1>3 DEF TypeOK
  <2> QED
    BY <1>2, <2>1, <2>2
<1>6. kafka' \in Seq(1 .. Len(mqtt'))
  <2>1. 1 .. Len(mqtt) \subseteq 1 .. Len(mqtt')
    BY <1>2
  <2> QED
    BY <1>1, <2>1, SeqMonotonic DEF TypeOK
<1>7. Len(mqtt') <= MaxMessages
  BY <1>1, <1>2 DEF Ids
<1> QED
  BY <1>1, <1>2, <1>4, <1>5, <1>6, <1>7 DEF TypeOK, Task

LEMMA TickType ==
  ASSUME TypeOK, Tick
  PROVE  TypeOK'
<1> USE Parameters
<1>1. cache' \in [Sensors -> Entry]
  <2>1. ASSUME NEW s \in Sensors PROVE Aged(cache[s]) \in Entry
    <3>1. cache[s] \in Entry
      BY DEF TypeOK, Entry
    <3>2. CASE cache[s].left > 1
      BY <3>1, <3>2 DEF Aged, Entry
    <3>3. CASE ~(cache[s].left > 1)
      BY <3>3, AtType DEF Aged
    <3> QED
      BY <3>2, <3>3
  <2> QED
    BY <2>1 DEF Tick
<1>2. held' \in [Sensors -> 0 .. Forever] /\ failed' \in [Sensors -> 0 .. Forever]
  <2>1. \A n \in 0 .. Forever : Older(n) \in 0 .. Forever
    BY DEF Older
  <2> QED
    BY <2>1 DEF Tick, TypeOK
<1>3. \A i \in Ids : task'[i] \in Task /\ task'[i].stage = task[i].stage
  <2> SUFFICES ASSUME NEW i \in Ids PROVE task'[i] \in Task /\ task'[i].stage = task[i].stage
    OBVIOUS
  <2>1. task[i] \in Task /\ task[i].delay < MaxDelay
    BY DEF Tick, TypeOK, Task
  <2>2. task'[i] = IF task[i].stage \in {"resuming", "sending"}
                   THEN [task[i] EXCEPT !.delay = @ + 1] ELSE task[i]
    BY DEF Tick
  <2> QED
    BY <2>1, <2>2 DEF Task
<1>4. task' \in [Ids -> Task]
  BY <1>3 DEF Tick
<1>5. UNCHANGED <<status, mqtt, kafka, faults>>
  BY DEF Tick
<1>6. \A i \in Ids : task'[i].stage = "absent" <=> i > Len(mqtt)
  BY <1>3 DEF TypeOK
<1> QED
  BY <1>1, <1>2, <1>4, <1>5, <1>6 DEF TypeOK, Task, Entry

LEMMA RestartType ==
  ASSUME TypeOK, Restart
  PROVE  TypeOK'
<1>1. cache' \in [Sensors -> Entry]
  BY AtType DEF Restart
<1>2. At("done") \in Task /\ At("done").stage # "absent"
  BY AtType DEF Stages, At
<1>3. \A i \in Ids : task'[i] \in Task /\ (task'[i].stage = "absent" <=> task[i].stage = "absent")
  BY <1>2 DEF Restart, TypeOK, Task
<1>4. task' \in [Ids -> Task]
  BY <1>3 DEF Restart
<1>5. UNCHANGED <<status, held, failed, mqtt, kafka>> /\ faults' \in 0 .. MaxFaults
  BY Parameters DEF Restart, Fault, TypeOK
<1>6. \A i \in Ids : task'[i].stage = "absent" <=> i > Len(mqtt)
  BY <1>3 DEF TypeOK
<1> QED
  BY <1>1, <1>4, <1>5, <1>6 DEF TypeOK, Task, Entry

LEMMA NextType == TypeOK /\ [Next]_vars => TypeOK'
<1> SUFFICES ASSUME TypeOK, [Next]_vars PROVE TypeOK'
  OBVIOUS
<1>1. CASE \E s \in Sensors : CreateSensor(s) \/ Decommission(s)
  <2>1. PICK s \in Sensors : CreateSensor(s) \/ Decommission(s)
    BY <1>1
  <2>2. held \in [Sensors -> 0 .. Forever] /\ 0 \in 0 .. Forever
    BY Parameters DEF TypeOK
  <2>3. held' = [held EXCEPT ![s] = 0] /\ UNCHANGED <<failed, cache, mqtt, task, kafka, faults>>
    BY <2>1 DEF CreateSensor, Decommission
  <2>4. held' \in [Sensors -> 0 .. Forever]
    BY <2>2, <2>3
  <2>5. status' \in [Sensors -> {"new", "active", "gone"}]
    BY <2>1 DEF CreateSensor, Decommission, TypeOK
  <2> QED
    BY <2>3, <2>4, <2>5 DEF TypeOK
<1>2. CASE UNCHANGED vars
  BY <1>2 DEF vars, TypeOK
<1> QED
  BY <1>1, <1>2, OnMessageType, StartType, SelectType, ResumeType, SendType,
     RestartType, TickType
  DEF Next, Process

(* The cache, the coroutines and the topic keep their types: no coroutine is
   without a message, none is produced that never came.                     *)
THEOREM TypeCorrect == Spec => []TypeOK
<1> QED
  BY InitType, NextType, PTL DEF Spec

-----------------------------------------------------------------------------
(* What the cache and a coroutine know of a sensor was true, or the word of a
   failed lookup, not longer ago than the age of that knowledge.             *)

(* Answer a is right of a sensor of area own in status st, or was at most n
   ticks ago; h and f are the ticks since it changed and since a failure.    *)
Known(st, h, f, own, a, n) ==
  /\ a # Unknown => a = own /\ st # "new" /\ (st = "gone" => h <= n)
  /\ a = Unknown => st # "active" \/ h <= n \/ f <= n

CacheBound ==
  \A s \in Sensors : cache[s].left > 0 =>
    Known(status[s], held[s], failed[s], AreaOf[s], cache[s].answer,
          TTL + MaxDelay - cache[s].left)
ResumeBound ==
  \A i \in Ids, s \in Sensors : task[i].stage = "resuming" /\ mqtt[i].sensor = s =>
    Known(status[s], held[s], failed[s], AreaOf[s], task[i].answer, task[i].delay)
SendBound ==
  \A i \in Ids, s \in Sensors : task[i].stage = "sending" /\ mqtt[i].sensor = s =>
    Known(status[s], held[s], failed[s], AreaOf[s], mqtt[i].area,
          TTL + MaxDelay - 1 + task[i].delay)
Bound == CacheBound /\ ResumeBound /\ SendBound

(* What is known ages.                                                      *)
LEMMA KnownLonger ==
  ASSUME NEW st, NEW own, NEW a, NEW h \in Nat, NEW f \in Nat, NEW n \in Nat, NEW m \in Nat,
         n <= m, Known(st, h, f, own, a, n)
  PROVE  Known(st, h, f, own, a, m)
BY DEF Known

LEMMA KnownOlder ==
  ASSUME NEW st, NEW own, NEW a, NEW h \in Nat, NEW f \in Nat, NEW n \in Nat,
         Known(st, h, f, own, a, n)
  PROVE  Known(st, Older(h), Older(f), own, a, n + 1)
BY DEF Known, Older

LEMMA InitBound == Init => Bound
<1> SUFFICES ASSUME Init PROVE Bound
  OBVIOUS
<1>1. CacheBound
  BY DEF Init, CacheBound, Expired
<1>2. ResumeBound /\ SendBound
  BY DEF Init, ResumeBound, SendBound, At
<1> QED
  BY <1>1, <1>2 DEF Bound

(* The ages the invariant speaks of.                                        *)
LEMMA Ages ==
  ASSUME TypeOK
  PROVE  /\ \A s \in Sensors : /\ held[s] \in Nat /\ failed[s] \in Nat
                               /\ cache[s].left \in 0 .. TTL
                               /\ TTL + MaxDelay - cache[s].left \in Nat
         /\ \A i \in Ids : /\ task[i].delay \in 0 .. MaxDelay /\ task[i].delay \in Nat
                           /\ TTL + MaxDelay - 1 + task[i].delay \in Nat
<1> USE Parameters
<1>1. \A s \in Sensors : held[s] \in Nat /\ failed[s] \in Nat /\ cache[s].left \in 0 .. TTL
  BY DEF TypeOK
<1>2. \A n \in 0 .. TTL : TTL + MaxDelay - n \in Nat
  OBVIOUS
<1>3. \A i \in Ids : task[i].delay \in 0 .. MaxDelay
  BY DEF TypeOK
<1>4. \A d \in 0 .. MaxDelay : d \in Nat /\ TTL + MaxDelay - 1 + d \in Nat
  OBVIOUS
<1> QED
  BY <1>1, <1>2, <1>3, <1>4

(* A change of a sensor makes nothing known of it wrong at once.             *)
LEMMA KnownChanged ==
  ASSUME NEW st, NEW new \in {"active", "gone"}, NEW own, NEW a, NEW h, NEW f, NEW n \in Nat,
         Known(st, h, f, own, a, n)
  PROVE  Known(new, 0, f, own, a, n)
BY DEF Known

LEMMA GeoBound ==
  ASSUME TypeOK, Bound, NEW s \in Sensors, CreateSensor(s) \/ Decommission(s)
  PROVE  Bound'
<1>1. UNCHANGED <<failed, cache, mqtt, task>> /\ held' = [held EXCEPT ![s] = 0]
  BY DEF CreateSensor, Decommission
<1>2. \E new \in {"active", "gone"} : status' = [status EXCEPT ![s] = new]
  BY DEF CreateSensor, Decommission
<1>3. PICK new \in {"active", "gone"} : status' = [status EXCEPT ![s] = new]
  BY <1>2
<1>4. ASSUME NEW t \in Sensors, NEW a, NEW n \in Nat,
             Known(status[t], held[t], failed[t], AreaOf[t], a, n)
      PROVE  Known(status'[t], held'[t], failed'[t], AreaOf[t], a, n)
  <2>1. CASE t = s
    <3>1. status'[t] = new /\ held'[t] = 0 /\ failed'[t] = failed[t]
      BY <1>1, <1>3, <2>1 DEF TypeOK
    <3>2. Known(new, 0, failed[t], AreaOf[t], a, n)
      BY <1>4, KnownChanged
    <3> QED
      BY <3>1, <3>2
  <2>2. CASE t # s
    <3>1. status'[t] = status[t] /\ held'[t] = held[t] /\ failed'[t] = failed[t]
      BY <1>1, <1>3, <2>2 DEF TypeOK
    <3> QED
      BY <1>4, <3>1
  <2> QED
    BY <2>1, <2>2
<1>5. CacheBound'
  BY <1>1, <1>4, Ages DEF Bound, CacheBound
<1>6. ResumeBound'
  BY <1>1, <1>4, Ages DEF Bound, ResumeBound
<1>7. SendBound'
  BY <1>1, <1>4, Ages DEF Bound, SendBound
<1> QED
  BY <1>5, <1>6, <1>7 DEF Bound

LEMMA OnMessageBound ==
  ASSUME TypeOK, Bound, NEW m \in Message, OnMessage(m)
  PROVE  Bound'
<1>1. /\ Len(mqtt) + 1 \in Ids /\ UNCHANGED <<status, held, failed, cache>>
      /\ mqtt' = Append(mqtt, m)
      /\ task' = [task EXCEPT ![Len(mqtt) + 1] = At("scheduled")]
  BY DEF OnMessage
<1>2. CacheBound'
  BY <1>1 DEF Bound, CacheBound
<1>3. ASSUME NEW i \in Ids, task'[i].stage \in {"resuming", "sending"}
      PROVE  task'[i] = task[i] /\ mqtt'[i] = mqtt[i]
  <2>1. i # Len(mqtt) + 1 /\ task'[i] = task[i]
    BY <1>1, <1>3 DEF At, TypeOK
  <2>2. i \in 1 .. Len(mqtt)
    BY <1>3, <2>1, TaskIsOfMessage
  <2> QED
    BY <1>1, <2>1, <2>2, AppendProperties DEF TypeOK
<1>4. UNCHANGED <<status, held, failed>>
  BY <1>1
<1>5. ResumeBound' /\ SendBound'
  BY <1>3, <1>4 DEF Bound, ResumeBound, SendBound
<1> QED
  BY <1>2, <1>5 DEF Bound

(* One coroutine steps, to a state in which what it knows is known.          *)
LEMMA TaskBoundKept ==
  ASSUME TypeOK, Bound, NEW i \in Ids, NEW t, task' = [task EXCEPT ![i] = t],
         UNCHANGED <<status, held, failed, mqtt>>,
         NEW s \in Sensors, s = mqtt[i].sensor,
         t.stage = "resuming" =>
           Known(status[s], held[s], failed[s], AreaOf[s], t.answer, t.delay),
         t.stage = "sending" =>
           Known(status[s], held[s], failed[s], AreaOf[s], mqtt[i].area,
                 TTL + MaxDelay - 1 + t.delay)
  PROVE  ResumeBound' /\ SendBound'
<1>1. \A j \in Ids : task'[j] = IF j = i THEN t ELSE task[j]
  BY DEF TypeOK
<1>2. ResumeBound'
  BY <1>1 DEF Bound, ResumeBound
<1>3. SendBound'
  BY <1>1 DEF Bound, SendBound
<1> QED
  BY <1>2, <1>3

(* A message judged by an answer that is known is sent by what is known.    *)
LEMMA JudgedBound ==
  ASSUME NEW st, NEW own, NEW a, NEW h \in Nat, NEW f \in Nat, NEW n \in Nat, NEW m,
         n <= TTL + MaxDelay - 1, Known(st, h, f, own, a, n),
         Judged(m, a).stage = "sending"
  PROVE  Known(st, h, f, own, m.area, TTL + MaxDelay - 1 + Judged(m, a).delay)
<1>1. a = m.area /\ Judged(m, a).delay = 0
  BY DEF Judged, Accepts, At
<1>2. TTL + MaxDelay - 1 \in Nat /\ TTL + MaxDelay - 1 + 0 = TTL + MaxDelay - 1
  BY Parameters
<1>3. Known(st, h, f, own, a, TTL + MaxDelay - 1)
  BY <1>2, KnownLonger
<1> QED
  BY <1>1, <1>2, <1>3

LEMMA StartBound ==
  ASSUME TypeOK, Bound, Start
  PROVE  Bound'
<1> DEFINE i == NextReady(Scheduled)
           s == mqtt[i].sensor
<1>1. i \in Ids /\ task[i].stage = "scheduled"
  BY FirstScheduled DEF Start, Scheduled
<1> HIDE DEF i
<1>2. s \in Sensors
  BY <1>1, TaskIsOfMessage
<1>3. UNCHANGED <<status, held, failed, mqtt>> /\ cache' = cache
  BY <1>2 DEF Start, AfterHit, i, TypeOK
<1>4. CASE cache[s].left > 0
  <2> DEFINE t == Judged(mqtt[i], cache[s].answer)
             n == TTL + MaxDelay - cache[s].left
  <2>1. task' = [task EXCEPT ![i] = t]
    BY <1>4 DEF Start, i
  <2>2. n \in Nat /\ n <= TTL + MaxDelay - 1 /\ held[s] \in Nat /\ failed[s] \in Nat
    BY <1>2, <1>4, Ages, Parameters
  <2>3. Known(status[s], held[s], failed[s], AreaOf[s], cache[s].answer, n)
    BY <1>2, <1>4 DEF Bound, CacheBound
  <2> HIDE DEF n
  <2>4. t.stage = "sending" =>
          Known(status[s], held[s], failed[s], AreaOf[s], mqtt[i].area,
                TTL + MaxDelay - 1 + t.delay)
    BY <2>2, <2>3, JudgedBound
  <2>5. t.stage # "resuming"
    BY AtType
  <2> HIDE DEF t
  <2> QED
    BY <1>1, <1>2, <1>3, <2>1, <2>4, <2>5, TaskBoundKept DEF Bound, CacheBound
<1>5. CASE ~(cache[s].left > 0)
  <2>1. task' = [task EXCEPT ![i] = At("selecting")]
    BY <1>5 DEF Start, i
  <2>2. At("selecting").stage = "selecting"
    BY DEF At
  <2>3. ResumeBound' /\ SendBound'
    BY <1>1, <1>2, <1>3, <2>1, <2>2, TaskBoundKept
  <2> QED
    BY <1>3, <2>3 DEF Bound, CacheBound
<1> QED
  BY <1>4, <1>5

(* The SELECT answers an active sensor with its area, any other not at all; a
   failed one is remembered as such.                                         *)
LEMMA SelectBound ==
  ASSUME TypeOK, Bound, NEW i \in Ids, Select(i) \/ SelectError(i)
  PROVE  Bound'
<1> DEFINE s == mqtt[i].sensor
<1>1. task[i].stage = "selecting" /\ UNCHANGED <<status, held, cache, mqtt>>
  BY DEF Select, SelectError
<1>2. s \in Sensors
  BY <1>1, TaskIsOfMessage
<1>3. \E a : /\ task' = [task EXCEPT ![i] = Resuming(a)]
             /\ Known(status[s], held[s], failed'[s], AreaOf[s], a, 0)
  <2>1. CASE Select(i) /\ status[s] = "active"
    <3>1. task' = [task EXCEPT ![i] = Resuming(AreaOf[s])] /\ AreaOf[s] # Unknown
      BY <1>2, <2>1, GatewayAssumption DEF Select
    <3>2. Known(status[s], held[s], failed'[s], AreaOf[s], AreaOf[s], 0)
      BY <2>1, <3>1 DEF Known
    <3> QED
      BY <3>1, <3>2
  <2>2. CASE Select(i) /\ status[s] # "active"
    <3>1. task' = [task EXCEPT ![i] = Resuming(Unknown)]
      BY <2>2 DEF Select
    <3>2. Known(status[s], held[s], failed'[s], AreaOf[s], Unknown, 0)
      BY <2>2 DEF Known
    <3> QED
      BY <3>1, <3>2
  <2>3. CASE SelectError(i)
    <3>1. task' = [task EXCEPT ![i] = Resuming(Unknown)] /\ failed'[s] = 0
      BY <1>2, <2>3 DEF SelectError, TypeOK
    <3>2. Known(status[s], held[s], failed'[s], AreaOf[s], Unknown, 0)
      BY <3>1 DEF Known
    <3> QED
      BY <3>1, <3>2
  <2> QED
    BY <2>1, <2>2, <2>3
<1>4. PICK a : /\ task' = [task EXCEPT ![i] = Resuming(a)]
               /\ Known(status[s], held[s], failed'[s], AreaOf[s], a, 0)
  BY <1>3
<1>5. ASSUME NEW r \in Sensors, NEW b, NEW n \in Nat,
             Known(status[r], held[r], failed[r], AreaOf[r], b, n)
      PROVE  Known(status'[r], held'[r], failed'[r], AreaOf[r], b, n)
  <2>1. status'[r] = status[r] /\ held'[r] = held[r] /\ failed'[r] \in {failed[r], 0}
    BY <1>1, <1>2 DEF Select, SelectError, TypeOK
  <2>2. Known(status[r], held[r], 0, AreaOf[r], b, n)
    BY <1>5 DEF Known
  <2> QED
    BY <1>5, <2>1, <2>2
<1>6. \A j \in Ids : task'[j] = IF j = i THEN Resuming(a) ELSE task[j]
  BY <1>4 DEF TypeOK
<1>7. CacheBound'
  BY <1>1, <1>5, Ages DEF Bound, CacheBound
<1>8. ResumeBound'
  <2>1. Resuming(a).delay = 0 /\ Resuming(a).answer = a
    BY DEF Resuming
  <2>2. \A j \in Ids \ {i}, r \in Sensors : task[j].stage = "resuming" /\ mqtt[j].sensor = r =>
          Known(status'[r], held'[r], failed'[r], AreaOf[r], task[j].answer, task[j].delay)
    BY <1>5, Ages DEF Bound, ResumeBound
  <2> QED
    BY <1>1, <1>4, <1>6, <2>1, <2>2 DEF ResumeBound
<1>9. SendBound'
  <2>1. Resuming(a).stage = "resuming"
    BY DEF Resuming
  <2>2. \A j \in Ids \ {i}, r \in Sensors : task[j].stage = "sending" /\ mqtt[j].sensor = r =>
          Known(status'[r], held'[r], failed'[r], AreaOf[r], mqtt[j].area,
                TTL + MaxDelay - 1 + task[j].delay)
    BY <1>5, Ages DEF Bound, SendBound
  <2> QED
    BY <1>1, <1>6, <2>1, <2>2 DEF SendBound
<1> QED
  BY <1>7, <1>8, <1>9 DEF Bound

LEMMA ResumeBoundKept ==
  ASSUME TypeOK, Bound, NEW i \in Ids, Resume(i)
  PROVE  Bound'
<1> DEFINE s == mqtt[i].sensor
           t == Judged(mqtt[i], task[i].answer)
<1>1. /\ task[i].stage = "resuming" /\ UNCHANGED <<status, held, failed, mqtt>>
      /\ cache' = [cache EXCEPT ![s] = Stored(task[i].answer)]
      /\ task' = [task EXCEPT ![i] = t]
  BY DEF Resume
<1>2. s \in Sensors
  BY <1>1, TaskIsOfMessage
<1>3. Known(status[s], held[s], failed[s], AreaOf[s], task[i].answer, task[i].delay)
  BY <1>1, <1>2 DEF Bound, ResumeBound
<1>4. /\ task[i].delay \in Nat /\ task[i].delay <= MaxDelay
      /\ task[i].delay <= TTL + MaxDelay - 1 /\ held[s] \in Nat /\ failed[s] \in Nat
  BY <1>2, Ages, Parameters
<1>5. t.stage = "sending" =>
        Known(status[s], held[s], failed[s], AreaOf[s], mqtt[i].area,
              TTL + MaxDelay - 1 + t.delay)
  BY <1>3, <1>4, JudgedBound
<1>6. t.stage # "resuming"
  BY AtType
<1>7. ResumeBound' /\ SendBound'
  <2> HIDE DEF t
  <2> QED
    BY <1>1, <1>2, <1>5, <1>6, TaskBoundKept
<1>8. CacheBound'
  <2>1. Known(status[s], held[s], failed[s], AreaOf[s], task[i].answer, MaxDelay)
    BY <1>3, <1>4, KnownLonger, Parameters
  <2>2. TTL + MaxDelay - TTL = MaxDelay
    BY Parameters
  <2>3. \A r \in Sensors : cache'[r] = IF r = s THEN Stored(task[i].answer) ELSE cache[r]
    BY <1>1 DEF TypeOK
  <2>4. Stored(task[i].answer).answer = task[i].answer /\ Stored(task[i].answer).left = TTL
    BY DEF Stored
  <2> QED
    BY <1>1, <2>1, <2>2, <2>3, <2>4 DEF Bound, CacheBound
<1> QED
  BY <1>7, <1>8 DEF Bound

LEMMA SendBoundKept ==
  ASSUME TypeOK, Bound, NEW i \in Ids, Send(i) \/ SendError(i)
  PROVE  Bound'
<1>1. /\ task[i].stage = "sending" /\ UNCHANGED <<status, held, failed, cache, mqtt>>
      /\ task' = [task EXCEPT ![i] = At("done")]
  BY DEF Send, SendError
<1>2. mqtt[i].sensor \in Sensors
  BY <1>1, TaskIsOfMessage
<1>3. At("done").stage = "done"
  BY DEF At
<1>4. ResumeBound' /\ SendBound'
  BY <1>1, <1>2, <1>3, TaskBoundKept
<1> QED
  BY <1>1, <1>4 DEF Bound, CacheBound

LEMMA RestartBound ==
  ASSUME TypeOK, Bound, Restart
  PROVE  Bound'
<1>1. CacheBound'
  BY DEF Restart, CacheBound, Expired
<1>2. \A i \in Ids : task'[i].stage \notin {"resuming", "sending"}
  BY DEF Restart, At, TypeOK
<1> QED
  BY <1>1, <1>2 DEF Bound, ResumeBound, SendBound

(* A tick ages an entry, an answer on its way, a message in the producer and
   what has changed alike.                                                  *)
LEMMA TickBound ==
  ASSUME TypeOK, Bound, Tick
  PROVE  Bound'
<1>1. /\ UNCHANGED <<status, mqtt>> /\ cache' = [s \in Sensors |-> Aged(cache[s])]
      /\ held' = [s \in Sensors |-> Older(held[s])]
      /\ failed' = [s \in Sensors |-> Older(failed[s])]
      /\ task' = [i \in Ids |-> IF task[i].stage \in {"resuming", "sending"}
                                 THEN [task[i] EXCEPT !.delay = @ + 1] ELSE task[i]]
  BY DEF Tick
<1>2. ASSUME NEW s \in Sensors, NEW a, NEW n \in Nat,
             Known(status[s], held[s], failed[s], AreaOf[s], a, n)
      PROVE  Known(status'[s], held'[s], failed'[s], AreaOf[s], a, n + 1)
  <2>1. held[s] \in Nat /\ failed[s] \in Nat
    BY Ages
  <2>2. /\ status'[s] = status[s] /\ held'[s] = Older(held[s])
        /\ failed'[s] = Older(failed[s])
    BY <1>1
  <2>3. Known(status[s], Older(held[s]), Older(failed[s]), AreaOf[s], a, n + 1)
    BY <1>2, <2>1, KnownOlder
  <2> QED
    BY <2>2, <2>3
<1>3. CacheBound'
  <2> SUFFICES ASSUME NEW s \in Sensors, cache'[s].left > 0
               PROVE  Known(status'[s], held'[s], failed'[s], AreaOf[s], cache'[s].answer,
                            TTL + MaxDelay - cache'[s].left)
    BY DEF CacheBound
  <2> DEFINE n == TTL + MaxDelay - cache[s].left
  <2>1. cache[s] \in Entry /\ cache'[s] = Aged(cache[s])
    BY <1>1 DEF TypeOK, Entry
  <2>2. cache[s].left > 1
    BY <2>1 DEF Aged, Expired
  <2>3. cache'[s].answer = cache[s].answer /\ cache'[s].left = cache[s].left - 1
    BY <2>1, <2>2 DEF Aged, Entry
  <2>4. n \in Nat /\ cache[s].left \in Nat /\ cache[s].left > 0
    BY <2>2, Ages
  <2>5. TTL + MaxDelay - cache'[s].left = n + 1
    BY <2>3, <2>4, Parameters
  <2>6. Known(status[s], held[s], failed[s], AreaOf[s], cache[s].answer, n)
    BY <2>4 DEF Bound, CacheBound
  <2> HIDE DEF n
  <2> QED
    BY <1>2, <2>3, <2>4, <2>5, <2>6
<1>4. ASSUME NEW i \in Ids, task'[i].stage \in {"resuming", "sending"}
      PROVE  /\ task'[i].stage = task[i].stage /\ task'[i].answer = task[i].answer
             /\ task'[i].delay = task[i].delay + 1
  <2>1. task[i] \in Task /\ task[i].delay \in Nat
    BY Ages DEF TypeOK, Task
  <2>2. task'[i] = IF task[i].stage \in {"resuming", "sending"}
                   THEN [task[i] EXCEPT !.delay = @ + 1] ELSE task[i]
    BY <1>1
  <2> QED
    BY <1>4, <2>1, <2>2 DEF Task
<1>5. ResumeBound'
  <2> SUFFICES ASSUME NEW i \in Ids, NEW s \in Sensors, task'[i].stage = "resuming",
                      mqtt'[i].sensor = s
               PROVE  Known(status'[s], held'[s], failed'[s], AreaOf[s], task'[i].answer,
                            task'[i].delay)
    BY DEF ResumeBound
  <2>1. Known(status[s], held[s], failed[s], AreaOf[s], task[i].answer, task[i].delay)
    BY <1>1, <1>4 DEF Bound, ResumeBound
  <2>2. task[i].delay \in Nat
    BY Ages
  <2> QED
    BY <1>2, <1>4, <2>1, <2>2
<1>6. SendBound'
  <2> SUFFICES ASSUME NEW i \in Ids, NEW s \in Sensors, task'[i].stage = "sending",
                      mqtt'[i].sensor = s
               PROVE  Known(status'[s], held'[s], failed'[s], AreaOf[s], mqtt'[i].area,
                            TTL + MaxDelay - 1 + task'[i].delay)
    BY DEF SendBound
  <2> DEFINE n == TTL + MaxDelay - 1 + task[i].delay
  <2>1. Known(status[s], held[s], failed[s], AreaOf[s], mqtt[i].area, n)
    BY <1>1, <1>4 DEF Bound, SendBound
  <2>2. task[i].delay \in Nat /\ n \in Nat
    BY Ages
  <2>3. TTL + MaxDelay - 1 + task'[i].delay = n + 1
    BY <1>4, <2>2, Parameters
  <2>4. mqtt'[i] = mqtt[i]
    BY <1>1
  <2> HIDE DEF n
  <2> QED
    BY <1>2, <2>1, <2>2, <2>3, <2>4
<1> QED
  BY <1>3, <1>5, <1>6 DEF Bound

LEMMA NextBound == TypeOK /\ Bound /\ [Next]_vars => Bound'
<1> SUFFICES ASSUME TypeOK, Bound, [Next]_vars PROVE Bound'
  OBVIOUS
<1>1. CASE UNCHANGED vars
  BY <1>1 DEF vars, Bound, CacheBound, ResumeBound, SendBound
<1> QED
  BY <1>1, GeoBound, OnMessageBound, StartBound, SelectBound, ResumeBoundKept, SendBoundKept,
     RestartBound, TickBound DEF Next, Process

LEMMA BoundAlways == Spec => [](TypeOK /\ Bound)
BY InitType, NextType, InitBound, NextBound, PTL DEF Spec

-----------------------------------------------------------------------------
(* What is produced.                                                        *)

Admitted ==
  kafka' # kafka =>
    LET m == mqtt[Last(kafka')] IN
    /\ m.area = AreaOf[m.sensor]
    /\ status[m.sensor] # "new"
    /\ status[m.sensor] = "gone" => held[m.sensor] < TTL + 2 * MaxDelay

LEMMA StepAdmits == TypeOK /\ Bound /\ [Next]_vars => Admitted
<1> SUFFICES ASSUME TypeOK, Bound, [Next]_vars PROVE Admitted
  OBVIOUS
<1>1. ASSUME NEW i \in Ids, Send(i) PROVE Admitted
  <2> DEFINE m == mqtt[i]
             s == mqtt[i].sensor
  <2>1. task[i].stage = "sending" /\ kafka' = Append(kafka, i)
    BY <1>1 DEF Send
  <2>2. i \in 1 .. Len(mqtt) /\ m \in Message /\ s \in Sensors /\ m.area \in Areas
    BY <2>1, TaskIsOfMessage
  <2>3. Last(kafka') = i
    BY <2>1, <2>2, AppendProperties, LenProperties DEF TypeOK, Last
  <2>4. Known(status[s], held[s], failed[s], AreaOf[s], m.area,
              TTL + MaxDelay - 1 + task[i].delay)
    BY <2>1, <2>2 DEF Bound, SendBound
  <2>5. m.area # Unknown
    BY <2>2, GatewayAssumption
  <2>6. held[s] <= TTL + MaxDelay - 1 + task[i].delay => held[s] < TTL + 2 * MaxDelay
    <3>1. /\ held[s] \in Nat /\ task[i].delay \in Nat /\ task[i].delay <= MaxDelay
          /\ TTL \in Nat /\ MaxDelay \in Nat
      BY <2>2, Ages, Parameters
    <3> QED
      BY <3>1
  <2> QED
    BY <2>3, <2>4, <2>5, <2>6 DEF Admitted, Known
<1>2. ASSUME UNCHANGED kafka PROVE Admitted
  BY <1>2 DEF Admitted
<1> QED
  BY <1>1, <1>2 DEF Next, Process, CreateSensor, Decommission, OnMessage, Start, Select,
     SelectError, Resume, SendError, Restart, Tick, vars

(* Whatever lookups race with a registration, a decommissioning, an error or
   each other: what the gateway produces claims its sensor's own area, and the
   sensor is registered or stopped being so less ago than an entry lives plus
   what an answer and the producer take.                                    *)
THEOREM AdmittedWhileBoundAlways == Spec => AdmittedWhileBound
<1>1. TypeOK /\ Bound /\ [Next]_vars => [Admitted]_vars
  BY StepAdmits
<1> QED
  BY <1>1, BoundAlways, PTL DEF Spec, AdmittedWhileBound, Admitted

-----------------------------------------------------------------------------
(* What is rejected.                                                        *)

Rejects == \A i \in Ids : task[i].stage # "rejected" /\ task'[i].stage = "rejected"
                          => Cause(mqtt[i])

(* A message that is rejected by an answer that is known has a cause.        *)
LEMMA JudgedForCause ==
  ASSUME TypeOK, NEW i \in Ids, mqtt[i].sensor \in Sensors, NEW a, NEW n \in Nat,
         n < TTL + MaxDelay,
         Known(status[mqtt[i].sensor], held[mqtt[i].sensor], failed[mqtt[i].sensor],
               AreaOf[mqtt[i].sensor], a, n),
         Judged(mqtt[i], a).stage = "rejected"
  PROVE  Cause(mqtt[i])
<1> DEFINE s == mqtt[i].sensor
<1>1. a # mqtt[i].area
  BY DEF Judged, Accepts, At
<1>2. held[s] \in Nat /\ failed[s] \in Nat /\ TTL + MaxDelay \in Nat
  BY Ages, Parameters
<1>3. CASE a # Unknown
  BY <1>1, <1>3 DEF Known, Cause
<1>4. CASE a = Unknown
  <2>1. status[s] # "active" \/ held[s] <= n \/ failed[s] <= n
    BY <1>4 DEF Known
  <2>2. (held[s] <= n => held[s] < TTL + MaxDelay)
        /\ (failed[s] <= n => failed[s] < TTL + MaxDelay)
    BY <1>2
  <2> QED
    BY <2>1, <2>2 DEF Cause
<1> QED
  BY <1>3, <1>4

LEMMA StepRejects == TypeOK /\ Bound /\ [Next]_vars => Rejects
<1> SUFFICES ASSUME TypeOK, Bound, [Next]_vars, NEW i \in Ids,
                    task[i].stage # "rejected", task'[i].stage = "rejected"
             PROVE  Cause(mqtt[i])
  BY DEF Rejects
<1>1. CASE Start
  <2> DEFINE j == NextReady(Scheduled)
             s == mqtt[j].sensor
  <2>1. j \in Ids /\ task[j].stage = "scheduled"
    BY <1>1, FirstScheduled DEF Start, Scheduled
  <2> HIDE DEF j
  <2>2. s \in Sensors
    BY <2>1, TaskIsOfMessage
  <2>3. i = j /\ cache[s].left > 0 /\ Judged(mqtt[j], cache[s].answer).stage = "rejected"
    <3>1. CASE cache[s].left > 0
      <4>1. task' = [task EXCEPT ![j] = Judged(mqtt[j], cache[s].answer)]
        BY <1>1, <3>1 DEF Start, j
      <4> QED
        BY <3>1, <4>1 DEF TypeOK
    <3>2. CASE ~(cache[s].left > 0)
      <4>1. task' = [task EXCEPT ![j] = At("selecting")]
        BY <1>1, <3>2 DEF Start, j
      <4> QED
        BY <4>1 DEF TypeOK, At
    <3> QED
      BY <3>1, <3>2
  <2>4. /\ TTL + MaxDelay - cache[s].left \in Nat
        /\ TTL + MaxDelay - cache[s].left < TTL + MaxDelay
    BY <2>2, <2>3, Ages, Parameters
  <2>5. Known(status[s], held[s], failed[s], AreaOf[s], cache[s].answer,
              TTL + MaxDelay - cache[s].left)
    BY <2>2, <2>3 DEF Bound, CacheBound
  <2> QED
    BY <2>2, <2>3, <2>4, <2>5, JudgedForCause
<1>2. ASSUME NEW j \in Ids, Resume(j) PROVE Cause(mqtt[i])
  <2> DEFINE s == mqtt[j].sensor
  <2>1. /\ task[j].stage = "resuming"
        /\ task' = [task EXCEPT ![j] = Judged(mqtt[j], task[j].answer)]
    BY <1>2 DEF Resume
  <2>2. s \in Sensors
    BY <2>1, TaskIsOfMessage
  <2>3. i = j /\ Judged(mqtt[j], task[j].answer).stage = "rejected"
    BY <2>1 DEF TypeOK
  <2>4. task[j].delay \in Nat /\ task[j].delay < TTL + MaxDelay
    BY Ages, Parameters
  <2>5. Known(status[s], held[s], failed[s], AreaOf[s], task[j].answer, task[j].delay)
    BY <2>1, <2>2 DEF Bound, ResumeBound
  <2> QED
    BY <2>2, <2>3, <2>4, <2>5, JudgedForCause
<1>3. ASSUME NEW j \in Ids, NEW t, t.stage # "rejected", task' = [task EXCEPT ![j] = t]
      PROVE  FALSE
  BY <1>3 DEF TypeOK
<1>4. \A a, stage : Resuming(a).stage # "rejected" /\ At(stage).stage = stage
  BY DEF Resuming, At
<1>5. CASE \E j \in Ids : Select(j) \/ SelectError(j) \/ Send(j) \/ SendError(j)
  <2>1. PICK j \in Ids : Select(j) \/ SelectError(j) \/ Send(j) \/ SendError(j)
    BY <1>5
  <2>2. \E t : t.stage # "rejected" /\ task' = [task EXCEPT ![j] = t]
    BY <1>4, <2>1 DEF Select, SelectError, Send, SendError
  <2> QED
    BY <1>3, <2>2
<1>6. CASE \E m \in Message : OnMessage(m)
  <2>1. /\ Len(mqtt) + 1 \in Ids
        /\ task' = [task EXCEPT ![Len(mqtt) + 1] = At("scheduled")]
    BY <1>6 DEF OnMessage
  <2> QED
    BY <1>3, <1>4, <2>1
<1>7. CASE Restart
  BY <1>4, <1>7 DEF Restart
<1>8. CASE Tick
  <2>1. task[i] \in Task
    BY DEF TypeOK, Task
  <2> QED
    BY <1>8, <2>1 DEF Tick, Task
<1>9. CASE UNCHANGED task
  BY <1>9
<1> QED
  BY <1>1, <1>2, <1>5, <1>6, <1>7, <1>8, <1>9 DEF Next, Process, CreateSensor, Decommission,
     vars

(* A message is rejected only if it claims a wrong area, or its sensor is not
   active or has been so for less than an entry lives and an answer takes, or
   a lookup of it failed within that time.                                  *)
THEOREM RejectedForCauseAlways == Spec => RejectedForCause
<1>1. TypeOK /\ Bound /\ [Next]_vars => [Rejects]_vars
  BY StepRejects
<1> QED
  BY <1>1, BoundAlways, PTL DEF Spec, RejectedForCause, Rejects
=============================================================================
