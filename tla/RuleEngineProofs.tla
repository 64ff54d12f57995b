-------------------------- MODULE RuleEngineProofs --------------------------
(* Theorems about the rule engine, for any sets of sensors, areas and
   parameters and any bounds.                                               *)
EXTENDS RuleEngine, FiniteSetTheorems, TLAPS

-----------------------------------------------------------------------------
(* Type correctness.                                                        *)

LEMMA InitType == Init => TypeOK
<1> SUFFICES ASSUME Init PROVE TypeOK
  OBVIOUS
<1>1. \A k \in Keys : SensorsOn(k) \subseteq Sensors
  BY DEF SensorsOn
<1>2. \A k \in Keys : Cardinality(SensorsOn(k)) \in Nat
  BY <1>1, FS_Subset, FS_CardinalityType, DeploymentAssumption
<1>3. (CHOOSE s \in Sensors : TRUE) \in Sensors
  BY DeploymentAssumption
<1>4. (CHOOSE p \in Parameters : TRUE) \in Parameters
  BY DeploymentAssumption
<1>5. RedisType
  BY <1>2 DEF Init, RedisType
<1>6. TaskType
  BY <1>3, <1>4 DEF Init, TaskType, Idle, Workers, PCs
<1>7. KafkaType
  BY DEF Init, KafkaType, NoOffset
<1>8. BoundType
  BY DEF Init, BoundType
<1>9. sent \in Seq(Alert)
  BY DEF Init
<1>11. races \in Nat
  BY DEF Init
<1>10. episode \in [Sensors -> Nat] /\ begun \in [Workers -> Nat]
  BY DEF Init
<1> QED
  BY <1>5, <1>6, <1>7, <1>8, <1>9, <1>10, <1>11 DEF TypeOK, HistoryType

LEMMA AlertType ==
  ASSUME NEW s \in Sensors, NEW p \in Parameters, NEW n \in Nat, NEW e \in Nat
  PROVE  /\ FaultAlerts(s, p, n, e) \in Seq(Alert)
         /\ <<MakeAlert("threshold", "high", s, p, n, e)>> \in Seq(Alert)
<1>1. \A kind \in {"threshold", "malfunction", "priority"},
         severity \in {"low", "medium", "high"}, m \in Nat :
         MakeAlert(kind, severity, s, p, m, e) \in Alert
  BY DEF MakeAlert, Alert
<1> QED
  BY <1>1 DEF FaultAlerts

(* The key a task works on exists.                                          *)
LEMMA JobKey ==
  ASSUME TypeOK, NEW w \in Workers, NEW p \in Parameters
  PROVE  KeyOf(job[w], p) \in Keys
BY DeploymentAssumption DEF TypeOK, TaskType, KeyOf, Keys

LEMMA DecrementedType ==
  ASSUME TypeOK, NEW w \in Workers, NEW p \in Parameters, NEW n \in Nat,
         Decremented(w, p, n), UNCHANGED <<job, unscanned>>,
         par' \in [Workers -> Parameters]
  PROVE  TaskType'
<1> USE DEF TypeOK, TaskType, HistoryType
<1>1. FaultAlerts(job[w], p, n, begun[w]) \in Seq(Alert)
  BY AlertType
<1>2. pending[w] \o FaultAlerts(job[w], p, n, begun[w]) \in Seq(Alert)
  BY <1>1
<1>3. pending' \in [Workers -> Seq(Alert)]
  BY <1>2 DEF Decremented, Returned
<1>4. todo' \in [Workers -> SUBSET Parameters]
  BY DEF Decremented
<1>5. pc' \in [Workers -> PCs] /\ pc'["consumer"] # "scan"
      /\ pc'["watchdog"] \notin {"recover", "delete", "incr", "emit"}
  BY DEF Decremented, AfterTracker, Workers, PCs
<1> QED
  BY <1>3, <1>4, <1>5

LEMMA TrackerType ==
  ASSUME TypeOK, NEW w \in Workers, Tracker(w)
  PROVE  TypeOK'
<1>1. CASE IncrFault(w)
  <2> USE <1>1 DEF IncrFault, TypeOK
  <2>1. KafkaType' /\ BoundType'
    BY DEF KafkaType, BoundType, kafka, bounds
  <2>2. job[w] \in Sensors
    BY DEF TaskType
  <2>3. RedisType'
    BY <2>2 DEF RedisType
  <2>4. HistoryType'
    BY <2>2 DEF HistoryType, Workers
  <2>5. TaskType'
    BY DEF TaskType, AfterTracker, Workers, PCs
  <2> QED
    BY <2>1, <2>3, <2>4, <2>5
<1>2. ASSUME NEW p \in Parameters, Decr(w, p)
      PROVE  TypeOK'
  <2> DEFINE k == KeyOf(job[w], p)
             n == count[k] - 1
  <2> USE <1>2 DEF Decr
  <2>1. k \in Keys
    BY JobKey
  <2>2. n \in Int /\ RedisType'
    BY <2>1 DEF TypeOK, RedisType
  <2>3. KafkaType' /\ BoundType' /\ HistoryType'
    BY DEF TypeOK, KafkaType, BoundType, HistoryType, kafka, bounds, runs
  <2>4. CASE n < 0
    <3>1. TaskType'
      BY <2>4 DEF TypeOK, TaskType, Workers, PCs
    <3> QED
      BY <2>2, <2>3, <3>1 DEF TypeOK
  <2>5. CASE n >= 0
    <3>1. n \in Nat /\ ~(n < 0)
      BY <2>2, <2>5
    <3>2. Decremented(w, p, n) /\ UNCHANGED <<par, job, unscanned>>
      BY <3>1
    <3>3. par' \in [Workers -> Parameters]
      BY <3>2 DEF TypeOK, TaskType
    <3>4. TaskType'
      BY <3>1, <3>2, <3>3, DecrementedType
    <3> QED
      BY <2>2, <2>3, <3>4 DEF TypeOK
  <2> QED
    BY <2>2, <2>4, <2>5
<1>3. CASE Clamp(w)
  <2> USE <1>3 DEF Clamp
  <2>1. par[w] \in Parameters /\ par' \in [Workers -> Parameters]
    BY DEF TypeOK, TaskType
  <2>2. RedisType'
    BY <2>1, JobKey DEF TypeOK, RedisType
  <2>3. KafkaType' /\ BoundType' /\ HistoryType'
    <3>1. races \in Nat /\ races' \in Nat
      BY DEF TypeOK, HistoryType
    <3> QED
      BY <3>1 DEF TypeOK, KafkaType, BoundType, HistoryType, kafka, bounds, runs
  <2>4. TaskType'
    BY <2>1, DecrementedType, 0 \in Nat
  <2> QED
    BY <2>2, <2>3, <2>4 DEF TypeOK
<1> QED
  BY <1>1, <1>2, <1>3 DEF Tracker

LEMMA ConsumerType ==
  ASSUME TypeOK, ConsumerStep
  PROVE  TypeOK'
<1>c. "consumer" \in Workers
  BY DEF Workers
<1>1. ASSUME NEW a \in Areas, Fetch(a)
      PROVE  TypeOK'
  <2> DEFINE w == "consumer"
             r == log[a][position[a] + 1]
  <2> USE <1>1 DEF Fetch, TypeOK
  <2>1. r \in Reading
    BY DEF KafkaType
  <2>2. r.sensor \in Sensors /\ Measures[r.sensor] \in SUBSET Parameters
    BY <2>1, DeploymentAssumption DEF Reading
  <2>3. KafkaType' /\ RedisType' /\ BoundType' /\ HistoryType'
    BY DEF KafkaType, RedisType, BoundType, HistoryType, redis, bounds, runs
  <2>4. \A alerts \in ThresholdAlerts(r) : alerts \in Seq(Alert)
    <3>1. \A p \in Measures[r.sensor] :
            <<MakeAlert("threshold", "high", r.sensor, p, 0, 0)>> \in Seq(Alert)
      BY <2>2, AlertType
    <3> HIDE <1>1 DEF Fetch, r
    <3>2. CASE r.breach
      BY <3>1, <3>2, Zenon DEF ThresholdAlerts
    <3>3. CASE ~r.breach
      BY <3>3 DEF ThresholdAlerts
    <3> QED
      BY <3>2, <3>3
  <2>5. CASE r.status \in Accepted
    <3>1. /\ job' = [job EXCEPT ![w] = r.sensor]
          /\ todo' = [todo EXCEPT ![w] = Measures[r.sensor]]
          /\ pc' = [pc EXCEPT ![w] = IF r.status = 0 THEN "fault" ELSE "recover"]
          /\ UNCHANGED <<par, unscanned>>
      BY <2>5
    <3>2. PICK alerts \in ThresholdAlerts(r) :
             pending' = [pending EXCEPT ![w] = alerts]
      BY <2>5
    <3>3. pending' \in [Workers -> Seq(Alert)]
      BY <1>c, <2>4, <3>2 DEF TaskType
    <3> HIDE <1>1 DEF Fetch
    <3> QED
      BY <1>c, <2>2, <2>3, <3>1, <3>3 DEF TaskType, Workers, PCs
  <2>6. CASE r.status \notin Accepted
    <3>1. UNCHANGED <<job, todo, pending, pc, par, unscanned>>
      BY <2>6
    <3> HIDE <1>1 DEF Fetch
    <3> QED
      BY <2>3, <3>1 DEF TaskType
  <2> QED
    BY <2>3, <2>5, <2>6
<1>2. CASE GetFault \/ DeleteFault
  <2>1. KafkaType' /\ BoundType' /\ HistoryType'
    BY <1>2 DEF GetFault, DeleteFault, TypeOK, KafkaType, BoundType, HistoryType,
                kafka, bounds, runs
  <2>2. RedisType'
    <3>1. CASE GetFault
      BY <3>1 DEF GetFault, TypeOK, RedisType, redis
    <3>2. CASE DeleteFault
      BY <3>2, <1>c DEF DeleteFault, TypeOK, RedisType, TaskType
    <3> QED
      BY <1>2, <3>1, <3>2
  <2>3. TaskType'
    BY <1>2, <1>c DEF GetFault, DeleteFault, TypeOK, TaskType, Workers, PCs
  <2> QED
    BY <2>1, <2>2, <2>3 DEF TypeOK
<1>3. ASSUME NEW p \in Parameters, IncrCount(p)
      PROVE  TypeOK'
  <2> USE <1>3 DEF IncrCount
  <2>1. KafkaType' /\ BoundType' /\ HistoryType'
    BY DEF TypeOK, KafkaType, BoundType, HistoryType, kafka, bounds, runs
  <2>2. RedisType'
    BY <1>c, JobKey DEF TypeOK, RedisType
  <2>3. TaskType'
    BY <1>c DEF TypeOK, TaskType, Workers, PCs
  <2> QED
    BY <2>1, <2>2, <2>3 DEF TypeOK
<1>4. CASE EmitAlert
  <2> USE <1>4, <1>c DEF EmitAlert, TypeOK
  <2>1. KafkaType' /\ RedisType' /\ BoundType'
    BY DEF KafkaType, RedisType, BoundType, redis, kafka, bounds
  <2>2. /\ Head(pending["consumer"]) \in Alert
        /\ Tail(pending["consumer"]) \in Seq(Alert)
    BY DEF TaskType
  <2>3. TaskType'
    BY <2>2 DEF TaskType
  <2>4. HistoryType'
    BY <2>2 DEF HistoryType, runs
  <2> QED
    BY <2>1, <2>3, <2>4
<1>5. CASE SetLatest
  <2> USE <1>5, <1>c DEF SetLatest, TypeOK
  <2>1. KafkaType' /\ BoundType' /\ HistoryType'
    BY DEF KafkaType, BoundType, HistoryType, kafka, bounds, runs
  <2>2. RedisType'
    BY DEF RedisType
  <2>3. TaskType'
    BY DEF TaskType, Workers, PCs
  <2> QED
    BY <2>1, <2>2, <2>3
<1> QED
  BY <1>c, <1>1, <1>2, <1>3, <1>4, <1>5, TrackerType DEF ConsumerStep

LEMMA WatchdogType ==
  ASSUME TypeOK, WatchdogStep
  PROVE  TypeOK'
<1>w. "watchdog" \in Workers
  BY DEF Workers
<1>1. CASE StartScan \/ EndScan
  <2> USE <1>1, <1>w DEF StartScan, EndScan, TypeOK
  <2>1. KafkaType' /\ RedisType' /\ BoundType' /\ HistoryType'
    BY DEF KafkaType, RedisType, BoundType, HistoryType, redis, kafka, bounds, runs
  <2>2. TaskType'
    BY DEF TaskType, Workers, PCs
  <2> QED
    BY <2>1, <2>2
<1>2. ASSUME NEW s \in Sensors, ScanKey(s)
      PROVE  TypeOK'
  <2> USE <1>2, <1>w DEF ScanKey, TypeOK
  <2>1. KafkaType' /\ RedisType' /\ BoundType' /\ HistoryType'
    BY DEF KafkaType, RedisType, BoundType, HistoryType, redis, kafka, bounds, runs
  <2>2. Measures[s] \in SUBSET Parameters
    BY DeploymentAssumption
  <2>3. TaskType'
    BY <2>2 DEF TaskType, Workers, PCs
  <2> QED
    BY <2>1, <2>3
<1> QED
  BY <1>w, <1>1, <1>2, TrackerType DEF WatchdogStep

LEMMA EnvironmentType ==
  ASSUME TypeOK, Publish \/ HotState
  PROVE  TypeOK'
<1>1. ASSUME NEW s \in Sensors, NEW status \in Statuses, NEW breach \in Breaches,
             Produce(s, status, breach)
      PROVE  TypeOK'
  <2> USE <1>1 DEF Produce, TypeOK
  <2>1. AreaOf[s] \in Areas
    BY DeploymentAssumption
  <2>2. [sensor |-> s, status |-> status, breach |-> breach] \in Reading
    BY DEF Reading
  <2>3. KafkaType'
    BY <2>1, <2>2 DEF KafkaType
  <2> QED
    BY <2>3 DEF RedisType, TaskType, BoundType, HistoryType, redis, locals, bounds, runs
<1>2. CASE HotState
  <2>1. KafkaType' /\ TaskType' /\ BoundType' /\ HistoryType'
    BY <1>2 DEF HotState, HotStateUpdate, GoSilent, ExpireLatest, TypeOK, KafkaType,
                TaskType, BoundType, HistoryType, kafka, locals, bounds, runs
  <2>2. RedisType'
    BY <1>2 DEF HotState, HotStateUpdate, GoSilent, ExpireLatest, TypeOK, RedisType
  <2> QED
    BY <2>1, <2>2 DEF TypeOK
<1> QED
  BY <1>1, <1>2 DEF Publish

LEMMA FailureType ==
  ASSUME TypeOK, Failure
  PROVE  TypeOK'
<1>1. ASSUME NEW a \in Areas, AutoCommit(a)
      PROVE  TypeOK'
  BY <1>1 DEF AutoCommit, TypeOK, KafkaType, RedisType, TaskType, BoundType,
              HistoryType, redis, locals, bounds, runs
<1>2. CASE Crash
  <2> USE <1>2 DEF Crash, TypeOK
  <2>1. KafkaType'
    BY DEF KafkaType, NoOffset
  <2>2. TaskType'
    BY DEF TaskType, Idle, Workers, PCs
  <2> QED
    BY <2>1, <2>2 DEF RedisType, BoundType, HistoryType, redis, runs
<1>3. CASE ScanError \/ EmitError
  <2>1. KafkaType' /\ RedisType' /\ BoundType' /\ HistoryType'
    BY <1>3 DEF ScanError, EmitError, Lose, TypeOK, KafkaType, RedisType,
                BoundType, HistoryType, redis, kafka, runs
  <2>2. CASE ScanError
    BY <2>2, <2>1 DEF ScanError, TypeOK, TaskType, Workers, PCs
  <2>3. CASE EmitError
    <3>1. Tail(pending["consumer"]) \in Seq(Alert)
      BY <2>3 DEF EmitError, TypeOK, TaskType, Workers
    <3> QED
      BY <2>3, <2>1, <3>1 DEF EmitError, TypeOK, TaskType, Workers
  <2> QED
    BY <1>3, <2>2, <2>3
<1>4. ASSUME NEW s \in Sensors, ExpireFault(s)
      PROVE  TypeOK'
  <2>1. KafkaType' /\ TaskType' /\ BoundType' /\ HistoryType'
    BY <1>4 DEF ExpireFault, Lose, TypeOK, KafkaType, TaskType,
                BoundType, HistoryType, kafka, locals, runs
  <2>2. RedisType'
    BY <1>4 DEF ExpireFault, TypeOK, RedisType
  <2> QED
    BY <2>1, <2>2 DEF TypeOK
<1> QED
  BY <1>1, <1>2, <1>3, <1>4 DEF Failure

LEMMA StutterType == TypeOK /\ UNCHANGED vars => TypeOK'
BY DEF vars, redis, kafka, locals, bounds, runs, TypeOK, KafkaType, RedisType,
       TaskType, BoundType, HistoryType

LEMMA StepType == TypeOK /\ [Next]_vars => TypeOK'
BY ConsumerType, WatchdogType, EnvironmentType, FailureType, StutterType
   DEF Next, NextTasks, NextConsumer

(* In every behaviour, with both tasks running and every failure possible,
   the state of the rule engine keeps its types.                            *)
THEOREM TypeCorrect == Spec => []TypeOK
<1>1. Init => TypeOK
  BY InitType
<1>2. TypeOK /\ [Next]_vars => TypeOK'
  BY StepType
<1> QED
  BY <1>1, <1>2, PTL DEF Spec

-----------------------------------------------------------------------------
(* The operational counts.                                                  *)

(* What the tasks know of the job they are on.                              *)
JobInv ==
  \A w \in Workers :
    pc[w] \in {"fault", "recover", "delete"} => todo[w] = Measures[job[w]]

(* A fault key that expires between the consumer's GET and its DELETE leaves
   the consumer about to count a recovery that the expiry already paid for.  *)
Stale(k) == /\ pc["consumer"] = "delete"
            /\ Concerns("consumer", k)
            /\ fault[job["consumer"]] = 0

Bounded(k) == /\ count[k] <= Expected(k) + Drift + races
              /\ Stale(k) => count[k] + 1 <= Expected(k) + Drift + races

(* By how much a counter is too low.                                        *)
Lag(k) == Expected(k) - count[k]

(* Clamping, one task at a time.                                            *)
Clamps(w, k) == pc[w] = "clamp" /\ KeyOf(job[w], par[w]) = k
Pulled(w, k) == IF Clamps(w, k) THEN 1 ELSE 0
Floored(k)   == count[k] + Pulled("consumer", k) + Pulled("watchdog", k) + Drift >= 0

(* The inductive invariant behind DriftBounded.                             *)
DriftInv == TypeOK /\ JobInv /\ \A k \in Keys : Bounded(k) /\ Floored(k)

LEMMA UpFinite ==
  ASSUME NEW k \in Keys
  PROVE  IsFiniteSet(Up(k)) /\ Cardinality(Up(k)) \in Nat
<1>1. Up(k) \subseteq Sensors
  BY DEF Up, SensorsOn
<1> QED
  BY <1>1, FS_Subset, FS_CardinalityType, DeploymentAssumption

LEMMA UpFinitePrime ==
  ASSUME NEW k \in Keys
  PROVE  IsFiniteSet(Up(k)') /\ Cardinality(Up(k)') \in Nat
<1>1. Up(k)' \subseteq Sensors
  BY DEF Up, SensorsOn
<1> QED
  BY <1>1, FS_Subset, FS_CardinalityType, DeploymentAssumption

(* Marking a sensor takes it out of the sensors that are up on its keys.    *)
LEMMA Marking ==
  ASSUME TypeOK, NEW s \in Sensors, NEW k \in Keys, NEW n \in Nat, n # 0,
         fault' = [fault EXCEPT ![s] = n]
  PROVE  Cardinality(Up(k)') = Cardinality(Up(k))
           - (IF s \in SensorsOn(k) /\ fault[s] = 0 THEN 1 ELSE 0)
<1>1. CASE s \in SensorsOn(k) /\ fault[s] = 0
  <2>1. Up(k)' = Up(k) \ {s} /\ s \in Up(k)
    BY <1>1 DEF Up, SensorsOn, TypeOK, RedisType
  <2>2. Cardinality(Up(k) \ {s}) = Cardinality(Up(k)) - 1
    BY <2>1, UpFinite, FS_RemoveElement
  <2> QED
    BY <1>1, <2>1, <2>2
<1>2. CASE ~(s \in SensorsOn(k) /\ fault[s] = 0)
  <2>1. Up(k)' = Up(k)
    BY <1>2 DEF Up, SensorsOn, TypeOK, RedisType
  <2> QED
    BY <1>2, <2>1, UpFinite
<1> QED
  BY <1>1, <1>2

(* Clearing its fault key puts it back.                                     *)
LEMMA Clearing ==
  ASSUME TypeOK, NEW s \in Sensors, NEW k \in Keys,
         fault' = [fault EXCEPT ![s] = 0]
  PROVE  Cardinality(Up(k)') = Cardinality(Up(k))
           + (IF s \in SensorsOn(k) /\ fault[s] # 0 THEN 1 ELSE 0)
<1>1. CASE s \in SensorsOn(k) /\ fault[s] # 0
  <2>1. Up(k) = Up(k)' \ {s} /\ s \in Up(k)'
    BY <1>1 DEF Up, SensorsOn, TypeOK, RedisType
  <2>2. Cardinality(Up(k)' \ {s}) = Cardinality(Up(k)') - 1
    BY <2>1, UpFinitePrime, FS_RemoveElement
  <2> QED
    BY <1>1, <2>1, <2>2, UpFinitePrime
<1>2. CASE ~(s \in SensorsOn(k) /\ fault[s] # 0)
  <2>1. Up(k)' = Up(k)
    BY <1>2 DEF Up, SensorsOn, TypeOK, RedisType
  <2> QED
    BY <1>2, <2>1, UpFinite
<1> QED
  BY <1>1, <1>2

LEMMA OwedType == ASSUME NEW w \in Workers, NEW k \in Keys
                  PROVE  Owed(w, k) \in {-1, 0, 1} /\ Owed(w, k)' \in {-1, 0, 1}
BY DEF Owed, Decreases, AddsTo

(* A step that moves neither a counter, a fault key nor what a task owes
   keeps the bound; it may use up some of the failures.                     *)
LEMMA Unmoved ==
  ASSUME TypeOK, TypeOK', NEW k \in Keys, Bounded(k),
         UNCHANGED <<count, fault, races>>, Drift <= Drift',
         \A w \in Workers : Owed(w, k)' = Owed(w, k),
         Stale(k)' => Stale(k)
  PROVE  Bounded(k)' /\ Lag(k)' <= Lag(k)
<1>1. Cardinality(Up(k))' = Cardinality(Up(k)) /\ Cardinality(Up(k)) \in Nat
  BY UpFinite DEF Up
<1>2. Expected(k)' = Expected(k) /\ Expected(k) \in Int
  BY <1>1, OwedType DEF Expected, Workers
<1>3. Drift \in Int /\ Drift' \in Int /\ count[k] \in Int /\ races \in Int
  BY DEF Drift, TypeOK, BoundType, RedisType, HistoryType
<1> QED
  BY <1>2, <1>3 DEF Bounded, Lag

LEMMA JobInvStep == TypeOK /\ JobInv /\ [Next]_vars => JobInv'
<1> SUFFICES ASSUME TypeOK, JobInv, [Next]_vars PROVE JobInv'
  OBVIOUS
<1> USE DEF JobInv, TypeOK, TaskType, Workers
<1>1. ASSUME NEW w \in Workers, IncrFault(w) PROVE JobInv'
  BY <1>1 DEF IncrFault, AfterTracker
<1>2. ASSUME NEW w \in Workers, NEW p \in Parameters, Decr(w, p) PROVE JobInv'
  <2>1. UNCHANGED job
    BY <1>2 DEF Decr
  <2>2. \A v \in Workers \ {w} : pc'[v] = pc[v] /\ todo'[v] = todo[v]
    BY <1>2 DEF Decr, Decremented
  <2>3. pc'[w] \in {"emit", "scan", "decr", "clamp"}
    BY <1>2 DEF Decr, Decremented, AfterTracker
  <2> QED
    BY <2>1, <2>2, <2>3
<1>3. ASSUME NEW w \in Workers, Clamp(w) PROVE JobInv'
  BY <1>3 DEF Clamp, Decremented, AfterTracker
<1>4. ASSUME NEW a \in Areas, Fetch(a) PROVE JobInv'
  BY <1>4 DEF Fetch
<1>5. ASSUME GetFault \/ DeleteFault \/ (\E p \in Parameters : IncrCount(p))
      PROVE  JobInv'
  BY <1>5 DEF GetFault, DeleteFault, IncrCount
<1>6. ASSUME EmitAlert \/ SetLatest \/ EmitError PROVE JobInv'
  BY <1>6 DEF EmitAlert, SetLatest, EmitError
<1>7. ASSUME StartScan \/ EndScan \/ (\E s \in Sensors : ScanKey(s)) PROVE JobInv'
  BY <1>7 DEF StartScan, EndScan, ScanKey
<1>8. ASSUME Crash \/ ScanError PROVE JobInv'
  BY <1>8 DEF Crash, ScanError, Idle
<1>9. ASSUME \/ Publish
             \/ HotState \/ (\E s \in Sensors : ExpireFault(s))
             \/ \E a \in Areas : AutoCommit(a)
             \/ UNCHANGED vars
      PROVE  JobInv'
  <2>1. UNCHANGED <<pc, job, todo>>
    BY <1>9 DEF Publish, Produce, HotState, HotStateUpdate, GoSilent, ExpireFault, ExpireLatest, AutoCommit,
                locals, vars
  <2> QED
    BY <2>1
<1> QED
  BY <1>1, <1>2, <1>3, <1>4, <1>5, <1>6, <1>7, <1>8, <1>9
     DEF Next, NextTasks, NextConsumer, ConsumerStep, WatchdogStep, Tracker, Failure

(* The first fault of a run trades one sensor up for one decrement owed.    *)
LEMMA IncrFaultBounded ==
  ASSUME TypeOK, TypeOK', JobInv, NEW k \in Keys, Bounded(k),
         NEW w \in Workers, IncrFault(w)
  PROVE  Bounded(k)' /\ Lag(k)' <= Lag(k)
<1> DEFINE s == job[w]
<1> USE DEF IncrFault
<1>1. s \in Sensors /\ fault[s] \in Nat /\ todo[w] = Measures[s]
  BY DEF TypeOK, TaskType, RedisType, JobInv
<1>2. Cardinality(Up(k)') = Cardinality(Up(k))
        - (IF s \in SensorsOn(k) /\ fault[s] = 0 THEN 1 ELSE 0)
  <2>1. fault[s] + 1 \in Nat /\ fault[s] + 1 # 0
    BY <1>1
  <2> QED
    BY <1>1, <2>1, Marking
<1>3. \A v \in Workers \ {w} : Owed(v, k)' = Owed(v, k)
  BY DEF Owed, Decreases, AddsTo, Concerns, TypeOK, TaskType
<1>4. Owed(w, k) = 0
  BY DEF Owed, Decreases, AddsTo
<1>5. Owed(w, k)' = IF s \in SensorsOn(k) /\ fault[s] = 0 THEN 1 ELSE 0
  <2>1. CASE fault[s] = 0
    <3>1. pc'[w] = "decr" /\ todo' = todo /\ job' = job
      BY <1>1, <2>1 DEF FirstOfRun, TypeOK, TaskType
    <3> QED
      BY <1>1, <2>1, <3>1 DEF Owed, Decreases, AddsTo, Concerns, SensorsOn
  <2>2. CASE fault[s] # 0
    <3>1. pc'[w] = AfterTracker(w)
      BY <1>1, <2>2 DEF FirstOfRun, TypeOK, TaskType
    <3> QED
      BY <2>2, <3>1 DEF Owed, Decreases, AddsTo, AfterTracker
  <2> QED
    BY <2>1, <2>2
<1>6. Expected(k)' = Expected(k) /\ Expected(k) \in Int
  BY <1>2, <1>3, <1>4, <1>5, UpFinite, OwedType DEF Expected, Workers
<1>7. Stale(k)' => Stale(k)
  <2>1. \A t \in Sensors : fault'[t] = 0 => fault[t] = 0
    BY <1>1 DEF TypeOK, RedisType
  <2>2. CASE w = "consumer"
    BY <2>2 DEF Stale, Workers, TypeOK, TaskType, AfterTracker
  <2>3. CASE w = "watchdog"
    <3>1. /\ pc'["consumer"] = pc["consumer"] /\ todo'["consumer"] = todo["consumer"]
          /\ job' = job /\ job["consumer"] \in Sensors
      BY <2>3 DEF TypeOK, TaskType, Workers
    <3> QED
      BY <2>1, <3>1 DEF Stale, Concerns
  <2> QED
    BY <2>2, <2>3 DEF Workers
<1>8. count'[k] = count[k] /\ count[k] \in Int /\ Drift' = Drift /\ races' = races
  BY DEF Drift, bounds, TypeOK, RedisType
<1> QED
  BY <1>6, <1>7, <1>8 DEF Bounded, Lag

(* A decrement settles what the task owed, whatever it finds.               *)
LEMMA DecrBounded ==
  ASSUME TypeOK, TypeOK', JobInv, NEW k \in Keys, Bounded(k),
         NEW w \in Workers, NEW p \in Parameters, Decr(w, p)
  PROVE  Bounded(k)' /\ Lag(k)' <= Lag(k)
<1> DEFINE here == k = KeyOf(job[w], p)
           n == count[KeyOf(job[w], p)] - 1
<1> USE DEF Decr
<1>2. KeyOf(job[w], p) \in Keys
  BY JobKey
<1>3. count'[k] = count[k] - (IF here THEN 1 ELSE 0) /\ count[k] \in Int
  BY <1>2 DEF TypeOK, RedisType
<1>4. here <=> AreaOf[job[w]] = k[1] /\ p = k[2]
  BY DEF KeyOf, Keys
<1>5. /\ job' = job /\ pc[w] = "decr" /\ p \in todo[w]
      /\ \/ /\ todo' = todo /\ par' = [par EXCEPT ![w] = p]
            /\ pc' = [pc EXCEPT ![w] = "clamp"]
         \/ /\ todo' = [todo EXCEPT ![w] = @ \ {p}]
            /\ pc' = [pc EXCEPT ![w] = IF todo[w] = {p} THEN AfterTracker(w) ELSE "decr"]
            /\ par' = par
  BY DEF Decremented
<1>6. \A v \in Workers \ {w} : Owed(v, k)' = Owed(v, k)
  BY <1>5 DEF Owed, Decreases, AddsTo, Concerns, Workers, TypeOK, TaskType
<1>7. Owed(w, k)' = Owed(w, k) - (IF here THEN 1 ELSE 0)
  <2>1. Owed(w, k) = IF Concerns(w, k) THEN 1 ELSE 0
    BY <1>5 DEF Owed, Decreases, AddsTo
  <2>2. Owed(w, k)' = IF Concerns(w, k) /\ ~here THEN 1 ELSE 0
    BY <1>4, <1>5 DEF Owed, Decreases, AddsTo, Concerns, TypeOK, TaskType, AfterTracker
  <2>3. here => Concerns(w, k)
    BY <1>4, <1>5 DEF Concerns
  <2> QED
    BY <2>1, <2>2, <2>3
<1>8. Cardinality(Up(k))' = Cardinality(Up(k)) /\ Cardinality(Up(k)) \in Nat
  BY UpFinite DEF Up
<1>9. /\ Expected(k)' = Expected(k) - (IF here THEN 1 ELSE 0)
      /\ Expected(k) \in Int
  BY <1>6, <1>7, <1>8, OwedType DEF Expected, Workers
<1>10. Stale(k)' => Stale(k)
  BY <1>5 DEF Stale, Concerns, Workers, TypeOK, TaskType, AfterTracker
<1>11. Drift' = Drift /\ Drift \in Int /\ races' = races /\ races \in Int
  BY DEF Drift, bounds, TypeOK, BoundType, HistoryType
<1> QED
  BY <1>3, <1>9, <1>10, <1>11 DEF Bounded, Lag

(* The reset of a negative counter: no sensor that is up is forgotten but one
   that the consumer is about to count, and then the reset is a race.        *)
LEMMA ClampBounded ==
  ASSUME TypeOK, TypeOK', JobInv, NEW k \in Keys, Bounded(k),
         NEW w \in Workers, Clamp(w)
  PROVE  Bounded(k)'
<1> DEFINE here == k = KeyOf(job[w], par[w])
<1> USE DEF Clamp
<1>1. par[w] \in Parameters /\ KeyOf(job[w], par[w]) \in Keys
  BY JobKey DEF TypeOK, TaskType
<1>2. /\ job' = job /\ par' = par /\ fault' = fault /\ pc[w] = "clamp"
      /\ todo' = [todo EXCEPT ![w] = @ \ {par[w]}]
      /\ pc' = [pc EXCEPT ![w] = IF todo[w] = {par[w]} THEN AfterTracker(w) ELSE "decr"]
  BY DEF Decremented
<1>3. \A v \in Workers \ {w} : Owed(v, k)' = Owed(v, k)
  BY <1>2 DEF Owed, Decreases, AddsTo, Concerns, Workers, TypeOK, TaskType
<1>4. Owed(w, k)' = Owed(w, k)
  <2>1. Owed(w, k) = IF Concerns(w, k) /\ k[2] # par[w] THEN 1 ELSE 0
    BY <1>2 DEF Owed, Decreases, AddsTo
  <2>2. Owed(w, k)' = IF Concerns(w, k) /\ k[2] # par[w] THEN 1 ELSE 0
    BY <1>2 DEF Owed, Decreases, AddsTo, Concerns, TypeOK, TaskType, AfterTracker
  <2> QED
    BY <2>1, <2>2
<1>5. Cardinality(Up(k))' = Cardinality(Up(k)) /\ Cardinality(Up(k)) \in Nat
  BY <1>2, UpFinite DEF Up
<1>6. Expected(k)' = Expected(k) /\ Expected(k) \in Int
  BY <1>3, <1>4, <1>5, OwedType DEF Expected, Workers
<1>7. Stale(k)' => Stale(k)
  BY <1>2 DEF Stale, Concerns, Workers, TypeOK, TaskType, AfterTracker
<1>8. Drift' = Drift /\ Drift \in Nat /\ races \in Nat /\ races' \in Nat
      /\ races <= races'
  BY DEF Drift, bounds, TypeOK, BoundType, HistoryType
<1>9. CASE here
  <2>1. count'[k] = 0
    BY <1>1, <1>9 DEF TypeOK, RedisType
  <2>2. Owed("watchdog", k) \in {0, 1}
    BY DEF Owed, Decreases, AddsTo
  <2>3. AddsTo(k) => Owed("consumer", k) = -1 /\ races' >= 1 /\ ~Stale(k)
    BY <1>8, <1>9 DEF Owed, Decreases, AddsTo, Stale, TypeOK, HistoryType
  <2>4. ~AddsTo(k) => Owed("consumer", k) \in {0, 1}
    BY DEF Owed, Decreases, AddsTo
  <2>5. Stale(k) => Cardinality(Up(k)) >= 1
    <3> SUFFICES ASSUME Stale(k) PROVE Cardinality(Up(k)) >= 1
      OBVIOUS
    <3>1. job["consumer"] \in Up(k)
      BY DEF Stale, Concerns, JobInv, Up, SensorsOn, Workers, TypeOK, TaskType
    <3>2. Cardinality(Up(k)) # 0
      BY <3>1, UpFinite, FS_EmptySet
    <3> QED
      BY <3>2, <1>5
  <2>6. 0 <= Expected(k) + Drift + races'
    BY <1>5, <1>8, <2>2, <2>3, <2>4 DEF Expected
  <2>7. Stale(k) => 1 <= Expected(k) + Drift + races'
    <3>1. Stale(k) => ~AddsTo(k)
      BY DEF Stale, AddsTo
    <3> QED
      BY <1>5, <1>8, <2>2, <2>4, <2>5, <3>1 DEF Expected
  <2> QED
    BY <1>6, <1>7, <1>8, <2>1, <2>6, <2>7 DEF Bounded
<1>10. CASE ~here
  <2>1. count'[k] = count[k] /\ count[k] \in Int
    BY <1>1, <1>10 DEF TypeOK, RedisType
  <2> QED
    BY <1>6, <1>7, <1>8, <2>1 DEF Bounded
<1> QED
  BY <1>9, <1>10

(* Deleting the fault key trades one increment owed for one sensor up; the
   slack of Stale pays for a key that had expired meanwhile.                *)
LEMMA DeleteFaultBounded ==
  ASSUME TypeOK, TypeOK', JobInv, NEW k \in Keys, Bounded(k), DeleteFault
  PROVE  Bounded(k)' /\ Lag(k)' <= Lag(k)
<1> DEFINE s == job["consumer"]
<1> USE DEF DeleteFault
<1>1. s \in Sensors /\ fault[s] \in Nat /\ todo["consumer"] = Measures[s]
  BY DEF TypeOK, TaskType, RedisType, JobInv, Workers
<1>2. Cardinality(Up(k)') = Cardinality(Up(k))
        + (IF s \in SensorsOn(k) /\ fault[s] # 0 THEN 1 ELSE 0)
  BY <1>1, Clearing
<1>3. Owed("watchdog", k)' = Owed("watchdog", k)
  BY DEF Owed, Decreases, AddsTo, Concerns, TypeOK, TaskType, Workers
<1>4. Concerns("consumer", k) <=> s \in SensorsOn(k)
  BY <1>1 DEF Concerns, SensorsOn
<1>5. pc'["consumer"] = "incr"
  BY DEF TypeOK, TaskType, Workers
<1>6. /\ Owed("consumer", k) = 0
      /\ Owed("consumer", k)' = IF s \in SensorsOn(k) THEN -1 ELSE 0
  BY <1>4, <1>5 DEF Owed, Decreases, AddsTo, Concerns
<1>7. Expected(k) \in Int
  BY UpFinite, OwedType DEF Expected, Workers
<1>8. /\ ~Stale(k) => Expected(k)' = Expected(k)
      /\ Stale(k) => Expected(k)' = Expected(k) - 1
  BY <1>2, <1>3, <1>4, <1>6, UpFinite, OwedType DEF Expected, Stale, Workers
<1>9. ~Stale(k)'
  BY <1>5 DEF Stale
<1>10. /\ count'[k] = count[k] /\ Drift' = Drift /\ races' = races
       /\ count[k] \in Int /\ Drift \in Int /\ races \in Int
  BY DEF Drift, bounds, TypeOK, BoundType, RedisType, HistoryType
<1> QED
  BY <1>7, <1>8, <1>9, <1>10 DEF Bounded, Lag

(* An increment settles what the task owed.                                 *)
LEMMA IncrCountBounded ==
  ASSUME TypeOK, TypeOK', NEW k \in Keys, Bounded(k),
         NEW p \in Parameters, IncrCount(p)
  PROVE  Bounded(k)' /\ Lag(k)' <= Lag(k)
<1> DEFINE w == "consumer"
           here == k = KeyOf(job[w], p)
<1> USE DEF IncrCount
<1>1. w \in Workers
  BY DEF Workers
<1>2. KeyOf(job[w], p) \in Keys
  BY <1>1, JobKey
<1>3. count'[k] = count[k] + (IF here THEN 1 ELSE 0) /\ count[k] \in Int
  BY <1>2 DEF TypeOK, RedisType
<1>4. here <=> AreaOf[job[w]] = k[1] /\ p = k[2]
  BY DEF KeyOf, Keys
<1>5. Owed("watchdog", k)' = Owed("watchdog", k)
  BY DEF Owed, Decreases, AddsTo, Concerns, TypeOK, TaskType, Workers
<1>6. Owed(w, k)' = Owed(w, k) + (IF here THEN 1 ELSE 0)
  BY <1>1, <1>4 DEF Owed, Decreases, AddsTo, Concerns, TypeOK, TaskType
<1>7. Cardinality(Up(k))' = Cardinality(Up(k)) /\ Cardinality(Up(k)) \in Nat
  BY UpFinite DEF Up
<1>8. /\ Expected(k)' = Expected(k) + (IF here THEN 1 ELSE 0)
      /\ Expected(k) \in Int
  BY <1>5, <1>6, <1>7, OwedType DEF Expected, Workers
<1>9. ~Stale(k)'
  BY <1>1 DEF Stale, TypeOK, TaskType
<1>10. Drift' = Drift /\ races' = races /\ Drift \in Int /\ races \in Int
  BY DEF Drift, bounds, TypeOK, BoundType, HistoryType
<1> QED
  BY <1>3, <1>8, <1>9, <1>10 DEF Bounded, Lag

(* A crash drops what both tasks owe, an aborted scan what the watchdog owes *)
LEMMA DroppedBounded ==
  ASSUME TypeOK, TypeOK', NEW k \in Keys, Bounded(k), Crash \/ ScanError
  PROVE  Bounded(k)'
<1>1. Cardinality(Up(k))' = Cardinality(Up(k)) /\ Cardinality(Up(k)) \in Nat
  BY UpFinite DEF Up, Crash, ScanError, redis
<1>2. /\ count'[k] = count[k] /\ races' = races
      /\ count[k] \in Int /\ Drift \in Int /\ races \in Int
  BY DEF Crash, ScanError, redis, TypeOK, RedisType, Drift, BoundType, HistoryType
<1>3. Expected(k) \in Int
  BY UpFinite, OwedType DEF Expected, Workers
<1>4. CASE Crash
  <2>1. Drift' = Drift + 2
    BY <1>4 DEF Crash, Drift, TypeOK, BoundType
  <2>2. /\ Owed("consumer", k)' = 0 /\ Owed("watchdog", k)' = 0
        /\ ~Stale(k)'
    BY <1>4 DEF Crash, Owed, Decreases, AddsTo, Stale, Idle, Workers
  <2>3. Expected(k)' <= Expected(k) + 2 /\ Expected(k) <= Expected(k)' + 2
        /\ Expected(k)' \in Int
    BY <1>1, <2>2, OwedType DEF Expected, Workers
  <2> QED
    BY <1>2, <1>3, <2>1, <2>2, <2>3 DEF Bounded
<1>5. CASE ScanError
  <2>1. Drift' = Drift + 1
    BY <1>5 DEF ScanError, Lose, Drift, TypeOK, BoundType
  <2>2. /\ Owed("consumer", k)' = Owed("consumer", k)
        /\ Owed("watchdog", k)' = 0
        /\ Stale(k)' = Stale(k)
    BY <1>5 DEF ScanError, Owed, Decreases, AddsTo, Stale, Concerns, redis, TypeOK, TaskType, Workers
  <2>3. Owed("watchdog", k) \in {0, 1}
    BY DEF Owed, Decreases, AddsTo, TypeOK, TaskType
  <2>4. Expected(k)' <= Expected(k) /\ Expected(k) <= Expected(k)' + 1
        /\ Expected(k)' \in Int
    BY <1>1, <2>2, <2>3, OwedType DEF Expected, Workers
  <2> QED
    BY <1>2, <1>3, <2>1, <2>2, <2>4 DEF Bounded
<1> QED
  BY <1>4, <1>5

(* A fault key that expires puts its sensor up without counting it.         *)
LEMMA ExpireFaultBounded ==
  ASSUME TypeOK, TypeOK', JobInv, NEW k \in Keys, Bounded(k),
         NEW s \in Sensors, ExpireFault(s)
  PROVE  Bounded(k)'
<1> USE DEF ExpireFault
<1>1. Cardinality(Up(k)') = Cardinality(Up(k))
        + (IF s \in SensorsOn(k) /\ fault[s] # 0 THEN 1 ELSE 0)
  BY Clearing
<1>2. \A w \in Workers : Owed(w, k)' = Owed(w, k)
  BY DEF Owed, Decreases, AddsTo, Concerns, locals
<1>3. Expected(k) \in Int
  BY UpFinite, OwedType DEF Expected, Workers
<1>4. Expected(k)' = Expected(k) + (IF s \in SensorsOn(k) THEN 1 ELSE 0)
  BY <1>1, <1>2, UpFinite, OwedType DEF Expected, Workers, TypeOK, RedisType
<1>5. Drift' = Drift + 1 /\ Drift \in Int
  BY DEF Lose, Drift, TypeOK, BoundType
<1>6. count'[k] = count[k] /\ races' = races /\ count[k] \in Int /\ races \in Int
  BY DEF TypeOK, RedisType, HistoryType
<1>7. ASSUME Stale(k)', ~Stale(k)
      PROVE  s \in SensorsOn(k)
  <2>1. /\ s = job["consumer"] /\ Concerns("consumer", k)
        /\ pc["consumer"] = "delete"
    BY <1>7 DEF Stale, Concerns, locals, TypeOK, RedisType, TaskType, Workers
  <2> QED
    BY <2>1 DEF Concerns, SensorsOn, JobInv, Workers
<1> QED
  BY <1>3, <1>4, <1>5, <1>6, <1>7 DEF Bounded

(* Every other step leaves counters, fault keys and debts alone.            *)
LEMMA OtherBounded ==
  ASSUME TypeOK, TypeOK', NEW k \in Keys, Bounded(k),
         \/ Publish
         \/ \E a \in Areas : Fetch(a) \/ AutoCommit(a)
         \/ GetFault \/ EmitAlert \/ SetLatest \/ EmitError
         \/ StartScan \/ EndScan
         \/ \E s \in Sensors : ScanKey(s)
         \/ HotState \/ UNCHANGED vars
  PROVE  Bounded(k)' /\ Lag(k)' <= Lag(k)
<1> SUFFICES /\ UNCHANGED <<races, count, fault>> /\ Drift <= Drift'
             /\ \A w \in Workers : Owed(w, k)' = Owed(w, k)
             /\ Stale(k)' => Stale(k)
  BY Unmoved
<1>0. ASSUME UNCHANGED <<fault, pc, job, todo, par>>
      PROVE  (\A w \in Workers : Owed(w, k)' = Owed(w, k)) /\ (Stale(k)' => Stale(k))
  BY <1>0 DEF Owed, Decreases, AddsTo, Stale, Concerns
<1>1. CASE Publish \/ (\E a \in Areas : AutoCommit(a))
           \/ HotState \/ UNCHANGED vars
  <2>1. UNCHANGED <<races, count, fault, pc, job, todo, par, losses, crashes>>
    BY <1>1 DEF Publish, Produce, AutoCommit, HotState, HotStateUpdate, GoSilent,
                ExpireLatest, redis, locals, bounds, vars
  <2>2. Drift' = Drift /\ Drift \in Int
    BY <2>1 DEF Drift, TypeOK, BoundType
  <2> QED
    BY <1>0, <2>1, <2>2
<1>2. ASSUME NEW a \in Areas, Fetch(a)
      PROVE  /\ UNCHANGED <<races, count, fault>> /\ Drift <= Drift'
             /\ \A w \in Workers : Owed(w, k)' = Owed(w, k)
             /\ Stale(k)' => Stale(k)
  <2>1. UNCHANGED <<races, count, fault, par, losses, crashes>>
    BY <1>2 DEF Fetch, redis, bounds
  <2>2. /\ pc["consumer"] = "idle"
        /\ pc'["watchdog"] = pc["watchdog"] /\ todo'["watchdog"] = todo["watchdog"]
        /\ job'["watchdog"] = job["watchdog"]
    BY <1>2 DEF Fetch, TypeOK, TaskType, Workers
  <2>3. pc'["consumer"] \in {"idle", "fault", "recover"}
    BY <1>2 DEF Fetch, TypeOK, TaskType, Workers
  <2>4. /\ \A w \in Workers : Owed(w, k)' = Owed(w, k)
        /\ ~Stale(k)'
    BY <2>1, <2>2, <2>3 DEF Owed, Decreases, AddsTo, Stale, Concerns, Workers
  <2>5. Drift' = Drift /\ Drift \in Int
    BY <2>1 DEF Drift, TypeOK, BoundType
  <2> QED
    BY <2>1, <2>4, <2>5
<1>3. ASSUME GetFault
      PROVE  /\ UNCHANGED <<races, count, fault>> /\ Drift <= Drift'
             /\ \A w \in Workers : Owed(w, k)' = Owed(w, k)
             /\ ~Stale(k)'
  <2>1. fault[job["consumer"]] # 0 \/ pc'["consumer"] = "emit"
    BY <1>3 DEF GetFault, NothingToRecover, TypeOK, TaskType, Workers
  <2>2. UNCHANGED <<races, count, fault, job, par, losses, crashes>>
    BY <1>3 DEF GetFault, redis, bounds
  <2>3. /\ pc["consumer"] = "recover" /\ pc'["consumer"] \in {"delete", "emit"}
        /\ pc'["watchdog"] = pc["watchdog"] /\ todo'["watchdog"] = todo["watchdog"]
    BY <1>3 DEF GetFault, TypeOK, TaskType, Workers
  <2>4. /\ \A w \in Workers : Owed(w, k)' = Owed(w, k)
        /\ ~Stale(k)'
    BY <2>1, <2>2, <2>3 DEF Owed, Decreases, AddsTo, Stale, Concerns, Workers
  <2>5. Drift' = Drift /\ Drift \in Int
    BY <2>2 DEF Drift, TypeOK, BoundType
  <2> QED
    BY <2>2, <2>4, <2>5
<1>4. CASE EmitAlert \/ EmitError
  <2>1. UNCHANGED <<races, count, fault, pc, job, todo, par, crashes>>
    BY <1>4 DEF EmitAlert, EmitError, redis, bounds
  <2>2. losses' = losses \/ losses' = losses + 1
    BY <1>4 DEF EmitAlert, EmitError, Lose, bounds
  <2>3. losses \in Nat /\ crashes \in Nat
    BY DEF TypeOK, BoundType
  <2>4. Drift <= Drift'
    BY <2>1, <2>2, <2>3 DEF Drift
  <2> QED
    BY <1>0, <2>1, <2>4
<1>5. CASE SetLatest
  <2>1. UNCHANGED <<races, count, fault, job, par, losses, crashes>>
    BY <1>5 DEF SetLatest, bounds
  <2>2. /\ pc["consumer"] = "emit" /\ pc'["consumer"] = "idle"
        /\ pc'["watchdog"] = pc["watchdog"] /\ todo'["watchdog"] = todo["watchdog"]
    BY <1>5 DEF SetLatest, TypeOK, TaskType, Workers
  <2>3. /\ \A w \in Workers : Owed(w, k)' = Owed(w, k)
        /\ ~Stale(k)'
    BY <2>1, <2>2 DEF Owed, Decreases, AddsTo, Stale, Concerns, Workers
  <2>4. Drift' = Drift /\ Drift \in Int
    BY <2>1 DEF Drift, TypeOK, BoundType
  <2> QED
    BY <2>1, <2>3, <2>4
<1>6. CASE StartScan \/ EndScan \/ (\E s \in Sensors : ScanKey(s))
  <2>1. UNCHANGED <<races, count, fault, par, losses, crashes>>
    BY <1>6 DEF StartScan, EndScan, ScanKey, redis, bounds
  <2>2. /\ pc'["consumer"] = pc["consumer"] /\ todo'["consumer"] = todo["consumer"]
        /\ job'["consumer"] = job["consumer"]
        /\ pc["watchdog"] \in {"idle", "scan"}
        /\ pc'["watchdog"] \in {"idle", "scan", "fault"}
    BY <1>6 DEF StartScan, EndScan, ScanKey, TypeOK, TaskType, Workers
  <2>3. /\ \A w \in Workers : Owed(w, k)' = Owed(w, k)
        /\ Stale(k)' => Stale(k)
    BY <2>1, <2>2 DEF Owed, Decreases, AddsTo, Stale, Concerns, Workers
  <2>4. Drift' = Drift /\ Drift \in Int
    BY <2>1 DEF Drift, TypeOK, BoundType
  <2> QED
    BY <2>1, <2>3, <2>4
<1> QED
  BY <1>1, <1>2, <1>3, <1>4, <1>5, <1>6

LEMMA BoundedStep ==
  ASSUME TypeOK, TypeOK', JobInv, NEW k \in Keys, Bounded(k), [Next]_vars
  PROVE  Bounded(k)'
<1>1. ASSUME NEW w \in Workers, Tracker(w)
      PROVE  Bounded(k)'
  <2>1. CASE IncrFault(w)
    BY <2>1, IncrFaultBounded
  <2>2. ASSUME NEW p \in Parameters, Decr(w, p) PROVE Bounded(k)'
    BY <2>2, DecrBounded
  <2>3. CASE Clamp(w)
    BY <2>3, ClampBounded
  <2> QED
    BY <1>1, <2>1, <2>2, <2>3 DEF Tracker
<1>2. CASE ConsumerStep
  <2>1. ASSUME NEW p \in Parameters, IncrCount(p) PROVE Bounded(k)'
    BY <2>1, IncrCountBounded
  <2> QED
    BY <1>1, <1>2, <2>1, DeleteFaultBounded, OtherBounded DEF ConsumerStep, Workers
<1>3. CASE WatchdogStep
  BY <1>1, <1>3, OtherBounded DEF WatchdogStep, Workers
<1>4. CASE Failure
  <2>1. ASSUME NEW s \in Sensors, ExpireFault(s) PROVE Bounded(k)'
    BY <2>1, ExpireFaultBounded
  <2> QED
    BY <1>4, <2>1, DroppedBounded, OtherBounded DEF Failure
<1>5. CASE Publish \/ HotState \/ UNCHANGED vars
  BY <1>5, OtherBounded
<1> QED
  BY <1>2, <1>3, <1>4, <1>5 DEF Next, NextTasks, NextConsumer

(* The lower bound: nothing but a decrement or a lost reset moves it.       *)
LEMMA FlooredKept ==
  ASSUME TypeOK, TypeOK', NEW k \in Keys, Floored(k),
         count'[k] >= count[k], Drift' >= Drift,
         \A w \in Workers : Clamps(w, k) => Clamps(w, k)'
  PROVE  Floored(k)'
<1>1. \A w \in Workers : /\ Pulled(w, k) \in {0, 1} /\ Pulled(w, k)' \in {0, 1}
                         /\ Pulled(w, k)' >= Pulled(w, k)
  BY DEF Pulled
<1>2. /\ count[k] \in Int /\ count'[k] \in Int /\ Drift \in Int /\ Drift' \in Int
  BY DEF TypeOK, RedisType, BoundType, Drift
<1> QED
  BY <1>1, <1>2 DEF Floored, Workers

LEMMA FlooredTracker ==
  ASSUME TypeOK, TypeOK', NEW k \in Keys, Floored(k),
         NEW w \in Workers, Tracker(w)
  PROVE  Floored(k)'
<1>1. Drift' = Drift /\ Drift \in Nat
  <2>1. UNCHANGED <<losses, crashes>>
    BY DEF Tracker, IncrFault, Decr, Clamp, bounds
  <2> QED
    BY <2>1 DEF Drift, TypeOK, BoundType
<1>2. \A v \in Workers : Pulled(v, k) \in {0, 1} /\ Pulled(v, k)' \in {0, 1}
  BY DEF Pulled
<1>3. count[k] \in Int /\ count'[k] \in Int
  BY DEF TypeOK, RedisType
<1>4. \A v \in Workers \ {w} : Pulled(v, k)' = Pulled(v, k)
  <2>1. UNCHANGED job /\ \A v \in Workers \ {w} : pc'[v] = pc[v] /\ par'[v] = par[v]
    BY DEF Tracker, IncrFault, Decr, Clamp, Decremented, TypeOK, TaskType
  <2> QED
    BY <2>1 DEF Pulled, Clamps
<1>5. CASE IncrFault(w)
  <2>1. count' = count /\ pc[w] = "fault"
    BY <1>5 DEF IncrFault
  <2>2. Pulled(w, k) = 0
    BY <2>1 DEF Pulled, Clamps
  <2> QED
    BY <1>1, <1>2, <1>3, <1>4, <2>1, <2>2 DEF Floored, Workers
<1>6. ASSUME NEW p \in Parameters, Decr(w, p) PROVE Floored(k)'
  <2> DEFINE j == KeyOf(job[w], p)
  <2>1. j \in Keys
    BY JobKey
  <2>2. Pulled(w, k) = 0
    BY <1>6 DEF Decr, Pulled, Clamps
  <2>3. k # j => count'[k] = count[k]
    BY <1>6, <2>1 DEF Decr, TypeOK, RedisType
  <2>4. count'[j] = count[j] - 1
    BY <1>6, <2>1 DEF Decr, TypeOK, RedisType
  <2>5. CASE k = j /\ count[j] - 1 < 0
    <3>1. pc'[w] = "clamp" /\ par'[w] = p /\ job' = job
      BY <1>6, <2>5 DEF Decr, TypeOK, TaskType
    <3>2. Pulled(w, k)' = 1
      BY <2>5, <3>1 DEF Pulled, Clamps
    <3> QED
      BY <1>1, <1>2, <1>3, <1>4, <2>2, <2>4, <2>5, <3>2 DEF Floored, Workers
  <2>6. CASE k = j /\ ~(count[j] - 1 < 0)
    BY <1>1, <1>2, <1>3, <2>4, <2>6 DEF Floored, Workers
  <2>7. CASE k # j
    BY <1>1, <1>2, <1>3, <1>4, <2>2, <2>3, <2>7 DEF Floored, Workers
  <2> QED
    BY <2>5, <2>6, <2>7
<1>7. CASE Clamp(w)
  <2> DEFINE j == KeyOf(job[w], par[w])
  <2>1. j \in Keys
    BY JobKey DEF TypeOK, TaskType
  <2>2. CASE k = j
    <3>1. count'[k] = 0
      BY <1>7, <2>1, <2>2 DEF Clamp, TypeOK, RedisType
    <3> QED
      BY <1>1, <1>2, <3>1 DEF Floored, Workers
  <2>3. CASE k # j
    <3>1. count'[k] = count[k]
      BY <1>7, <2>1, <2>3 DEF Clamp, TypeOK, RedisType
    <3>2. Pulled(w, k) = 0
      BY <2>3 DEF Pulled, Clamps
    <3> QED
      BY <1>1, <1>2, <1>3, <1>4, <3>1, <3>2 DEF Floored, Workers
  <2> QED
    BY <2>2, <2>3
<1> QED
  BY <1>5, <1>6, <1>7 DEF Tracker

(* What is dropped leaves the counter as it was: one unit per task.         *)
LEMMA FlooredDropped ==
  ASSUME TypeOK, TypeOK', NEW k \in Keys, Floored(k), Crash \/ ScanError
  PROVE  Floored(k)'
<1>1. count'[k] = count[k] /\ count[k] \in Int /\ Drift \in Nat
  BY DEF Crash, ScanError, redis, TypeOK, RedisType, BoundType, Drift
<1>2. \A w \in Workers : Pulled(w, k) \in {0, 1} /\ Pulled(w, k)' \in {0, 1}
  BY DEF Pulled
<1>3. CASE Crash
  <2>1. Drift' = Drift + 2
    BY <1>3 DEF Crash, Drift, TypeOK, BoundType
  <2> QED
    BY <1>1, <1>2, <2>1 DEF Floored, Workers
<1>4. CASE ScanError
  <2>1. Drift' = Drift + 1
    BY <1>4 DEF ScanError, Lose, Drift, TypeOK, BoundType
  <2>2. Pulled("consumer", k)' = Pulled("consumer", k)
    BY <1>4 DEF ScanError, Pulled, Clamps, TypeOK, TaskType, Workers
  <2> QED
    BY <1>1, <1>2, <2>1, <2>2 DEF Floored, Workers
<1> QED
  BY <1>3, <1>4

LEMMA FlooredStep ==
  ASSUME TypeOK, TypeOK', NEW k \in Keys, Floored(k), [Next]_vars
  PROVE  Floored(k)'
<1>1. losses \in Nat /\ crashes \in Nat /\ count[k] \in Int
  BY DEF TypeOK, BoundType, RedisType
<1>2. CASE Publish \/ HotState \/ UNCHANGED vars
  <2>1. UNCHANGED <<count, pc, job, par, losses, crashes>>
    BY <1>2 DEF Publish, Produce, HotState, HotStateUpdate, GoSilent, ExpireLatest,
                locals, bounds, redis, vars
  <2> QED
    BY <1>1, <2>1, FlooredKept DEF Clamps, Drift
<1>3. CASE \/ \E a \in Areas : Fetch(a)
           \/ GetFault \/ DeleteFault \/ EmitAlert \/ SetLatest
  <2>1. UNCHANGED <<count, losses, crashes>>
    BY <1>3 DEF Fetch, GetFault, DeleteFault, EmitAlert, SetLatest, redis, bounds
  <2>2. /\ pc["consumer"] # "clamp"
        /\ pc'["watchdog"] = pc["watchdog"] /\ job'["watchdog"] = job["watchdog"]
        /\ par' = par
    BY <1>3 DEF Fetch, GetFault, DeleteFault, EmitAlert, SetLatest, TypeOK, TaskType, Workers
  <2>3. \A w \in Workers : Clamps(w, k) => Clamps(w, k)'
    BY <2>2 DEF Clamps, Workers
  <2> QED
    BY <1>1, <2>1, <2>3, FlooredKept DEF Drift
<1>4. ASSUME NEW p \in Parameters, IncrCount(p) PROVE Floored(k)'
  <2>1. KeyOf(job["consumer"], p) \in Keys
    BY JobKey DEF Workers
  <2>2. count'[k] >= count[k]
    BY <1>1, <1>4, <2>1 DEF IncrCount, TypeOK, RedisType
  <2>3. UNCHANGED <<losses, crashes>>
    BY <1>4 DEF IncrCount, bounds
  <2>4. /\ pc["consumer"] # "clamp" /\ pc'["watchdog"] = pc["watchdog"]
        /\ job' = job /\ par' = par
    BY <1>4 DEF IncrCount, TypeOK, TaskType, Workers
  <2>5. \A w \in Workers : Clamps(w, k) => Clamps(w, k)'
    BY <2>4 DEF Clamps, Workers
  <2> QED
    BY <1>1, <2>2, <2>3, <2>5, FlooredKept DEF Drift
<1>5. CASE StartScan \/ EndScan \/ (\E s \in Sensors : ScanKey(s))
  <2>1. UNCHANGED <<count, losses, crashes>>
    BY <1>5 DEF StartScan, EndScan, ScanKey, redis, bounds
  <2>2. /\ pc["watchdog"] # "clamp"
        /\ pc'["consumer"] = pc["consumer"] /\ job'["consumer"] = job["consumer"]
        /\ par' = par
    BY <1>5 DEF StartScan, EndScan, ScanKey, TypeOK, TaskType, Workers
  <2>3. \A w \in Workers : Clamps(w, k) => Clamps(w, k)'
    BY <2>2 DEF Clamps, Workers
  <2> QED
    BY <1>1, <2>1, <2>3, FlooredKept DEF Drift
<1>6. CASE \/ \E a \in Areas : AutoCommit(a)
           \/ EmitError \/ (\E s \in Sensors : ExpireFault(s))
  <2>1. UNCHANGED <<count, pc, job, par, crashes>>
    BY <1>6 DEF AutoCommit, EmitError, ExpireFault, redis, locals, bounds
  <2>2. losses' = losses \/ losses' = losses + 1
    BY <1>6 DEF AutoCommit, EmitError, ExpireFault, Lose, bounds
  <2>3. Drift' >= Drift
    BY <1>1, <2>1, <2>2 DEF Drift
  <2> QED
    BY <1>1, <2>1, <2>3, FlooredKept DEF Clamps
<1> QED
  BY <1>2, <1>3, <1>4, <1>5, <1>6, FlooredTracker, FlooredDropped
     DEF Next, NextTasks, NextConsumer, ConsumerStep, WatchdogStep, Failure, Workers

LEMMA InitDrift == Init => DriftInv
<1> SUFFICES ASSUME Init PROVE DriftInv
  OBVIOUS
<1>1. TypeOK
  BY InitType
<1>2. JobInv
  BY DEF Init, Idle, JobInv
<1>3. ASSUME NEW k \in Keys PROVE Bounded(k) /\ Floored(k)
  <2>1. Up(k) = SensorsOn(k)
    BY DEF Init, Up, SensorsOn
  <2>2. Expected(k) = Cardinality(Up(k)) /\ ~Stale(k)
    BY UpFinite DEF Init, Idle, Expected, Owed, Decreases, AddsTo, Stale, Workers
  <2>3. count[k] \in {Cardinality(SensorsOn(k)), 0} /\ Drift = 0 /\ races = 0
    BY DEF Init, Drift
  <2>4. Pulled("consumer", k) = 0 /\ Pulled("watchdog", k) = 0
    BY DEF Init, Idle, Pulled, Clamps, Workers
  <2> QED
    BY <2>1, <2>2, <2>3, <2>4, UpFinite DEF Bounded, Floored
<1> QED
  BY <1>1, <1>2, <1>3 DEF DriftInv

LEMMA StepDrift == DriftInv /\ [Next]_vars => DriftInv'
<1> SUFFICES ASSUME DriftInv, [Next]_vars PROVE DriftInv'
  OBVIOUS
<1>1. TypeOK /\ TypeOK' /\ JobInv /\ JobInv'
  BY StepType, JobInvStep DEF DriftInv
<1>2. ASSUME NEW k \in Keys PROVE Bounded(k)' /\ Floored(k)'
  <2>1. Bounded(k) /\ Floored(k)
    BY DEF DriftInv
  <2> QED
    BY <1>1, <2>1, BoundedStep, FlooredStep
<1> QED
  BY <1>1, <1>2 DEF DriftInv, Keys

LEMMA ClampingCount ==
  ASSUME NEW k \in Keys
  PROVE  Cardinality(Clamping(k)) = Pulled("consumer", k) + Pulled("watchdog", k)
<1> DEFINE c == "consumer"
           d == "watchdog"
<1>1. Clamping(k) = {w \in {c, d} : Clamps(w, k)}
  BY DEF Clamping, Clamps, Workers
<1>2. CASE Clamps(c, k) /\ Clamps(d, k)
  <2>1. Clamping(k) = {c} \cup {d} /\ d \notin {c}
    BY <1>1, <1>2
  <2>2. Cardinality({c}) = 1 /\ IsFiniteSet({c})
    BY FS_Singleton
  <2>3. Cardinality({c} \cup {d}) = 2
    BY <2>1, <2>2, FS_AddElement
  <2> QED
    BY <1>2, <2>1, <2>3 DEF Pulled
<1>3. CASE Clamps(c, k) /\ ~Clamps(d, k)
  <2>1. Clamping(k) = {c}
    BY <1>1, <1>3
  <2> QED
    BY <1>3, <2>1, FS_Singleton DEF Pulled
<1>4. CASE ~Clamps(c, k) /\ Clamps(d, k)
  <2>1. Clamping(k) = {d}
    BY <1>1, <1>4
  <2> QED
    BY <1>4, <2>1, FS_Singleton DEF Pulled
<1>5. CASE ~Clamps(c, k) /\ ~Clamps(d, k)
  <2>1. Clamping(k) = {}
    BY <1>1, <1>5
  <2> QED
    BY <1>5, <2>1, FS_EmptySet DEF Pulled
<1> QED
  BY <1>2, <1>3, <1>4, <1>5

(* Through any interleaving of consumer and watchdog and any failures, seeded
   or not, an operational count is never too high by more than the failures
   and the races there have been, nor negative by more than the failures.    *)
THEOREM DriftIsBounded == Spec => []DriftBounded
<1>1. Init => DriftInv
  BY InitDrift
<1>2. DriftInv /\ [Next]_vars => DriftInv'
  BY StepDrift
<1>3. DriftInv => DriftBounded
  <2> SUFFICES ASSUME DriftInv, NEW k \in Keys
               PROVE  /\ count[k] <= Expected(k) + Drift + races
                      /\ count[k] + Cardinality(Clamping(k)) + Drift >= 0
    BY DEF DriftBounded
  <2>1. /\ count[k] <= Expected(k) + Drift + races
        /\ count[k] + Pulled("consumer", k) + Pulled("watchdog", k) + Drift >= 0
    BY DEF DriftInv, Bounded, Floored
  <2>2. count[k] \in Int
    BY DEF DriftInv, TypeOK, RedisType
  <2> QED
    BY <2>1, <2>2, ClampingCount DEF Pulled
<1> QED
  BY <1>1, <1>2, <1>3, PTL DEF Spec
=============================================================================
