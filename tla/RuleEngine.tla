----------------------------- MODULE RuleEngine -----------------------------
(***************************************************************************)
(* The rule engine's redundancy state machine (services/rule-engine): the   *)
(* Kafka consumer task and the silence watchdog task of one process, both   *)
(* driving RedundancyTracker over counters kept in Redis.                   *)
(*                                                                         *)
(* One action per Redis command: every `await` on Redis is a point where    *)
(* the other task may run, so DECR and the clamping SET, or GET and DELETE, *)
(* are separate steps.  Redis keys outlive the process; the tasks' local    *)
(* state does not.                                                         *)
(***************************************************************************)
EXTENDS Integers, Sequences, FiniteSets

CONSTANTS
  Sensors, Areas, Parameters,
  AreaOf,        \* the area a sensor belongs to
  Measures,      \* the parameters a sensor's readings carry
  Seeded,        \* whether init_area_sensor_count ran before the first reading
  Statuses,      \* the status values that occur on the telemetry topic
  Breaches,      \* whether a reading may cross a threshold
  MaxReadings,   \* bound: readings produced per area
  MaxScans,      \* bound: watchdog scans
  MaxCrashes,    \* bound: process crashes
  MaxLosses      \* bound: key expiries, failed sends, aborted scans (each)

ASSUME DeploymentAssumption ==
  /\ IsFiniteSet(Sensors) /\ Sensors # {} /\ Parameters # {}
  /\ AreaOf \in [Sensors -> Areas]
  /\ Measures \in [Sensors -> (SUBSET Parameters) \ {{}}]
  /\ Seeded \in BOOLEAN
  /\ Breaches \subseteq BOOLEAN
  /\ {MaxReadings, MaxScans, MaxCrashes, MaxLosses} \subseteq Nat

VARIABLES
  log,        \* the telemetry topic, one partition per area
  position,   \* the consumer's position in each partition
  committed,  \* the committed offset of each partition, or NoOffset
  count,      \* area:{id}:operational_count:{parameter}; 0 when the key is absent
  fault,      \* sensor:{id}:fault_count; 0 when the key is absent
  latest,     \* sensor:{id}:latest, as the age of the reading it holds: absent,
              \* recent, or silent (older than the silence timeout)
  pc, job, todo, par, pending,  \* the locals of the two tasks
  unscanned,  \* keys the current watchdog scan has still to visit
  scans, crashes, losses,       \* what has been used of the bounds
  sent,       \* history: the alerts accepted by the Kafka producer, in order
  episode,    \* history: how many fault runs each sensor has begun
  begun,      \* history: the fault run each task's last INCR was in
  races       \* history: how often decrement reset a counter to which the
              \* other task was about to add

redis  == <<count, fault, latest>>
kafka  == <<log, position, committed>>
locals == <<pc, job, todo, par, pending, unscanned>>
bounds == <<scans, crashes, losses>>
runs   == <<episode, begun>>
vars   == <<redis, kafka, locals, bounds, sent, runs, races>>

Workers   == {"consumer", "watchdog"}
Keys      == Areas \X Parameters
KeyOf(s, p)  == <<AreaOf[s], p>>
SensorsOn(k) == {s \in Sensors : AreaOf[s] = k[1] /\ k[2] \in Measures[s]}

NoOffset == -1
Accepted == {0, 1}        \* the statuses TelemetryMessage validates

Reading == [sensor : Sensors, status : Statuses, breach : Breaches]

Alert == [kind : {"threshold", "malfunction", "priority"},
          severity : {"low", "medium", "high"},
          sensor : Sensors, parameter : Parameters,
          remaining : Nat, episode : Nat]

MakeAlert(kind, severity, s, p, n, e) ==
  [kind |-> kind, severity |-> severity, sensor |-> s, parameter |-> p,
   remaining |-> n, episode |-> e]

Idle == [w \in Workers |-> "idle"]

Init ==
  /\ log = [a \in Areas |-> <<>>]
  /\ position = [a \in Areas |-> 0]
  /\ committed = [a \in Areas |-> NoOffset]
  /\ count = [k \in Keys |-> IF Seeded THEN Cardinality(SensorsOn(k)) ELSE 0]
  /\ fault = [s \in Sensors |-> 0]
  /\ latest = [s \in Sensors |-> "absent"]
  /\ pc = Idle
  /\ job = [w \in Workers |-> CHOOSE s \in Sensors : TRUE]
  /\ todo = [w \in Workers |-> {}]
  /\ par = [w \in Workers |-> CHOOSE p \in Parameters : TRUE]
  /\ pending = [w \in Workers |-> <<>>]
  /\ unscanned = {}
  /\ scans = 0 /\ crashes = 0 /\ losses = 0
  /\ sent = <<>>
  /\ episode = [s \in Sensors |-> 0]
  /\ begun = [w \in Workers |-> 0]
  /\ races = 0

-----------------------------------------------------------------------------
(* The environment: the gateway publishes, the telemetry service writes the
   same sensor:{id}:latest keys as the rule engine, and time passes for them. *)

Produce(s, status, breach) ==
  /\ Len(log[AreaOf[s]]) < MaxReadings
  /\ log' = [log EXCEPT ![AreaOf[s]] =
               Append(@, [sensor |-> s, status |-> status, breach |-> breach])]
  /\ UNCHANGED <<redis, position, committed, locals, bounds, sent, runs, races>>

Published(s) == {i \in 1 .. Len(log[AreaOf[s]]) :
                   /\ log[AreaOf[s]][i].sensor = s
                   /\ log[AreaOf[s]][i].status \in Accepted}

(* HotStateUpdater.update of some reading of s, at the telemetry service's own
   pace; a reading that waited in the topic is stored already silent.        *)
HotStateUpdate(s) ==
  /\ Published(s) # {}
  /\ \E age \in {"recent", "silent"} : latest' = [latest EXCEPT ![s] = age]
  /\ UNCHANGED <<count, fault, kafka, locals, bounds, sent, runs, races>>

GoSilent(s) ==
  /\ latest[s] = "recent"
  /\ latest' = [latest EXCEPT ![s] = "silent"]
  /\ UNCHANGED <<count, fault, kafka, locals, bounds, sent, runs, races>>

(* The key's TTL ran out: 360 s as the rule engine writes it, 120 s, less than
   the silence timeout of 180 s, as the telemetry service does.              *)
ExpireLatest(s) ==
  /\ latest[s] # "absent"
  /\ latest' = [latest EXCEPT ![s] = "absent"]
  /\ UNCHANGED <<count, fault, kafka, locals, bounds, sent, runs, races>>

HotState == \E s \in Sensors : HotStateUpdate(s) \/ GoSilent(s) \/ ExpireLatest(s)

-----------------------------------------------------------------------------
(* RedundancyTracker.on_sensor_reading, as run by task w.                   *)

AfterTrackerEmits(w) == "emit"       \* mutant: the watchdog emits like the consumer
AfterTracker(w) == IF w = "consumer" THEN "emit" ELSE "scan"

(* What the caller of on_sensor_reading does with the returned alerts: the
   consumer goes on to emit them, the watchdog ignores the return value.    *)
Returned(w, alerts) == IF w = "consumer" THEN alerts ELSE <<>>

AnyFault(faultCount) == faultCount >= 1   \* mutant: every fault, not the first
FirstOfRun(faultCount) == faultCount = 1

(* INCR of the fault key; only the first fault of a run goes on.  The EXPIRE
   after it renews the key's TTL and nothing else.                           *)
IncrFault(w) ==
  LET s == job[w]
      n == fault[s] + 1
  IN
  /\ pc[w] = "fault"
  /\ fault' = [fault EXCEPT ![s] = n]
  /\ episode' = [episode EXCEPT ![s] = IF fault[s] = 0 THEN @ + 1 ELSE @]
  /\ begun' = [begun EXCEPT ![w] = episode'[s]]
  /\ IF FirstOfRun(n)
     THEN pc' = [pc EXCEPT ![w] = "decr"] /\ UNCHANGED todo
     ELSE /\ pc' = [pc EXCEPT ![w] = AfterTracker(w)]
          /\ todo' = [todo EXCEPT ![w] = {}]
  /\ UNCHANGED <<count, latest, kafka, job, par, pending, unscanned, bounds,
                 sent, races>>

LossAlertsOnly(s, p, n, e) ==         \* mutant: no alert while a backup covers
  IF n = 0
  THEN <<MakeAlert("malfunction", "high", s, p, 0, e),
         MakeAlert("priority", "high", s, p, 0, e)>>
  ELSE <<>>

(* The alerts for parameter p once decrement has returned n.                *)
FaultAlerts(s, p, n, e) ==
  IF n = 0
  THEN <<MakeAlert("malfunction", "high", s, p, 0, e),
         MakeAlert("priority", "high", s, p, 0, e)>>
  ELSE <<MakeAlert("malfunction", "low", s, p, n, e)>>

Decremented(w, p, n) ==
  LET last == todo[w] = {p} IN
  /\ todo' = [todo EXCEPT ![w] = @ \ {p}]
  /\ pending' = [pending EXCEPT ![w] =
                   LET all == @ \o FaultAlerts(job[w], p, n, begun[w])
                   IN  IF last THEN Returned(w, all) ELSE all]
  /\ pc' = [pc EXCEPT ![w] = IF last THEN AfterTracker(w) ELSE "decr"]

(* DECR; a negative result leads to a second command that sets the key to 0 *)
Decr(w, p) ==
  LET k == KeyOf(job[w], p)
      n == count[k] - 1
  IN
  /\ pc[w] = "decr"
  /\ p \in todo[w]
  /\ count' = [count EXCEPT ![k] = n]
  /\ IF n < 0
     THEN /\ pc' = [pc EXCEPT ![w] = "clamp"]
          /\ par' = [par EXCEPT ![w] = p]
          /\ UNCHANGED <<todo, pending>>
     ELSE /\ Decremented(w, p, n)
          /\ UNCHANGED par
  /\ UNCHANGED <<fault, latest, kafka, job, unscanned, bounds, sent, runs, races>>

Concerns(w, k) == AreaOf[job[w]] = k[1] /\ k[2] \in todo[w]
AddsTo(k) == pc["consumer"] = "incr" /\ Concerns("consumer", k)

Clamp(w) ==
  LET k == KeyOf(job[w], par[w]) IN
  /\ pc[w] = "clamp"
  /\ count' = [count EXCEPT ![k] = 0]
  /\ races' = IF AddsTo(k) THEN races + 1 ELSE races
  /\ Decremented(w, par[w], 0)
  /\ UNCHANGED <<fault, latest, kafka, job, par, unscanned, bounds, sent, runs>>

(* _handle_recovery, which only the consumer reaches: the watchdog always
   reports status 0.                                                        *)
NeverSkip(faultCount) == FALSE        \* mutant: every healthy reading recovers
NothingToRecover(faultCount) == faultCount = 0

GetFault ==
  /\ pc["consumer"] = "recover"
  /\ pc' = [pc EXCEPT !["consumer"] =
              IF NothingToRecover(fault[job["consumer"]]) THEN "emit" ELSE "delete"]
  /\ UNCHANGED <<redis, kafka, job, todo, par, pending, unscanned, bounds,
                 sent, runs, races>>

DeleteFault ==
  /\ pc["consumer"] = "delete"
  /\ fault' = [fault EXCEPT ![job["consumer"]] = 0]
  /\ pc' = [pc EXCEPT !["consumer"] = "incr"]
  /\ UNCHANGED <<count, latest, kafka, job, todo, par, pending, unscanned,
                 bounds, sent, runs, races>>

IncrCount(p) ==
  LET w == "consumer" IN
  /\ pc[w] = "incr"
  /\ p \in todo[w]
  /\ count' = [count EXCEPT ![KeyOf(job[w], p)] = @ + 1]
  /\ todo' = [todo EXCEPT ![w] = @ \ {p}]
  /\ pc' = [pc EXCEPT ![w] = IF todo[w] = {p} THEN "emit" ELSE "incr"]
  /\ UNCHANGED <<fault, latest, kafka, job, par, pending, unscanned, bounds,
                 sent, runs, races>>

-----------------------------------------------------------------------------
(* RuleEngineConsumer: start's loop and _process.                           *)

ThresholdAlerts(r) ==
  IF r.breach
  THEN {<<MakeAlert("threshold", "high", r.sensor, p, 0, 0)>> : p \in Measures[r.sensor]}
  ELSE {<<>>}

(* The record the loop takes next is validated, evaluated and handed to the
   tracker; one that does not validate is skipped.                          *)
Fetch(a) ==
  LET w == "consumer"
      r == log[a][position[a] + 1]
  IN
  /\ pc[w] = "idle"
  /\ position[a] < Len(log[a])
  /\ position' = [position EXCEPT ![a] = @ + 1]
  /\ IF r.status \in Accepted
     THEN /\ job' = [job EXCEPT ![w] = r.sensor]
          /\ todo' = [todo EXCEPT ![w] = Measures[r.sensor]]
          /\ \E alerts \in ThresholdAlerts(r) :
               pending' = [pending EXCEPT ![w] = alerts]
          /\ pc' = [pc EXCEPT ![w] = IF r.status = 0 THEN "fault" ELSE "recover"]
     ELSE UNCHANGED <<job, todo, pending, pc>>
  /\ UNCHANGED <<redis, log, committed, par, unscanned, bounds, sent, runs,
                 races>>

EmitAlert ==
  LET w == "consumer" IN
  /\ pc[w] = "emit"
  /\ pending[w] # <<>>
  /\ sent' = Append(sent, Head(pending[w]))
  /\ pending' = [pending EXCEPT ![w] = Tail(@)]
  /\ UNCHANGED <<redis, kafka, pc, job, todo, par, unscanned, bounds, runs,
                 races>>

(* The final SET of sensor:{id}:latest.  The record keeps the reading's own
   ingested_at, so one that waited in the topic is stored already silent.   *)
SetLatest ==
  LET w == "consumer" IN
  /\ pc[w] = "emit"
  /\ pending[w] = <<>>
  /\ \E age \in {"recent", "silent"} :
       latest' = [latest EXCEPT ![job[w]] = age]
  /\ todo' = [todo EXCEPT ![w] = {}]
  /\ pc' = [pc EXCEPT ![w] = "idle"]
  /\ UNCHANGED <<count, fault, kafka, job, par, pending, unscanned, bounds,
                 sent, runs, races>>

-----------------------------------------------------------------------------
(* SensorWatchdog: run's loop and _scan.                                    *)

StartScan ==
  /\ pc["watchdog"] = "idle"
  /\ scans < MaxScans
  /\ scans' = scans + 1
  /\ unscanned' = {s \in Sensors : latest[s] # "absent"}
  /\ pc' = [pc EXCEPT !["watchdog"] = "scan"]
  /\ UNCHANGED <<redis, kafka, job, todo, par, pending, crashes, losses, sent,
                 runs, races>>

(* GET of one scanned key; a silent sensor is reported to the tracker as a
   fault, from here on without looking at the key again.                    *)
ScanKey(s) ==
  LET w == "watchdog" IN
  /\ pc[w] = "scan"
  /\ s \in unscanned
  /\ unscanned' = unscanned \ {s}
  /\ IF latest[s] = "silent"
     THEN /\ job' = [job EXCEPT ![w] = s]
          /\ todo' = [todo EXCEPT ![w] = Measures[s]]
          /\ pc' = [pc EXCEPT ![w] = "fault"]
     ELSE UNCHANGED <<job, todo, pc>>
  /\ UNCHANGED <<redis, kafka, par, pending, bounds, sent, runs, races>>

EndScan ==
  /\ pc["watchdog"] = "scan"
  /\ unscanned = {}
  /\ pc' = [pc EXCEPT !["watchdog"] = "idle"]
  /\ UNCHANGED <<redis, kafka, job, todo, par, pending, unscanned, bounds,
                 sent, runs, races>>

-----------------------------------------------------------------------------
(* What may go wrong around the tasks.                                      *)

AutoCommit(a) ==
  /\ committed[a] # position[a]
  /\ committed' = [committed EXCEPT ![a] = position[a]]
  /\ UNCHANGED <<redis, log, position, locals, bounds, sent, runs, races>>

(* The process dies (any exception of the consumer ends it too) and compose
   restarts it: a partition without a committed offset resumes at its end.  *)
Crash ==
  /\ crashes < MaxCrashes
  /\ crashes' = crashes + 1
  /\ position' = [a \in Areas |->
       IF committed[a] = NoOffset THEN Len(log[a]) ELSE committed[a]]
  /\ pc' = Idle
  /\ todo' = [w \in Workers |-> {}]
  /\ pending' = [w \in Workers |-> <<>>]
  /\ unscanned' = {}
  /\ UNCHANGED <<redis, log, committed, job, par, scans, losses, sent, runs,
                 races>>

Lose == losses < MaxLosses /\ losses' = losses + 1

(* A Redis error inside _scan: run logs it and sleeps until the next scan.  *)
ScanError ==
  LET w == "watchdog" IN
  /\ pc[w] # "idle"
  /\ Lose
  /\ pc' = [pc EXCEPT ![w] = "idle"]
  /\ todo' = [todo EXCEPT ![w] = {}]
  /\ pending' = [pending EXCEPT ![w] = <<>>]
  /\ unscanned' = {}
  /\ UNCHANGED <<redis, kafka, job, par, scans, crashes, sent, runs, races>>

(* producer.send raised: _emit_alert logs it and the loop goes on.          *)
EmitError ==
  LET w == "consumer" IN
  /\ pc[w] = "emit"
  /\ pending[w] # <<>>
  /\ Lose
  /\ pending' = [pending EXCEPT ![w] = Tail(@)]
  /\ UNCHANGED <<redis, kafka, pc, job, todo, par, unscanned, scans, crashes,
                 sent, runs, races>>

(* The fault key's TTL ran out.                                             *)
ExpireFault(s) ==
  /\ fault[s] > 0
  /\ Lose
  /\ fault' = [fault EXCEPT ![s] = 0]
  /\ UNCHANGED <<count, latest, kafka, locals, scans, crashes, sent, runs,
                 races>>

-----------------------------------------------------------------------------
Tracker(w) == \/ IncrFault(w)
              \/ \E p \in Parameters : Decr(w, p)
              \/ Clamp(w)

ConsumerStep == \/ \E a \in Areas : Fetch(a)
                \/ Tracker("consumer")
                \/ GetFault
                \/ DeleteFault
                \/ \E p \in Parameters : IncrCount(p)
                \/ EmitAlert
                \/ SetLatest

WatchdogStep == \/ StartScan
                \/ \E s \in Sensors : ScanKey(s)
                \/ Tracker("watchdog")
                \/ EndScan

Publish == \E s \in Sensors, status \in Statuses, breach \in Breaches :
             Produce(s, status, breach)

Failure == \/ \E a \in Areas : AutoCommit(a)
           \/ Crash
           \/ ScanError
           \/ EmitError
           \/ \E s \in Sensors : ExpireFault(s)

(* The consumer alone; both tasks; both tasks and every failure.            *)
NextConsumer == Publish \/ ConsumerStep
NextTasks    == NextConsumer \/ WatchdogStep \/ HotState
Next         == NextTasks \/ Failure

SpecConsumer == Init /\ [][NextConsumer]_vars /\ WF_vars(ConsumerStep)
SpecTasks    == Init /\ [][NextTasks]_vars
Spec         == Init /\ [][Next]_vars

-----------------------------------------------------------------------------
(* Type correctness, per part of the state.                                 *)
PCs == {"idle", "scan", "fault", "decr", "clamp", "recover", "delete", "incr", "emit"}

KafkaType == /\ log \in [Areas -> Seq(Reading)]
             /\ position \in [Areas -> Nat]
             /\ committed \in [Areas -> Nat \cup {NoOffset}]

RedisType == /\ count \in [Keys -> Int]
             /\ fault \in [Sensors -> Nat]
             /\ latest \in [Sensors -> {"absent", "recent", "silent"}]

TaskType == /\ pc \in [Workers -> PCs]
            /\ pc["consumer"] # "scan"
            /\ pc["watchdog"] \notin {"recover", "delete", "incr", "emit"}
            /\ job \in [Workers -> Sensors]
            /\ todo \in [Workers -> SUBSET Parameters]
            /\ par \in [Workers -> Parameters]
            /\ pending \in [Workers -> Seq(Alert)]
            /\ unscanned \subseteq Sensors

BoundType == scans \in Nat /\ crashes \in Nat /\ losses \in Nat

HistoryType == /\ sent \in Seq(Alert)
               /\ episode \in [Sensors -> Nat]
               /\ begun \in [Workers -> Nat]
               /\ races \in Nat

TypeOK == KafkaType /\ RedisType /\ TaskType /\ BoundType /\ HistoryType

(* The sensors on key k that are not marked faulty.                         *)
Up(k) == {s \in SensorsOn(k) : fault[s] = 0}

(* What task w, in the middle of the tracker, has still to do to counter k:
   it has flipped the sensor's fault key but not yet moved the counter.     *)
Decreases(w, k) == /\ Concerns(w, k)
                   /\ pc[w] = "decr" \/ (pc[w] = "clamp" /\ k[2] # par[w])
Owed(w, k) == IF Decreases(w, k) THEN 1
              ELSE IF w = "consumer" /\ AddsTo(k) THEN -1 ELSE 0

Expected(k) == Cardinality(Up(k)) + Owed("consumer", k) + Owed("watchdog", k)

(* How far the counter may have drifted: a lost key or an aborted scan costs
   one unit, a crash one unit per task.                                     *)
Drift == losses + 2 * crashes

(* The tasks that have made counter k negative and will set it to 0.         *)
Clamping(k) == {w \in Workers : pc[w] = "clamp" /\ KeyOf(job[w], par[w]) = k}

(* Whatever the two tasks interleave and whatever fails, seeded or not: an
   operational count exceeds the number of sensors not marked faulty
   (corrected for the steps a task still owes) by no more than the
   disturbances there have been, a reset that met an addition among them, so
   that without any a total loss is never taken for a partial one; and it is
   negative only while a task is about to reset it, or for what was dropped.  *)
DriftBounded ==
  \A k \in Keys : /\ count[k] <= Expected(k) + Drift + races
                  /\ count[k] + Cardinality(Clamping(k)) + Drift >= 0

(* In one fault run of a sensor at most one malfunction alert per parameter
   is produced, through crashes, redelivered readings, watchdog scans and
   expired keys: no alert storm while a sensor stays down.                  *)
Produced == sent \o pending["consumer"] \o pending["watchdog"]
OneAlertPerEpisode ==
  \A i, j \in 1 .. Len(Produced) :
    LET a == Produced[i]
        b == Produced[j]
    IN  /\ a.kind = "malfunction" /\ b.kind = "malfunction"
        /\ a.sensor = b.sensor /\ a.parameter = b.parameter
        /\ a.episode = b.episode
        => i = j

(* The status of the last accepted reading of s in the topic; a sensor that
   has sent none counts as up.                                              *)
LastStatus(s) ==
  LET own == Published(s)
  IN  IF own = {} THEN 1
      ELSE log[AreaOf[s]][CHOOSE i \in own : \A j \in own : j <= i].status

(* With the consumer alone the counters converge to what accumulating the
   topic event by event gives: per parameter, the number of sensors whose
   last reading was healthy.                                                *)
EventuallyAccurate ==
  <>[](\A k \in Keys :
         count[k] = Cardinality({s \in SensorsOn(k) : LastStatus(s) = 1}))

(* The README's rule and test "two sensors in area, one fails -> low-priority
   malfunction": when the consumer is about to emit a high malfunction, no
   sensor is left that covers the parameter in that area.                   *)
EscalationMeansTotalLoss ==
  pc["consumer"] = "emit" =>
    \A i \in 1 .. Len(pending["consumer"]) :
      LET a == pending["consumer"][i] IN
      a.kind = "malfunction" /\ a.severity = "high" =>
        Up(KeyOf(a.sensor, a.parameter)) = {}

AtRest == pc = Idle /\ \A a \in Areas : position[a] = Len(log[a])

(* The README's rule for status 0 "or sensor-silence-timeout": once nothing is
   left to process, every sensor marked faulty has had its malfunction alert. *)
FaultAnnounced ==
  AtRest =>
    \A s \in Sensors : fault[s] > 0 =>
      \A p \in Measures[s] : \E i \in 1 .. Len(sent) :
        /\ sent[i].kind = "malfunction"
        /\ sent[i].sensor = s /\ sent[i].parameter = p
        /\ sent[i].episode = episode[s]

-----------------------------------------------------------------------------
(* The redundancy alerts among those of sequence q.                         *)
RedundancyAlerts(q) == {q[i] : i \in {j \in 1 .. Len(q) : q[j].kind # "threshold"}}

(* The state of Coverage, read off the state of the consumer.               *)
Down      == {s \in Sensors : fault[s] > 0}
OwedPairs == IF pc["consumer"] \in {"decr", "clamp"}
             THEN {job["consumer"]} \X todo["consumer"] ELSE {}
Announced == RedundancyAlerts(sent) \cup RedundancyAlerts(pending["consumer"])

Promise == INSTANCE Coverage WITH
  down <- Down, owed <- OwedPairs, announced <- Announced, outages <- episode,
  Exact <- Seeded

(* The consumer's counter arithmetic implements the abstract coverage rule:
   every malfunction it announces carries a number of sensors still covering
   the parameter that is true if the counters were seeded and never too high
   if not, the last loss is escalated, and a sensor that is already down or
   healthy causes nothing.                                                  *)
ImplementsCoverage == Promise!Spec
=============================================================================
