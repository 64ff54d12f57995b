------------------------------ MODULE Silence ------------------------------
(***************************************************************************)
(* How the system notices that a sensor has fallen silent.  The sensor's     *)
(* loop publishes what its edge filter lets through; the telemetry service   *)
(* and the rule engine each take every reading from the topic, at their own  *)
(* pace, and both write it to the one key sensor:{id}:latest, with different *)
(* TTLs; the watchdog judges the age of what it finds there and marks the    *)
(* sensor faulty.  Sensors do not affect each other here, so there is one.   *)
(*                                                                         *)
(* Time passes in ticks of the nominal emission interval.                    *)
(***************************************************************************)
EXTENDS Integers, Sequences

CONSTANTS
  FaultMin, FaultMax,  \* FAULT_MIN_CYCLES, FAULT_MAX_CYCLES
  HotTTL,              \* REDIS_HOT_STATE_TTL_S, in ticks
  MarkTTL,             \* _FAULT_COUNT_TTL_S, in ticks
  Timeout,             \* sensor_silence_timeout_s, in ticks
  MaxLag,              \* bound: ticks a reading waits for a consumer
  MaxFlight            \* bound: readings waiting for a consumer

ASSUME SilenceAssumption ==
  /\ FaultMin \in Nat \ {0} /\ FaultMax \in Nat /\ FaultMin <= FaultMax
  /\ HotTTL \in Nat \ {0} /\ MarkTTL \in Nat \ {0, 1} /\ Timeout \in Nat \ {0, 1}
  /\ MaxLag \in Nat \ {0} /\ 2 * MaxLag <= Timeout
  /\ MaxFlight \in Nat \ {0}

VARIABLES
  running,    \* the sensor's task is alive
  remaining,  \* _fault_cycles_remaining
  published,  \* _last_published is not empty
  telemetry, engine,  \* readings each consumer has still to handle
  tracked,    \* the engine has tracked the first of its readings, not yet stored it
  missed,     \* history: the telemetry service's last write of latest failed
  latest,     \* sensor:{id}:latest, {} when the key is absent
  marked,     \* sensor:{id}:fault_count: the ticks left to it, 0 when absent
  scan,       \* the watchdog: idle, or about to mark; then what heard was as it looked
  scanned,    \* it looked since the last tick
  arrived,    \* history: the sensor's last transmission reached the topic
  quiet,      \* history: ticks since the newest reading came in
  heard,      \* history: ticks since the newest reading stored in latest came in
  cause,      \* history: the verdict the mark rests on, 0 if not the watchdog's
  status,     \* history: of the last reading tracked
  engineLast  \* history: the rule engine was the last to write latest

sensor   == <<running, remaining, published>>
topic    == <<telemetry, engine, tracked, missed>>
redis    == <<latest, marked>>
watchdog == <<scan, scanned>>
history  == <<arrived, quiet, heard, cause, status, engineLast>>
vars     == <<sensor, topic, redis, watchdog, history>>

Idle == -1
LongerTTL == 2 * Timeout
BareTimeout == Timeout          \* mutant: ex=sensor_silence_timeout_s
LatestTTL == LongerTTL
AgeMax == LongerTTL + MarkTTL + MaxLag

Init ==
  /\ running = FALSE /\ remaining = 0 /\ published = FALSE
  /\ telemetry = <<>> /\ engine = <<>> /\ tracked = FALSE /\ missed = FALSE
  /\ latest = {} /\ marked = 0
  /\ scan = Idle /\ scanned = FALSE
  /\ arrived = FALSE /\ quiet = AgeMax /\ heard = AgeMax /\ cause = 0 /\ status = 1
  /\ engineLast = FALSE

-----------------------------------------------------------------------------
(* The simulator: one task per sensor, with a new Sensor each time.          *)
StartSensor ==
  /\ ~running
  /\ running' = TRUE /\ remaining' = 0 /\ published' = FALSE
  /\ UNCHANGED <<topic, redis, watchdog, history>>

StopSensor ==
  /\ running
  /\ running' = FALSE
  /\ UNCHANGED <<remaining, published, topic, redis, watchdog, history>>

Unguarded(drawn) == IF drawn > 0 THEN drawn ELSE remaining - 1  \* mutant: no > 0
Countdown(drawn) ==
  CASE remaining > 0 -> remaining - 1
    [] remaining = 0 -> drawn

(* The cycle is part of a fault: one under way, or one just drawn.           *)
Faulty(drawn) == remaining > 0 \/ drawn > 0

(* What arrived, the gateway stamped and put on the topic.                   *)
Ingest(s) ==
  LET reading == [status |-> s, age |-> 0] IN
  /\ Len(telemetry) < MaxFlight /\ Len(engine) < MaxFlight
  /\ telemetry' = Append(telemetry, reading)
  /\ engine' = Append(engine, reading)
  /\ quiet' = 0

(* The edge filter, which applies to healthy readings only: nothing has moved
   by the delta since the last publication.                                  *)
AnyStatus(drawn) == published                    \* mutant: not is_faulty dropped
Suppressible(drawn) == published /\ ~Faulty(drawn)

Suppress(drawn) ==
  /\ Suppressible(drawn)
  /\ UNCHANGED <<published, arrived, telemetry, engine, quiet>>

(* A wait for the broker that times out counts as published like a success,
   an error does not; either way the message may arrive or not.              *)
Transmit(drawn) ==
  /\ published' \in {published, TRUE}
  /\ \/ Ingest(IF Faulty(drawn) THEN 0 ELSE 1) /\ arrived' = TRUE
     \/ arrived' = FALSE /\ UNCHANGED <<telemetry, engine, quiet>>

Cycle ==
  /\ running
  /\ \E drawn \in {0} \cup FaultMin .. FaultMax :
       /\ remaining > 0 => drawn = 0
       /\ remaining' = Countdown(drawn)
       /\ Suppress(drawn) \/ Transmit(drawn)
  /\ UNCHANGED <<running, tracked, missed, redis, watchdog, heard, cause, status, engineLast>>

-----------------------------------------------------------------------------
(* The two writers of sensor:{id}:latest.                                    *)
OnlyIfAbsent(new) == IF latest = {} THEN {new} ELSE latest   \* mutant: SET ... NX
Overwritten(new) == {new}

Set(age, ttl) ==
  /\ latest' = Overwritten([age |-> age, left |-> ttl])
  /\ heard' = IF age < heard THEN age ELSE heard

StoreHot ==
  /\ telemetry # <<>>
  /\ Set(Head(telemetry).age, HotTTL)
  /\ telemetry' = Tail(telemetry)
  /\ engineLast' = FALSE /\ missed' = FALSE
  /\ UNCHANGED <<sensor, engine, tracked, marked, watchdog, arrived, quiet, cause, status>>

(* A write that fails is logged and skipped; one that Redis carried out before
   the error is StoreHot.                                                    *)
SkipHot ==
  /\ telemetry # <<>>
  /\ telemetry' = Tail(telemetry)
  /\ missed' = TRUE
  /\ UNCHANGED <<sensor, engine, tracked, redis, watchdog, history>>

(* A faulty reading marks the sensor, a healthy one clears the mark.         *)
Track ==
  /\ engine # <<>> /\ ~tracked
  /\ tracked' = TRUE
  /\ status' = Head(engine).status
  /\ marked' = IF status' = 0 THEN MarkTTL ELSE 0
  /\ cause' = 0
  /\ UNCHANGED <<sensor, telemetry, engine, missed, latest, watchdog, arrived, quiet, heard,
                 engineLast>>

StoreLatest ==
  /\ tracked
  /\ Set(Head(engine).age, LatestTTL)
  /\ engine' = Tail(engine)
  /\ tracked' = FALSE
  /\ engineLast' = TRUE
  /\ UNCHANGED <<sensor, telemetry, missed, marked, watchdog, arrived, quiet, cause, status>>

-----------------------------------------------------------------------------
(* The watchdog: read the key and judge it, then mark.                       *)
AtTimeout(age) == age >= Timeout        \* mutant: >= for >
TooOld(age) == age > Timeout

Look ==
  /\ scan = Idle
  /\ scanned' = TRUE
  /\ scan' = IF \E r \in latest : TooOld(r.age) THEN heard ELSE Idle
  /\ UNCHANGED <<sensor, topic, redis, history>>

Mark ==
  /\ scan # Idle
  /\ marked' = MarkTTL
  /\ cause' = IF marked > 0 THEN cause ELSE scan
  /\ scan' = Idle
  /\ UNCHANGED <<sensor, topic, latest, scanned, arrived, quiet, heard, status, engineLast>>

-----------------------------------------------------------------------------
Older(age) == IF age < AgeMax THEN age + 1 ELSE age
Waiting(q) == [i \in 1 .. Len(q) |-> [q[i] EXCEPT !.age = @ + 1]]
OnTime(q) == \A i \in 1 .. Len(q) : q[i].age < MaxLag

(* The watchdog's interval is shorter than a tick.                           *)
Tick ==
  /\ scanned /\ scan = Idle
  /\ OnTime(telemetry) /\ OnTime(engine)
  /\ scanned' = FALSE
  /\ telemetry' = Waiting(telemetry) /\ engine' = Waiting(engine)
  /\ latest' = {[age |-> Older(r.age), left |-> r.left - 1] :
                  r \in {r \in latest : r.left > 1}}
  /\ marked' = IF marked > 0 THEN marked - 1 ELSE 0
  /\ quiet' = Older(quiet) /\ heard' = Older(heard)
  /\ UNCHANGED <<running, remaining, published, tracked, missed, scan,
                 arrived, cause, status, engineLast>>

Next ==
  \/ StartSensor \/ StopSensor \/ Cycle
  \/ StoreHot \/ SkipHot \/ Track \/ StoreLatest
  \/ Look \/ Mark
  \/ Tick

Spec == Init /\ [][Next]_vars

-----------------------------------------------------------------------------
Flight == [status : {0, 1}, age : 0 .. MaxLag]

TypeOK ==
  /\ running \in BOOLEAN /\ published \in BOOLEAN /\ arrived \in BOOLEAN
  /\ remaining \in 0 .. FaultMax
  /\ telemetry \in Seq(Flight) /\ Len(telemetry) <= MaxFlight
  /\ engine \in Seq(Flight) /\ Len(engine) <= MaxFlight
  /\ tracked \in BOOLEAN /\ (tracked => engine # <<>>) /\ missed \in BOOLEAN
  /\ latest \subseteq [age : 0 .. AgeMax, left : 1 .. HotTTL + LongerTTL]
  /\ marked \in 0 .. MarkTTL /\ scanned \in BOOLEAN /\ engineLast \in BOOLEAN
  /\ scan \in Idle .. AgeMax
  /\ quiet \in 0 .. AgeMax /\ heard \in 0 .. AgeMax /\ cause \in 0 .. AgeMax
  /\ status \in {0, 1}

(* "Faulty sensors always transmit": while a fault lasts the sensor is marked
   as soon as the engine has caught up, unless its last transmission was lost,
   and nothing but a later reading or the TTL unmarks it.                     *)
FaultSeen == remaining > 0 /\ arrived /\ engine = <<>> /\ quiet < MarkTTL => marked > 0

(* A sensor is marked faulty because the last reading tracked said so, or
   because the watchdog looked when nothing newer than the timeout had been
   stored of it: a lagging writer that puts an older reading back over a newer
   one does not make a sensor that reports look silent.  Where a key written by
   the telemetry service can outlast the timeout, that service may put an older
   reading back and then fail to write the newer one, and the verdict comes
   early by as much as it lags.                                              *)
Early == IF HotTTL + MaxLag > Timeout + 1 THEN MaxLag ELSE 0
MarkedForCause == marked > 0 => status = 0 \/ cause + Early > Timeout

(* A sensor of which nothing has come in for longer than the timeout and one
   scan is marked, until the mark expires, provided the rule engine was the
   last to write its key (the TTL of the telemetry service lets it expire
   before it counts as silent).                                              *)
SilenceNoticed ==
  quiet > Timeout + 1 /\ quiet < LongerTTL + MarkTTL - 1 /\ engineLast => marked > 0

(* The key is never further behind what was stored than the lag, and once both
   services have caught up it holds the newest reading, whichever of the two
   wrote it last; unless it was the telemetry service, and its write of the
   newest one failed.                                                        *)
LatestNotStale ==
  \A r \in latest :
    /\ r.age <= heard + MaxLag
    /\ telemetry = <<>> /\ engine = <<>> => r.age = quiet \/ (missed /\ ~engineLast)
=============================================================================
