------------------------------ MODULE Gateway ------------------------------
(***************************************************************************)
(* The ingestion gateway: one coroutine per MQTT message checks the claimed  *)
(* area of its sensor against SensorCache (filled from opdb.sensor, which    *)
(* the geo-service writes) and produces to the telemetry topic.  Coroutines  *)
(* start in the order of arrival and are suspended in a cache miss and in    *)
(* the producer, so that any of them may overtake another.                   *)
(*                                                                         *)
(* Time passes in ticks; a cache entry lives TTL of them.                    *)
(***************************************************************************)
EXTENDS Integers, Sequences, SequencesExt

CONSTANTS
  Sensors, Areas,
  AreaOf,       \* the area a sensor is registered in
  Unknown,      \* the None of get_area_id
  TTL,          \* sensor_cache_ttl_s, in ticks
  MaxDelay,     \* bound: ticks from the SELECT to resuming, or in producer.send
  MaxMessages,  \* bound: messages published
  MaxFaults     \* bound: database and producer errors, restarts

ASSUME GatewayAssumption ==
  /\ Unknown \notin Areas
  /\ AreaOf \in [Sensors -> Areas]
  /\ TTL \in Nat \ {0} /\ MaxDelay \in Nat
  /\ MaxMessages \in Nat /\ MaxFaults \in Nat

VARIABLES
  status,  \* opdb.sensor: not yet created, active or decommissioned
  held,    \* history: ticks since status last changed, up to Forever
  failed,  \* history: ticks since a lookup last failed, up to Forever
  cache,   \* _store: what is known of a sensor and the ticks left of its entry
  mqtt,    \* the messages that parsed and validated, in order of arrival
  task,    \* the _process coroutine of each message
  kafka,   \* which messages were handed to the producer's batches, in order
  faults   \* what has been used of the bound

vars == <<status, held, failed, cache, mqtt, task, kafka, faults>>

Answers == Areas \cup {Unknown}
Forever == TTL + 2 * MaxDelay
Message == [sensor : Sensors, area : Areas]
Ids     == 1 .. MaxMessages

(* A coroutine is absent, scheduled, waiting for its SELECT, resuming with the
   answer it was given some ticks ago, or in producer.send for some ticks; in
   the end it is rejected or done.                                           *)
At(stage)       == [stage |-> stage, answer |-> Unknown, delay |-> 0]
Resuming(found) == [stage |-> "resuming", answer |-> found, delay |-> 0]

Expired   == [answer |-> Unknown, left |-> 0]
Stored(a) == [answer |-> a, left |-> TTL]

Init ==
  /\ status \in [Sensors -> {"new", "active"}]
  /\ held = [s \in Sensors |-> Forever] /\ failed = [s \in Sensors |-> Forever]
  /\ cache = [s \in Sensors |-> Expired]
  /\ mqtt = <<>>
  /\ task = [i \in Ids |-> At("absent")]
  /\ kafka = <<>>
  /\ faults = 0

Fault == faults < MaxFaults /\ faults' = faults + 1

-----------------------------------------------------------------------------
(* The geo-service: a sensor is created and, once, decommissioned; its area
   never changes.                                                            *)
CreateSensor(s) ==
  /\ status[s] = "new"
  /\ status' = [status EXCEPT ![s] = "active"] /\ held' = [held EXCEPT ![s] = 0]
  /\ UNCHANGED <<failed, cache, mqtt, task, kafka, faults>>

Decommission(s) ==
  /\ status[s] = "active"
  /\ status' = [status EXCEPT ![s] = "gone"] /\ held' = [held EXCEPT ![s] = 0]
  /\ UNCHANGED <<failed, cache, mqtt, task, kafka, faults>>

-----------------------------------------------------------------------------
(* on_message, in paho's thread: schedule a coroutine on the event loop.     *)
OnMessage(m) ==
  LET i == Len(mqtt) + 1 IN
  /\ i \in Ids
  /\ mqtt' = Append(mqtt, m)
  /\ task' = [task EXCEPT ![i] = At("scheduled")]
  /\ UNCHANGED <<status, held, failed, cache, kafka, faults>>

Scheduled == {i \in Ids : task[i].stage = "scheduled"}
NextReady(ready) == CHOOSE i \in ready : \A j \in ready : i <= j

Accepts(m, a) == a = m.area

(* Reject an unknown sensor or a foreign area; otherwise call producer.send,
   which waits for metadata or for room in a batch.                          *)
Judged(m, a) == IF Accepts(m, a) THEN At("sending") ELSE At("rejected")

Sliding(entry) == [entry EXCEPT !.left = TTL]      \* mutant: a hit renews the entry
Extending(entry) == [entry EXCEPT !.left = @ + TTL]  \* mutant: a hit extends it
AfterHit(entry) == entry

(* A coroutine runs up to the SELECT of a miss, or is judged on a hit.       *)
Start ==
  LET i == NextReady(Scheduled)
      s == mqtt[i].sensor IN
  /\ Scheduled # {}
  /\ IF cache[s].left > 0
     THEN /\ task' = [task EXCEPT ![i] = Judged(mqtt[i], cache[s].answer)]
          /\ cache' = [cache EXCEPT ![s] = AfterHit(@)]
     ELSE /\ task' = [task EXCEPT ![i] = At("selecting")]
          /\ UNCHANGED cache
  /\ UNCHANGED <<status, held, failed, mqtt, kafka, faults>>

(* _fetch_from_db: the pool serves waiting coroutines in any order.          *)
Select(i) ==
  LET s == mqtt[i].sensor IN
  /\ task[i].stage = "selecting"
  /\ task' = [task EXCEPT ![i] =
       Resuming(IF status[s] = "active" THEN AreaOf[s] ELSE Unknown)]
  /\ UNCHANGED <<status, held, failed, cache, mqtt, kafka, faults>>

(* An error is answered like a sensor that is not there.                     *)
SelectError(i) ==
  /\ task[i].stage = "selecting"
  /\ Fault
  /\ task' = [task EXCEPT ![i] = Resuming(Unknown)]
  /\ failed' = [failed EXCEPT ![mqtt[i].sensor] = 0]
  /\ UNCHANGED <<status, held, cache, mqtt, kafka>>

(* Store the answer, a negative one as well, and judge the message by it.    *)
Resume(i) ==
  /\ task[i].stage = "resuming"
  /\ cache' = [cache EXCEPT ![mqtt[i].sensor] = Stored(task[i].answer)]
  /\ task' = [task EXCEPT ![i] = Judged(mqtt[i], task[i].answer)]
  /\ UNCHANGED <<status, held, failed, mqtt, kafka, faults>>

(* producer.send returns: the message is in its partition's batch.           *)
Send(i) ==
  /\ task[i].stage = "sending"
  /\ kafka' = Append(kafka, i)
  /\ task' = [task EXCEPT ![i] = At("done")]
  /\ UNCHANGED <<status, held, failed, cache, mqtt, faults>>

(* It raises: the error is logged and counted, and the message lost.         *)
SendError(i) ==
  /\ task[i].stage = "sending"
  /\ Fault
  /\ task' = [task EXCEPT ![i] = At("done")]
  /\ UNCHANGED <<status, held, failed, cache, mqtt, kafka>>

(* Coroutines in flight and the cache die with the process.                  *)
Restart ==
  /\ Fault
  /\ cache' = [s \in Sensors |-> Expired]
  /\ task' = [i \in Ids |-> IF task[i].stage \in {"absent", "rejected"} THEN task[i]
                            ELSE At("done")]
  /\ UNCHANGED <<status, held, failed, mqtt, kafka>>

-----------------------------------------------------------------------------
KeepsMisses(entry) ==                 \* mutant: negative answers never expire
  IF entry.left > 0 /\ entry.answer # Unknown
  THEN [entry EXCEPT !.left = @ - 1] ELSE entry
Aged(entry) ==
  CASE entry.left > 1 -> [entry EXCEPT !.left = @ - 1]
    [] OTHER -> Expired

Older(n) == IF n < Forever THEN n + 1 ELSE n

Tick ==
  /\ \A i \in Ids : task[i].delay < MaxDelay
  /\ cache' = [s \in Sensors |-> Aged(cache[s])]
  /\ held' = [s \in Sensors |-> Older(held[s])]
  /\ failed' = [s \in Sensors |-> Older(failed[s])]
  /\ task' = [i \in Ids |-> IF task[i].stage \in {"resuming", "sending"}
                            THEN [task[i] EXCEPT !.delay = @ + 1] ELSE task[i]]
  /\ <<cache', held', failed', task'>> # <<cache, held, failed, task>>
  /\ UNCHANGED <<status, mqtt, kafka, faults>>

Process == Start \/ \E i \in Ids : Select(i) \/ Resume(i) \/ Send(i)

Next ==
  \/ \E s \in Sensors : CreateSensor(s) \/ Decommission(s)
  \/ \E m \in Message : OnMessage(m)
  \/ Process
  \/ \E i \in Ids : SelectError(i) \/ SendError(i)
  \/ Restart \/ Tick

Spec == /\ Init /\ [][Next]_vars
        /\ WF_vars(Start) /\ \A i \in Ids : WF_vars(Select(i) \/ Resume(i) \/ Send(i))
        /\ WF_vars(Tick)

-----------------------------------------------------------------------------
Stages == {"absent", "scheduled", "selecting", "resuming", "sending", "rejected", "done"}

TypeOK ==
  /\ status \in [Sensors -> {"new", "active", "gone"}]
  /\ held \in [Sensors -> 0 .. Forever] /\ failed \in [Sensors -> 0 .. Forever]
  /\ cache \in [Sensors -> [answer : Answers, left : 0 .. TTL]]
  /\ mqtt \in Seq(Message) /\ Len(mqtt) <= MaxMessages
  /\ task \in [Ids -> [stage : Stages, answer : Answers, delay : 0 .. MaxDelay]]
  /\ \A i \in Ids : task[i].stage = "absent" <=> i > Len(mqtt)
  /\ kafka \in Seq(1 .. Len(mqtt))
  /\ faults \in 0 .. MaxFaults

(* Whatever lookups race with a registration, a decommissioning, an error or
   each other: what is produced claims its sensor's own area, and the sensor
   is registered, or stopped being so less ago than an entry lives plus what
   an answer and the producer take.                                          *)
AdmittedWhileBound ==
  [][kafka' # kafka =>
       LET m == mqtt[Last(kafka')] IN
       /\ m.area = AreaOf[m.sensor]
       /\ status[m.sensor] # "new"
       /\ status[m.sensor] = "gone" => held[m.sensor] < TTL + 2 * MaxDelay]_vars

(* A message is rejected only for a reason: it claims a wrong area, its sensor
   is not active or has been so for less than an entry lives and an answer
   takes, or a lookup of it failed within that time.                         *)
Cause(m) ==
  LET s == m.sensor IN
  \/ m.area # AreaOf[s] \/ status[s] # "active"
  \/ held[s] < TTL + MaxDelay \/ failed[s] < TTL + MaxDelay
RejectedForCause ==
  [][\A i \in Ids : task[i].stage # "rejected" /\ task'[i].stage = "rejected"
                     => Cause(mqtt[i])]_vars

(* Once errors have stopped, an active sensor that was cached as unknown does
   not stay locked out.                                                      *)
LockoutEnds ==
  \A s \in Sensors :
    status[s] = "active" /\ faults = MaxFaults
      ~> status[s] = "gone" \/ cache[s].left = 0 \/ cache[s].answer # Unknown
=============================================================================
