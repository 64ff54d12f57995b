# FMMS: TLA+ specifications, model checking and proofs

This directory holds the formal model of the Flood Monitoring and Management
System: TLA+ modules translated from the Python services under `services/`, TLC
configurations that check them on small instances, and TLAPS proofs of theorems
that hold for every instance. `PROJECT.json` is the index: components, runs,
mutants (each property is shown to fail under a plausible bug), the map from each
definition to its source lines, findings, hazards and theorems.

Running it, from this directory:

    tlasany RuleEngine.tla                                   # parse
    tlc -workers 2 -config AlertPath.cfg AlertPathMC.tla     # model-check a run
    tlapm AlertPathProofs.tla                                # check the proofs of a module

## 1. The system

    sensor-simulator --MQTT--> ingestion-gateway --Kafka telemetry (key = area)--+
                                   |                                             |
                        SensorCache (opdb.sensor)                                |
                 +---------------------------------------------------------------+
                 v                                   v
         telemetry-service                      rule-engine
         buffer -> tsdb.telemetry               thresholds (geo-service), counters (Redis)
         sensor:{id}:latest (Redis)             watchdog over sensor:{id}:latest
                                                     |
                                        Kafka alerts.{threshold,malfunction,priority}
                                                     v
                                               alert-service -> opdb.alert
                                                     |  Redis Pub/Sub
                                                     v
                                  dashboard-bff --WebSocket--> frontend (manager)

| Component | State it keeps | Operations | What makes it correct | Modelled by |
|---|---|---|---|---|
| rule-engine, redundancy: consumer task, watchdog task, `RedundancyTracker` | operational counters, fault keys, latest keys (Redis); each task's locals; Kafka offsets | process a reading; scan for silence; fault, recovery | a counter is never higher than the sensors that are up, but for what failed; a fault run is announced at most once, and by the consumer alone with the right severity | `RuleEngine`, `Coverage` |
| rule-engine, thresholds: evaluator, trend, `ThresholdCache`, history | threshold cache, value histories | evaluate a reading, fetch rules | verdicts follow rules of bounded age; the trend spans its window | `Thresholds` |
| ingestion-gateway: `Gateway`, `SensorCache` | cache of sensor bindings, coroutines in flight | one coroutine per message: look up, reject or produce | only bound sensors pass; none is turned away or locked out without a cause | `Gateway` |
| telemetry-service: consumer, `BatchWriter`, `HotStateUpdater`, query API | buffer, flush event, table, hot state, offsets | enqueue, flush, update hot state, answer for a sensor | nothing dropped or reordered between topic and table; the hot state, which the rule engine writes too, is the newest reading one of its two writers has handled, and an answer is behind the table by no more than that | `TelemetryWriter` |
| alert-service: consumer, publisher, acknowledge | `opdb.alert`, offsets | deduplicate, insert, publish, acknowledge | every alert recorded, pushed once, acknowledged once | `AlertPath`, `AlertLedger` |
| dashboard-bff: WebSocket fan-out, `ack_alert` | subscriptions and queues per session | subscribe, forward, disconnect | open sessions are served; nothing shown that is not on record | `AlertPath`, `AlertLedger` |
| geo-service | regions, cities, areas, sensors, thresholds | one SQL statement per request | the caches that read it stay close to it | its writers are actions of `Gateway`, `Thresholds`, `Sessions` |
| dashboard-bff: authentication, REST handlers | scope cache: areas of a user, five minutes | check the token, resolve the areas, answer | the areas a manager is answered for are current to within the cache's age | `Sessions` |
| auth-service | users, refresh tokens | create user, login, refresh, logout | a logout ends the refreshing and every session's answers end by age, however its requests interleave; open sockets are not covered | `Sessions` |
| sensor-simulator: `Simulator`, `Sensor` | fault cycles, last publication | start, stop, one cycle: draw a fault, suppress or publish | a fault is always transmitted | `Silence` |
| silence detection: both writers of `sensor:{id}:latest`, watchdog | latest key with its age and TTL, fault key | store hot state, track, store latest, look, mark | silence and faults are noticed, and nothing else is taken for them | `Silence` |
| sensor-simulator: demo scripts | | fixed sequences of publications | (load) | not modelled |
| frontend | live and polled alerts | render | (presentation) | not modelled |
| infrastructure | Kafka, Redis, Postgres, compose | | | external, inside the models |

What is hard in this code: two asyncio tasks that share Redis counters and
interleave at every `await`; caches filled by several coroutines at once; Kafka
auto-commit, which decouples the committed offset from what was processed;
processes that die (or are stopped by an unhandled exception) and are restarted by
compose; Pub/Sub, which keeps nothing for a session that is not there; timeouts
racing the work they gave up on. The list of hazards, each at its line, is in
`PROJECT.json`.

## 2. Modules

**`RuleEngine`** models one rule-engine process. Each Redis command, Kafka fetch
and send of `consumer.py`, `watchdog.py` and `redundancy_tracker.py` is one action,
for each is one `await`: `IncrFault`, `Decr`, `Clamp` for `_handle_fault` and
`decrement` (DECR and the clamping SET are two commands), `GetFault`, `DeleteFault`,
`IncrCount` for `_handle_recovery`, `ScanKey` for one key of `_scan`, and so on. The
locals of a task are `pc`, `job` (the sensor), `todo` (the parameters left), `par` (the
one being clamped) and `pending` (alerts not yet sent). `episode`, `begun`, `sent`
and `races` (resets that met an addition of the other task) are history. The EXPIRE after an INCR only renews the
TTL of the fault key, and its failure ends the task as `Crash` and `ScanError` do, so it is no step of its own. `HotState` is the environment's use of the shared
`sensor:{id}:latest` keys: the telemetry service writes them too, time makes their
readings silent, and their TTL removes them. A key that is absent and one that is 0
behave alike for INCR and DECR, so `count` and `fault` hold 0 for both. Threshold
alerts only occur here as a flag of a reading, since `Thresholds` models them.
Three next-state relations build on each other: the consumer alone, both tasks,
both tasks with failures.

**`Coverage`** is the abstract specification of what the redundancy rules promise:
sets of sensors that are down, and announcements whose severity is decided by how many
sensors still cover the parameter. `RuleEngine!ImplementsCoverage` is the
refinement, with `down` = sensors with a fault key, `owed` = what the consumer's `todo`
still holds, `announced` = redundancy alerts pending or sent, `outages` = the fault runs begun. `Exact` is
`Seeded`: with counters that were initialised an announcement carries the number of sensors left, without them
that number or a smaller one.

**`AlertPath`** models the three alert topics, the alert service's consumer stage by
stage (fetch, insert, publish to the area, publish to the regional channel), the
handlers of the BFF's WebSockets with their queues, and the acknowledging UPDATE with
the BFF's timeout, which any user may reach for any alert, since neither service looks at the alert's area. A
message that is no `Alert` (`Malformed`) is skipped; `MaxSends` bounds each topic. `Restart` is what every end of the process comes to: compose starts it
again at the committed offsets, or at the end where there are none
(`auto_offset_reset` is latest). An insert that raises leaves the loop of `start`, whose
`finally` stops the Kafka consumer, which commits what was fetched.

**`AlertLedger`** is its abstract specification: a record that only grows, what each
session was shown and how often, and the owner of each alert. In
`AlertPath!ImplementsLedger` the record is `table`, what was shown is counted in `seen`, and the
owner is `acked`; fetches, publishes, queues, commits and restarts are stutters.

**`TelemetryWriter`** models the consumer task and the batch writer task over the
shared buffer. `enqueue` has no `await`, so `Consume` is one step; the Redis update
and the INSERT are where the tasks interleave. `Track` is the rule engine, which takes the same topic at its own
pace and ends every reading with a SET of the same key; `TrackerRestart` moves it back or forward, `ExpireHot` is the TTL. A reading is its
offset in the topic, and its `ts` need not ascend, since readings overtake each other in the gateway.
`first` and `base` remember where in topic and table the process began. `Latest` is
what the query API's `get_sensor_latest` answers: the hot state, or the newest row when the key has
expired or holds a `ts` that does not parse.

**`Gateway`** models the `_process` coroutines, one per message, in the stages
scheduled, selecting, resuming, sending and, in the end, rejected or done; coroutines start in the order of arrival
and are suspended by the lookup on a miss and, hit or miss, in `producer.send`, so that any of them may overtake any other. Cache
entries count down in ticks; `held` and `failed` are history. The geo-service's two statements on `opdb.sensor` are
`CreateSensor` and `Decommission`; a sensor's area never changes in this code.

**`Thresholds`** has `evaluate_thresholds` and `_compute_trend` as operators, fed by
the histories and the cache of the process, with the geo-service's upsert at any time.
`recent` is history: every set of rules that was replaced, or could not be fetched,
during the last ticks.

**`Sessions`** models a manager's session over its three services. A session is the
row of its refresh token, whose jti every refresh hands back; `CheckRefresh` and
`IssueAccess` are the two statements of `refresh`, between which a logout fits. The BFF
asks no one about a token, and an access token and a refresh token carry the same claims, so either is `Accepted` until
it expires: `Request` looks at that, then at the scope cache; on a
miss `Resolve` is the SELECT of the areas for the manager's role and `Respond` stores and uses its answer,
which another request of the same manager may overtake. A WebSocket that was opened stays open: `Push` forwards to it
whatever became of its token, `Disconnect` is the browser's. `served` is what a step answers or pushes, if anything. The geo-service's INSERTs are `CreateRegion`,
`CreateCity` and `CreateArea`, with the foreign keys as guards. `exp`, `access` and the cache
entries count down in ticks; `age`, `out` and `visible` are history.

**`Silence`** follows one sensor from its cycle to the verdict of the watchdog. `Cycle` is one
pass of `Sensor.run`: count down or draw a fault, suppress, or publish with whatever outcome
(sent or not, taken for sent or not). Each reading on the topic waits in `telemetry` for `StoreHot` and in
`engine` for `Track` and `StoreLatest`, and the two services, at their own pace, overwrite the one `latest` key,
each with its own TTL. `SkipHot` is a write of the telemetry service that failed; an error of the rule engine's own Redis ends
its process and belongs to `RuleEngine`. `Look` reads and judges the key, `Mark` marks the sensor, with any other step between them.
`Tick` is time: it ages the readings and the TTLs. `quiet`, `heard`, `cause`, `status`, `arrived`,
`missed` and `engineLast` are history. The fault key is reduced to the ticks it has left, for what the tracker does with it
is in `RuleEngine`; restarts of the services are in their own modules.

The `...MC` modules give the constants of each model small values; the `...Proofs` modules hold the
theorems of section 5 (`RuleEngineProofs` and `RuleEngineAlertsProofs` those of the rule engine).

## 3. Runs

| Run | Result | Question |
|---|---|---|
| `re_consumer` | pass | Does the consumer's counter arithmetic implement `Coverage`, announce each fault (`FaultAnnounced`) and converge to what accumulating the topic gives (`EventuallyAccurate`)? Two sensors, one measuring p1 and the other p1 and p2, four readings, invalid statuses included. |
| `re_failures` | pass | With both tasks, a crash, and an expiry, a failed send or an aborted scan, on counters nobody initialised, as deployed: `OneAlertPerEpisode`, `DriftBounded`. One sensor, which both tasks are at. |
| `re_silence` | violation | `FaultAnnounced` with the watchdog: alerts of silent sensors are discarded. |
| `re_unseeded` | violation | `EscalationMeansTotalLoss` when no counter was initialised: the first failure of two sensors is escalated. |
| `alert_path` | pass | `SeenIsRecorded`, `PushedOnce`, `OneAcknowledger`, `LiveDelivery` with resends, restarts, failed inserts and publishes, lost sessions and two managers, one of them of another area; and every step implements `AlertLedger` (`ImplementsLedger`). |
| `alert_path_loss` | violation | `EveryAlertRecorded`: the trace is a send, a fetch and an insert that fails, whose offset is committed on the way out. |
| `telemetry` | pass | `WrittenInOrder`, `NothingDropped`, `HotStateFresh`, `AnswerUpToDate`, `PersistedUnlessDisturbed` with unparsable dates, readings out of the order of `ts`, failed INSERTs and Redis writes, crashes and shutdowns, and the rule engine writing the hot state at its own pace. |
| `telemetry_loss` | violation | `FailedBatchRetried`: nothing retries. |
| `gateway` | pass | `AdmittedWhileBound`, `RejectedForCause`, `LockoutEnds` with three concurrent coroutines, a false claim, registration and decommissioning, failed lookups and sends, restarts. |
| `thresholds` | pass | `JudgedByRecentRules`, `TrendOverWindow` while rules change, one with its bounds the wrong way round among them, and a fetch fails. |
| `sessions` | pass | `NotExtendedAfterLogout`, `AnswersEnd`, `ScopeCurrent` with a manager of any of the three levels, two requests or sockets at once, access and refresh tokens as bearers, regions, cities and areas created meanwhile inside and outside the jurisdiction, delayed answers and restarts. |
| `silence` | pass | `FaultSeen`, `MarkedForCause`, `SilenceNoticed`, `LatestNotStale`: is what fails or falls silent marked, and nothing else, whichever service wrote the key last, whichever write failed and whatever the edge filter keeps back? |

Each pass run also checks its module's `TypeOK` (`re_failures` for `RuleEngine`), since
the proofs start from it.

**Bounds.** Every bound is a constant named `Max...`, read in the guard of what it
limits. They are as small as lets the interesting case happen: two sensors on one parameter
make partial and total loss differ (`re_consumer`); three readings and two scans of one sensor let a task be
preempted between any two commands of the tracker by the other, in a fault, the recovery from it and the next fault, with one crash and one loss
among them (`re_failures`); one fault in
`AlertPath` is followed by a redelivery of an alert already stored, since an ordinary alert may be sent twice,
the priority topic takes one message, and an invalid one shares a topic with valid ones;
three readings of one sensor with batches of two let one arrive during an INSERT, and two values of `ts` put them in either order;
two faults let the process restart after an INSERT has failed; three messages of one sensor let a
cache hit follow two lookups and overtake, or be overtaken by, either. TTLs are two ticks, so that an entry can be hit, age and
expire, against delays of at most one; in `sessions` a refresh token lasts two ticks after the one it is issued in, an access token only that tick and a cache entry one more, which lets
a session refresh more than once and outlive its access token, and the history counters stop one past the bound they are compared with.
Two requests of one session race for the cache entry as two sessions of one manager would. `silence` keeps the deployed
ratios: an emission interval of 60 s is a tick, the hot state lives two, the timeout is three, so that the rule
engine's TTL is six; the fault key lives seven instead of sixty, still longer than any of them; a reading
waits at most a tick for a consumer and three may wait, so that the writers can overtake each other. `TrendWindow` and `HistoryMax` are 3 instead of 5, with four readings, so that
the window slides. Parameters of a reading share nothing but the cache entry, so
`thresholds` uses one. `CHECK_DEADLOCK FALSE` is set throughout: with the bounded inputs
used up a system that waits for more is not deadlocked.

**Fairness.** `RuleEngine!SpecConsumer` assumes only that the consumer task, when it has
something to do, eventually does it; so do `ConsumerStep` and `WriterStep` of
`TelemetryWriter` (the writer's wait has a timeout, so it always wakes), `Consume` and
`Forward` of `AlertPath`, and in `Gateway` `Start` and each coroutine's lookup, resumption and send. `asyncio` runs every ready
task, and the awaited services answer or raise. `Gateway` also assumes that
time passes. No fairness is assumed of inputs, failures, commits or managers.
The liveness properties speak of behaviours whose failures have stopped, or list the failure
as an alternative outcome.

## 4. Where code and documents differ

The violation runs show four of them; each quotes the text in `PROJECT.json`.

* The redundancy rule of the rule engine's README includes silence, but `_scan` ignores the alerts `on_sensor_reading` returns (`re_silence`).
* `init_area_sensor_count` has no caller, so the first failure in an area is escalated as total loss (`re_unseeded`). That is the deployed system;
  `re_failures` too leaves the counters unseeded, and the theorems hold either way, saying what each gives. `re_consumer` seeds them, so that announcements carry exact numbers, and `re_silence`, where it does not matter.
* The alert service is "the audit-of-record for every alert", but loses one whose insert fails (`alert_path_loss`).
* The telemetry service's README promises retry and rewind after a failed batch; the writer task ends (`telemetry_loss`).

Seen while modelling, with no run of their own:

*Rule engine.*

* `decrement` says "Atomically decrement ... clamped to 0" (`redundancy_tracker.py:79`) but awaits two commands: when one
  task's DECR went below 0 and an INCR or DECR of the other comes before the SET 0, that step is lost, and the counter may stay too high (`races` in `DriftBounded`).
* The trend is said to span five minutes of data read from Redis (`rule-engine/README.md:57-58`); the code compares the last five readings this process has
  consumed, however far apart (`threshold_evaluator.py:14`, `consumer.py:25`). `TrendOverWindow` is about the code's window.
* The README sends critical crossings to `alerts.priority`, the code every threshold alert to `alerts.threshold`; `threshold_cache.py:86` says "this
  cycle" of an empty answer that is cached for the whole TTL.
* Nothing keeps a manager from setting a lower bound above an upper one (`AreaThresholdUpsert`, geo-service `models.py:92-96`); a value past
  a warning and a critical bound of such a rule may be judged "medium". `JudgedByRecentRules` asks for the worst severity of the other rules only.

*Gateway.*

* Partitioning by area is said to prevent out-of-order events (`rule-engine/README.md:116`), but the coroutines are suspended in the lookup of a
  miss and, hit or miss, in `producer.send` (`gateway.py:173`), and nothing keeps them in order. `TelemetryWriter` therefore lets `ts` come in any order.
* `sensor_cache.py:71` says database errors are not cached, but `get_area_id` stores the None it gets for the whole TTL
  (`LockoutEnds` shows that this ends, `RejectedForCause` for how long it turns messages away).

*Telemetry and silence.*

* The telemetry service's README says no other service writes `sensor:{id}:latest`; the rule engine does (`consumer.py:118-123`), and one that lags puts
  an older reading back. `HotStateFresh`, `AnswerUpToDate` and `LatestNotStale` say how far that goes.
* Who wrote last decides the TTL: after the telemetry service the key is gone after
  120 s, before it counts as silent at 180 s, and the outage is never noticed; after the rule engine it lives 360 s and is
  (the premise `engineLast` of `SilenceNoticed`). An hour after the last scan that saw it the mark of a silent sensor expires, and nothing
  marks it again.
* A failed hot-state write is logged and skipped (telemetry `consumer.py:87-90`), so an older reading that was put back stays until the next one (`missed` in `LatestNotStale`).
* The telemetry service's README wants retried batches idempotent; the table has no unique key.
* `sensor.py:32` says a fault lasts 3 to 10 cycles, it lasts 4 to 11, since the cycle that draws it is faulty too; the edge
  filter suppresses the first healthy reading after a fault while the values are close to the last faulty one.

*Alerts.*

* The alert service's README has a consumer group of its own for the priority topic, the code one group for all three topics
  (`consumer.py:40-43`); it has a duplicate dropped within 24 hours, the code never inserts an id twice; it has the acknowledgement and an `audit_log` entry in one
  transaction, the code has the UPDATE (`db.py:165-177`) and no `audit_log`; it names a channel `area:{id}:updates` and a summary in Redis, the
  code publishes to `alerts:area:{id}` and keeps no summary.
* An acknowledgement is not checked against the manager's areas, by the BFF (`api.py:148-164`) or the alert service (`api.py:70-83`); `Manage` lets any user take any alert.
* ADR 0009 wants missed alerts replayed on reconnect, the BFF replays nothing; it has the
  heartbeat detect half-open connections, but a heartbeat that fails ends only its own task, and the handler stays until its next message.
* `list_areas` passes no sensor to `get_area_summary`, so every live summary is empty; the frontend has no call of refresh or logout, and its
  dashboard opens its WebSocket without the hook that would reconnect it.

*Sessions.*

* The auth service's README calls refresh-token rotation non-negotiable (lines 22-23 and 92-93); `refresh` returns the same token with the same jti
  (`auth_service/api.py:111-159`). What logout is still worth is `NotExtendedAfterLogout`: it ends the refreshing.
* The BFF does not tell a refresh token from an access token (`auth.py:162-168`; the auth service's `security.py:47-77` gives both the same claims), so it
  answers with either, for the 24 h of the former. ADR 0007 has a revocation take effect within 60 minutes and a denylist of jtis for urgent revocations; there is none.
* ADR 0007 and the README expand the scope when a token is issued, and the ADR rejects a lookup per request; the code puts the
  jurisdiction into the token and the BFF expands it, through a cache of five minutes. `ScopeCurrent` bounds what that costs.
* ADR 0007 has the token validated on every request; a WebSocket is checked when it connects and never again, its channels are those
  of the areas there were then, and a regional manager's carries the high alerts of every area (`api.py:182-184`).

## 5. Proofs

Every invariant and every action property the passing runs check is also a theorem, for all values of the
constants that satisfy the module's assumption; so are both refinements, the one of `Coverage` without its fairness.
The assumptions ask for what the deployment gives, and every run satisfies them:

| Module | Assumption beyond the types of the constants | Because |
|---|---|---|
| `RuleEngine` | finitely many sensors, at least one; every sensor has an area and measures something | a reading belongs to an area and carries values |
| `AlertPath` | finitely many alerts; `Nobody` is no user | `acknowledged_by` is NULL until somebody acknowledges |
| `Gateway` | a positive TTL; `Unknown` is no area; every sensor has an area | `sensor_cache_ttl_s`; the cache stores None for an unbound sensor; `sensor.area_id` |
| `Thresholds` | `1 <= TrendWindow <= HistoryMax`; a positive TTL; a NULL bound is no value; of the rules nothing | both windows are 5; `threshold_cache_ttl_s` |
| `Sessions` | regions, cities and areas are different things; a jurisdiction names places of the role's level | their ids are UUIDs of three tables; `jurisdiction_ids` of a role |
| `Silence` | the timeout is at least twice the lag of a consumer (`2 * MaxLag <= Timeout`) and, like the mark's TTL, longer than a tick | 180 s against consumers that are seconds behind and a tick of 60 s; a TTL of an hour |
| `TelemetryWriter` | batches of at least one reading | `BATCH_MAX_SIZE` |

Each module proves `TypeCorrect` (`Spec => []TypeOK`) first, with a lemma per group of actions. None of the other
properties is inductive; each theorem rests on the invariant named here, proved to hold initially and to survive
every action in a lemma of its own.

**Rule engine.**

* `DriftIsBounded` (`DriftBounded`), for counters seeded or not. A counter exceeds the number of its sensors not marked faulty, plus
  what the two tasks still owe it, by at most `losses + 2 * crashes + races`, so that undisturbed a total loss is never taken for a partial one; and it is
  negative only while a task is about to reset it, or by what was dropped. The invariant is `TypeOK`, `JobInv` (what
  the tracker has still to do is about parameters the sensor in hand measures) and, for every counter,
  `Bounded(k)` and `Floored(k)`. `Bounded(k)` leaves a unit less room when the fault key expired
  between the consumer's GET and its DELETE (`Stale`): the recovery it is about to count
  was already paid for by the expiry. `Marking` and `Clearing` say by how much the number of
  sensors that are up changes when a fault key is set or removed. A reset that meets an addition of the other task may leave a counter one too high for good (`races`). There is no bound on how far
  one is too low: a counter that was never initialised starts there.
* `OneAlertPerEpisodeAlways` (`OneAlertPerEpisode`), from `Ledger`. A mark is a sensor, a parameter and a fault run.
  The marks sent, those in each task's hand and those each task still owes never coincide, and none is of a run that has not begun: the run is numbered by the
  INCR that returned 1, and only one task gets that answer.
* `FaultAnnouncedAlways` (`SpecConsumer => []FaultAnnounced`), from `Accounted`: every run of a sensor with a
  fault key is sent, in hand or owed. It is a theorem of the consumer alone; with the watchdog it is false (`re_silence`), and after a failed send.
* `ImplementsCoverageRules` (`SpecConsumer => Promise!Rules`), for counters seeded or not: the steps of the consumer, the reset of a negative counter included, are steps of
  `Coverage` or stutters. With the consumer alone nothing disturbs the counters (`Undisturbed`), so that by `DriftInv` the number DECR returns is at most that of the sensors that cover
  the parameter; for seeded ones `Exactly` makes it that number, and the reset is never reached.

**Alert path.**

* `PushedOnceAlways` and `SeenIsAlwaysRecorded`, from `Carried`: an alert has been delivered to a session (shown or queued) at most once on each channel that
  carries it, less the channels still due. `Due` is what closes the induction: a channel becomes due when the row is inserted
  (before, all are), and a publish, failed or not, ends it; a redelivered alert makes nothing due, since its row is there.
* `OneAcknowledgerAlways`: whoever is thanked is the owner, because the UPDATE asks for an alert that has none.
* `ImplementsItsLedger` (`Spec => ImplementsLedger`): an insert is `Record`, forwarding is `Show`, the UPDATE is `Acknowledge`,
  all else stutters. That `Show` stays within its channels is `PushedOnce`; that it shows what is recorded is `SeenIsRecorded`.

**Telemetry service.**

* `WrittenInOrderAlways` and `NothingDroppedAlways`, from `Line`: one line runs from consumed over buffer and INSERT to the rows,
  so the two are one induction, together with "a batch that could not be parsed has ended the writer" (`Alive`).
* `HotStateFreshAlways` and `AnswerUpToDateAlways`, from `HotLine`: until something fails the hot state of a sensor holds the newest of its readings that the consumer has handled
  (the one in hand apart) or the newest that the rule engine has (`StoreNewest`). Whichever it is, a row it is behind is one the other has yet to handle.

**Gateway.**

* `AdmittedWhileBoundAlways` and `RejectedForCauseAlways`, action properties, from `Bound`. An answer is `Known` for some ticks: it is the sensor's own area and was right
  at most so long ago, or it is `Unknown` and the sensor changed, or a lookup failed, at most so long ago. That holds of an answer on its way for its delay (`ResumeBound`), of
  an entry with `left` ticks to live for `TTL + MaxDelay - left` (`CacheBound`), and of a message in the producer for its own wait more (`SendBound`), which gives
  `TTL + 2 * MaxDelay` for what is produced and `TTL + MaxDelay` for what is rejected.

**Thresholds.**

* `TrendOverWindowAlways`, from `Trended`: every history is the end of what was consumed of its sensor and parameter (`HistoryIsTail`), so that the trend,
  computed on the history, is that of the window.
* `JudgedByRecentRulesAlways`, an action property, from `Known`: a cache entry with `left` ticks to live holds rules that were
  in force, or could not be fetched, at most `TTL + MaxDelay - left` ticks ago, a pending answer at most its delay ago. That
  the first crossing `evaluate_thresholds` finds is one the value deserves, and that there is one if it deserves any, is `FirstIsDeserved`; nothing is assumed of the rule.

**Sessions.**

* `NotExtendedAfterLogoutAlways` and `AnswersEndAlways`, from `Bounded`. Two clocks run on a session, since its login and since its logout; at every hand-over
  (refresh token, refresh on its way, access token, request on its way, answer) the clock plus the time left is bounded, or the session is no older than its refresh
  token, which is a bearer too, lasts (`InTime`). Both are about answers and the opening of sockets; a socket that is open has no such bound, and `Push` is outside them.
* `ScopeIsCurrent`, from `ScopesKnown`: the areas a cache entry, a lookup or an answer holds lie within the jurisdiction and miss only those that have existed for less
  time than their age, whichever of several lookups stores its answer last; those of an open socket lie within it, but for the high alerts of a regional manager.

**Silence detection.**

* `LatestNotStaleAlways`, from `Queues`. `Streams`: both queues end with the newest reading, oldest first, and since the rule engine skips none, whatever the telemetry service
  holds or has stored that is newer than the engine's oldest is in the engine's hands too (`Engine`). `Key`: the key is at most a lag behind what was stored (`Lag`); written by the engine it is the newest
  stored or a newer one is still to come (`EngineKey`); written by the telemetry service it expires in time (`Short`), and is the newest once that service has caught up, unless its last write failed (`Fresh`).
* `MarkedForCauseAlways`, from `Queues` and `LookedAtSilence`: what the watchdog takes for silence is silence. A key of the engine's that looks
  silent only because an older reading was put back is overwritten before that reading is past the timeout: this is where `2 * MaxLag <= Timeout` is needed (`OldKeyMeansSilence`). A key
  of the telemetry service's may stay, where the next write failed; as deployed it expires first, and where `HotTTL + MaxLag` exceeds the timeout the verdict comes early by the lag (`Early`).
* `FaultSeenAlways`, from `Faults`: during a fault the newest reading is faulty wherever it is, on its way or tracked, and its mark is as old as the reading.
* `SilenceNoticedAlways`, from `Silences`: the rule engine's TTL outlasts the timeout, so every scan after it sees the key and renews the mark, and
  once the key is gone the mark has at least its own TTL left, less a tick.

**Only model-checked.** The liveness properties `EventuallyAccurate`, `LiveDelivery`, `PersistedUnlessDisturbed`,
`LockoutEnds` and the fairness conjunct of `ImplementsCoverage` (every announcement owed is made) need ENABLED and
fairness, which TLAPS does not reach. `EventuallyAccurate` is also the only property that relates the counters to the topic as a whole. The four properties of
the violation runs are false of the code; what TLC finds there is a behaviour, not a proof.

## 6. Not modelled

The demo scripts of the simulator (three fixed sequences of publications, all among the inputs of the models), the frontend's
rendering and polling, what the other read-only endpoints select, the wording of logs, metrics, health
endpoints, configuration and infrastructure files. The
shutdown of the rule engine and the alert service is a crash to the models: their stop event is set by the
signal handler and read by nobody.

## 7. Plan

1. Done: `RuleEngine` with `Coverage`, `AlertPath` with `AlertLedger`, `TelemetryWriter`, `Gateway`, `Thresholds`, `Sessions`, `Silence`, and
   the proofs of section 5.
2. Open in the models: the frontend's merge of live and polled alerts; restarts of the two services in `Silence`; what an
   open socket misses, the areas created after it connected and the alerts of the time it was not there.
3. Open in the proofs: that a counter of the consumer alone is what accumulating the topic
   gives whenever the consumer is idle, the safety part of `EventuallyAccurate`.
