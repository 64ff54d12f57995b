-------------------------- MODULE TelemetryWriter --------------------------
(***************************************************************************)
(* The telemetry service: a Kafka consumer task that buffers each reading    *)
(* and refreshes the sensor's hot state in Redis, and a batch writer task    *)
(* that moves the buffer to tsdb.telemetry.  The two share the buffer and    *)
(* an event; they interleave at the awaits of Redis and of the INSERT.       *)
(* The rule engine reads the same topic at its own pace and writes the same  *)
(* hot state.  A reading is identified by its offset in the topic.           *)
(***************************************************************************)
EXTENDS Integers, Sequences, SequencesExt

CONSTANTS
  Sensors,
  BatchMaxSize,
  MaxReadings,  \* bound: readings in the topic
  MaxStamp,     \* bound: the values of ts that are dates
  MaxFaults     \* bound: failed INSERTs, failed Redis writes, restarts

ASSUME WriterAssumption ==
  /\ BatchMaxSize \in Nat \ {0}
  /\ MaxReadings \in Nat /\ MaxStamp \in Nat /\ MaxFaults \in Nat

(* A payload validates with a usable ts, with one _parse_dt rejects (ts is any
   string to the models), or not at all.  The gateway's coroutines overtake
   each other, so the topic need not be in the order of ts.                  *)
Reading == [sensor : Sensors, payload : {"good"}, ts : 1 .. MaxStamp]
      \cup [sensor : Sensors, payload : {"undated", "invalid"}, ts : {0}]

VARIABLES
  topic,      \* the telemetry topic, one partition
  position, committed,
  reading,    \* the consumer: offset whose hot state it has to write, or NoReading
  buffer,     \* BatchWriter._buffer, offsets
  flushEvent, \* BatchWriter._flush_event
  writer,     \* the run() task: waiting, inserting a batch, or ended by an exception
  batch,      \* the batch in the INSERT
  rows,       \* tsdb.telemetry, in the order of insertion
  hot,        \* sensor:{id}:latest: the offset of the reading it holds, or NoReading
  tracked,    \* the rule engine's offset: the readings it has written to hot
  first, base,   \* history: where in the topic and in rows this process began
  dropped,    \* history: whether this process failed to parse a batch
  faults      \* what has been used of the bound

kafka   == <<topic, position, committed>>
process == <<reading, buffer, flushEvent, writer, batch>>
life    == <<first, base, dropped>>
vars    == <<kafka, process, rows, hot, tracked, life, faults>>

NoReading == 0
NoOffset  == -1

Init ==
  /\ topic = <<>>
  /\ position = 0 /\ committed = NoOffset
  /\ reading = NoReading
  /\ buffer = <<>> /\ flushEvent = FALSE
  /\ writer = "waiting" /\ batch = <<>>
  /\ rows = <<>>
  /\ hot = [s \in Sensors |-> NoReading]
  /\ tracked = 0
  /\ first = 0 /\ base = 0 /\ dropped = FALSE
  /\ faults = 0

Fault == faults < MaxFaults /\ faults' = faults + 1

Publish(r) ==
  /\ Len(topic) < MaxReadings
  /\ topic' = Append(topic, r)
  /\ UNCHANGED <<position, committed, process, rows, hot, tracked, life, faults>>

-----------------------------------------------------------------------------
(* TelemetryConsumer: start's loop and _handle.                              *)

(* enqueue has no await: parsing, buffering and the event are one step.      *)
Consume ==
  LET i == position + 1 IN
  /\ reading = NoReading
  /\ position < Len(topic)
  /\ position' = i
  /\ IF topic[i].payload = "invalid"
     THEN UNCHANGED <<reading, buffer, flushEvent>>
     ELSE /\ buffer' = Append(buffer, i)
          /\ flushEvent' = (flushEvent \/ Len(buffer') >= BatchMaxSize)
          /\ reading' = i
  /\ UNCHANGED <<topic, committed, writer, batch, rows, hot, tracked, life, faults>>

KeepFirst(old, new) == IF old = NoReading THEN new ELSE old   \* mutant: SET ... NX
NewHot(old, new) == new

UpdateHotState ==
  /\ reading # NoReading
  /\ hot' = [hot EXCEPT ![topic[reading].sensor] = NewHot(@, reading)]
  /\ reading' = NoReading
  /\ UNCHANGED <<kafka, buffer, flushEvent, writer, batch, rows, tracked, life, faults>>

(* Redis failed, before or after the SET: logged, and the loop goes on.      *)
HotStateError ==
  /\ reading # NoReading
  /\ Fault
  /\ hot' \in {hot, [hot EXCEPT ![topic[reading].sensor] = reading]}
  /\ reading' = NoReading
  /\ UNCHANGED <<kafka, buffer, flushEvent, writer, batch, rows, tracked, life>>

(* The rule engine's _process ends with a SET of the same key.               *)
Track ==
  LET i == tracked + 1 IN
  /\ tracked < Len(topic)
  /\ tracked' = i
  /\ hot' = IF topic[i].payload = "invalid" THEN hot
            ELSE [hot EXCEPT ![topic[i].sensor] = i]
  /\ UNCHANGED <<kafka, process, rows, life, faults>>

(* It starts again at its committed offset or at the end of the topic.       *)
TrackerRestart ==
  /\ Fault
  /\ tracked' \in 0 .. Len(topic)
  /\ UNCHANGED <<kafka, process, rows, hot, life>>

(* The key's TTL ran out.                                                    *)
ExpireHot(s) ==
  /\ hot[s] # NoReading
  /\ hot' = [hot EXCEPT ![s] = NoReading]
  /\ UNCHANGED <<kafka, process, rows, tracked, life, faults>>

-----------------------------------------------------------------------------
(* BatchWriter: run's loop and _flush.                                       *)

FullOnly == flushEvent                \* mutant: no timeout on the wait
Woken == TRUE     \* the event is set, or the interval has elapsed

NotCleared(taken) == taken            \* mutant: the buffer keeps what was taken
Remaining(taken) == <<>>

Undated(q) == \E i \in 1 .. Len(q) : topic[q[i]].payload = "undated"

(* Clear the event and swap the buffer out; a ts that does not parse raises
   before the try, which ends the task with the batch in hand.               *)
TakeBatch ==
  /\ writer = "waiting"
  /\ Woken
  /\ flushEvent' = FALSE
  /\ buffer' = Remaining(buffer)
  /\ IF Undated(buffer)
     THEN writer' = "ended" /\ dropped' = TRUE /\ UNCHANGED batch
     ELSE /\ batch' = buffer
          /\ writer' = IF buffer = <<>> THEN "waiting" ELSE "inserting"
          /\ UNCHANGED dropped
  /\ UNCHANGED <<kafka, reading, rows, hot, tracked, first, base, faults>>

InsertBatch ==
  /\ writer = "inserting"
  /\ rows' = rows \o batch
  /\ batch' = <<>>
  /\ writer' = "waiting"
  /\ UNCHANGED <<kafka, reading, buffer, flushEvent, hot, tracked, life, faults>>

Appended(failed, newer) == newer \o failed    \* mutant: appended, not prepended
Rebuffer(failed, newer) == failed \o newer

(* A failed INSERT, which the database may have committed all the same, puts
   the batch back and raises: run() ends, and nothing starts it again.       *)
InsertError ==
  /\ writer = "inserting"
  /\ Fault
  /\ rows' \in {rows, rows \o batch}
  /\ buffer' = Rebuffer(batch, buffer)
  /\ batch' = <<>>
  /\ writer' = "ended"
  /\ UNCHANGED <<kafka, reading, flushEvent, hot, tracked, life>>

-----------------------------------------------------------------------------
AutoCommit ==
  /\ committed # position
  /\ committed' = position
  /\ UNCHANGED <<topic, position, process, rows, hot, tracked, life, faults>>

SkipOne(offset, end) ==               \* mutant: the committed record taken as read
  IF offset = NoOffset THEN end ELSE offset + 1
Resumed(offset, end) == IF offset = NoOffset THEN end ELSE offset

(* The process starts again at offset o, with an empty buffer; a group without
   a committed offset starts at the end of the topic (auto_offset_reset).    *)
ResumeAt(o) ==
  /\ position' = o
  /\ reading' = NoReading
  /\ buffer' = <<>> /\ flushEvent' = FALSE
  /\ writer' = "waiting" /\ batch' = <<>>
  /\ first' = o /\ base' = Len(rows') /\ dropped' = FALSE
  /\ UNCHANGED <<topic, hot, tracked>>

Crash ==
  /\ Fault
  /\ rows' \in {rows, rows \o batch}
  /\ ResumeAt(Resumed(committed, Len(topic)))
  /\ UNCHANGED committed

(* The lifespan's finally cancels both tasks without a last flush; stopping
   the Kafka consumer commits what was consumed.                             *)
Shutdown ==
  /\ Fault
  /\ rows' \in {rows, rows \o batch}
  /\ committed' = position
  /\ ResumeAt(position)

-----------------------------------------------------------------------------
(* The query API: get_sensor_latest answers with the hot state or, when the
   key is absent or its ts does not parse, with a newest row of the sensor.  *)
RowsOf(s) == {i \in ToSet(rows) : topic[i].sensor = s}

OldestRows(s) == {i \in RowsOf(s) : \A j \in RowsOf(s) : topic[i].ts <= topic[j].ts}
                                      \* mutant: ORDER BY ts
NewestRows(s) == {i \in RowsOf(s) : \A j \in RowsOf(s) : topic[j].ts <= topic[i].ts}

Parses(i) == i # NoReading /\ topic[i].payload = "good"
Latest(s) == IF Parses(hot[s]) THEN {hot[s]} ELSE NewestRows(s)

-----------------------------------------------------------------------------
ConsumerStep == Consume \/ UpdateHotState
WriterStep   == TakeBatch \/ InsertBatch

Next ==
  \/ \E r \in Reading : Publish(r)
  \/ ConsumerStep \/ WriterStep
  \/ HotStateError \/ InsertError
  \/ Track \/ TrackerRestart \/ \E s \in Sensors : ExpireHot(s)
  \/ AutoCommit \/ Crash \/ Shutdown

Spec == Init /\ [][Next]_vars /\ WF_vars(ConsumerStep) /\ WF_vars(WriterStep)

-----------------------------------------------------------------------------
Offsets == 1 .. Len(topic)

TypeOK ==
  /\ topic \in Seq(Reading)
  /\ position \in 0 .. Len(topic)
  /\ committed \in {NoOffset} \cup 0 .. Len(topic)
  /\ reading \in {NoReading} \cup Offsets
  /\ buffer \in Seq(Offsets) /\ batch \in Seq(Offsets) /\ rows \in Seq(Offsets)
  /\ flushEvent \in BOOLEAN /\ dropped \in BOOLEAN
  /\ writer \in {"waiting", "inserting", "ended"}
  /\ writer # "inserting" => batch = <<>>
  /\ hot \in [Sensors -> {NoReading} \cup Offsets]
  /\ tracked \in 0 .. Len(topic)
  /\ first \in 0 .. position /\ base \in 0 .. Len(rows)
  /\ faults \in Nat

(* What this process has consumed and written, and what it has consumed and
   not written: the batch in the INSERT, then the buffer.                    *)
Consumed  == {i \in first + 1 .. position : topic[i].payload # "invalid"}
WrittenAt == base + 1 .. Len(rows)
Written   == {rows[k] : k \in WrittenAt}
Unwritten == batch \o buffer
Ascending(q) == \A k, l \in DOMAIN q : k < l => q[k] < q[l]

(* The table never shows a gap: what one process has written is, in order and
   without repetition, the first of the valid readings it has consumed.      *)
WrittenInOrder ==
  /\ \A k, l \in WrittenAt : k < l => rows[k] < rows[l]
  /\ Written \subseteq Consumed
  /\ \A i \in Consumed, j \in Written : i < j => i \in Written

(* The comments in _flush: a failed batch is "not silently dropped" and
   "ordering is preserved if new messages arrived during flush".  Until a
   batch fails to parse, what was consumed and is not in the table is in the
   INSERT or in the buffer, in order, and nothing that is known to be written
   is; a failed INSERT may have been committed all the same.                 *)
NothingDropped ==
  ~dropped =>
    /\ Consumed = Written \cup ToSet(Unwritten)
    /\ Ascending(Unwritten)
    /\ IF writer = "ended"
       THEN \A i \in Consumed, j \in ToSet(Unwritten) : j < i => i \in ToSet(Unwritten)
       ELSE \A i \in Written, j \in ToSet(Unwritten) : i < j

Tracked == {i \in 1 .. tracked : topic[i].payload # "invalid"}
LastOf(s, readings) ==
  LET own == {i \in readings : topic[i].sensor = s}
  IN  IF own = {} THEN NoReading ELSE CHOOSE i \in own : \A j \in own : j <= i

(* Until something fails, and save for the reading in hand, the hot state of a
   sensor is the newest that one of its two writers has handled, or expired. *)
HotStateFresh ==
  reading = NoReading /\ faults = 0 =>
    \A s \in Sensors : hot[s] \in {NoReading, LastOf(s, Consumed), LastOf(s, Tracked)}

(* The README has the API answer with the freshest reading.  Until something
   fails it is behind the table, in both the order of arrival and that of ts,
   only by readings one of the two writers of the hot state has yet to handle:
   the one the consumer has in hand, and those the rule engine lags behind.  *)
AnswerUpToDate ==
  faults = 0 =>
    \A s \in Sensors : \A i \in RowsOf(s), a \in Latest(s) :
      \/ i <= a \/ topic[i].ts <= topic[a].ts
      \/ i = reading \/ i > tracked

InTable(i) == i \in ToSet(rows)
Valid(i)   == i \in Offsets /\ topic[i].payload = "good"

(* Every valid reading reaches the table in the end, unless something failed
   or a batch could not be parsed.                                           *)
PersistedUnlessDisturbed ==
  \A i \in 1 .. MaxReadings : Valid(i) ~> (InTable(i) \/ faults > 0 \/ dropped)

(* The README: "On batch failure: retries with backoff; on persistent failure,
   rewinds the Kafka consumer offset (no data loss ...)": what a failed INSERT
   put back in the buffer gets to the table.                                 *)
FailedBatchRetried ==
  \A i \in 1 .. MaxReadings :
    writer = "ended" /\ ~dropped /\ i \in ToSet(buffer) ~> InTable(i)
=============================================================================
