----------------------------- MODULE Thresholds -----------------------------
(***************************************************************************)
(* Threshold evaluation in the rule engine: evaluate_thresholds and          *)
(* _compute_trend as operators, and the two things they are fed with, the    *)
(* history of each sensor's values and ThresholdCache, which is filled from  *)
(* the geo-service over HTTP while managers go on changing the rules.        *)
(*                                                                         *)
(* Time passes in ticks; a cache entry lives TTL of them.                    *)
(***************************************************************************)
EXTENDS Integers, Sequences, SequencesExt

CONSTANTS
  Sensors, Areas, Params,
  AreaOf,       \* the area in a sensor's readings
  Values,       \* of measurements and bounds
  NoBound,      \* a NULL bound
  Rules,        \* the rules managers set for a parameter
  TTL,          \* threshold_cache_ttl_s, in ticks
  TrendWindow, HistoryMax,  \* _TREND_WINDOW and _HISTORY_MAX
  MaxDelay,     \* bound: ticks from the geo-service's SELECT to the answer
  MaxReadings,  \* bound: readings a process consumes
  MaxChanges,   \* bound: threshold upserts
  MaxFaults     \* bound: failed fetches and restarts

Bounds == Values \cup {NoBound}
Rule   == [warning_lo : Bounds, warning_hi : Bounds,
           critical_lo : Bounds, critical_hi : Bounds]

ASSUME ThresholdAssumption ==
  /\ Values \subseteq Nat /\ NoBound \notin Values
  /\ AreaOf \in [Sensors -> Areas]
  /\ Rules \subseteq Rule
  /\ TTL \in Nat \ {0} /\ MaxDelay \in Nat
  /\ TrendWindow \in Nat \ {0} /\ HistoryMax \in Nat /\ TrendWindow <= HistoryMax
  /\ MaxReadings \in Nat /\ MaxChanges \in Nat /\ MaxFaults \in Nat

VARIABLES
  rules,    \* opdb.threshold: the rule of an area's parameter, if it has one
  cache,    \* _store: thresholds of an area and the ticks left of the entry
  history,  \* _sensor_history
  consumer, \* idle, waiting for the geo-service, or resuming with its answer
  reading,  \* the reading in hand, or the last one
  answer, delay,  \* what the geo-service answered, and how long ago
  alerts,   \* the threshold alerts of the last reading evaluated
  recent,   \* history: what a lookup made in the last ticks can have returned
  consumed, \* history: the values this process has consumed
  changes, faults \* what has been used of the bounds

engine == <<cache, history, consumer, reading, answer, delay, alerts, consumed>>
vars   == <<rules, engine, recent, changes, faults>>

(* The thresholds of an area: a rule for some of the parameters.             *)
NoRules     == [p \in {} |-> NoBound]
Thresholds_ == UNION {[ps -> Rules] : ps \in SUBSET Params}
Reading     == UNION {[sensor : Sensors, values : [ps -> Values]] :
                        ps \in (SUBSET Params) \ {{}}}
Severities  == {"medium", "high"}
Trends      == {"rising", "falling", "stable"}
Alert       == [severity : Severities, threshold : Values, trend : Trends]

Memory    == TTL + MaxDelay   \* ticks for which a change may go unnoticed
Expired   == [thresholds |-> NoRules, left |-> 0]
Stored(t) == [thresholds |-> t, left |-> TTL]

Init ==
  /\ rules = [a \in Areas |-> NoRules]
  /\ cache = [a \in Areas |-> Expired]
  /\ history = [s \in Sensors |-> [p \in Params |-> <<>>]]
  /\ consumer = "idle"
  /\ reading \in Reading
  /\ answer = NoRules /\ delay = 0
  /\ alerts = [p \in {} |-> NoRules]
  /\ recent = [a \in Areas |-> {}]
  /\ consumed = [s \in Sensors |-> [p \in Params |-> <<>>]]
  /\ changes = 0 /\ faults = 0

Fault == faults < MaxFaults /\ faults' = faults + 1

-----------------------------------------------------------------------------
(* threshold_evaluator.                                                      *)

LastN(n, q) == SubSeq(q, IF Len(q) > n THEN Len(q) - n + 1 ELSE 1, Len(q))

(* By how the window's newest value differs from its oldest, by over 1 %.    *)
Direction(oldest, newest) ==
  CASE oldest = 0 -> IF newest = 0 THEN "stable" ELSE "rising"
    [] oldest # 0 /\ 100 * (newest - oldest) > oldest -> "rising"
    [] oldest # 0 /\ 100 * (oldest - newest) > oldest -> "falling"
    [] OTHER -> "stable"

ComputeTrend(past, current) ==
  LET window == LastN(TrendWindow, Append(past, current))
  IN  IF Len(window) < 2 THEN "stable" ELSE Direction(Head(window), Last(window))

Above(v, bound) == bound # NoBound /\ v > bound
Below(v, bound) == bound # NoBound /\ v < bound

Check(severity, bound, crossed) ==
  IF crossed THEN <<[severity |-> severity, threshold |-> bound]>> ELSE <<>>

(* The crossings of a rule in the order of the if and its elifs; the first
   one counts.                                                               *)
WarningFirst(rule, v) ==              \* mutant: warning before critical
  Check("medium", rule.warning_hi, Above(v, rule.warning_hi))
    \o Check("high", rule.critical_hi, Above(v, rule.critical_hi))
    \o Check("medium", rule.warning_lo, Below(v, rule.warning_lo))
    \o Check("high", rule.critical_lo, Below(v, rule.critical_lo))
Crossings(rule, v) ==
  Check("high", rule.critical_hi, Above(v, rule.critical_hi))
    \o Check("medium", rule.warning_hi, Above(v, rule.warning_hi))
    \o Check("high", rule.critical_lo, Below(v, rule.critical_lo))
    \o Check("medium", rule.warning_lo, Below(v, rule.warning_lo))

EvaluateThresholds(values, thresholds, past) ==
  LET hit == {p \in DOMAIN values \cap DOMAIN thresholds :
                Crossings(thresholds[p], values[p]) # <<>>}
      first(p) == Head(Crossings(thresholds[p], values[p]))
  IN  [p \in hit |-> [severity  |-> first(p).severity,
                      threshold |-> first(p).threshold,
                      trend     |-> ComputeTrend(past[p], values[p])]]

-----------------------------------------------------------------------------
(* upsert_area_threshold: one statement; rules are never deleted.            *)
Upsert(a, p, rule) ==
  /\ changes < MaxChanges
  /\ changes' = changes + 1
  /\ rules' = [rules EXCEPT ![a] = [q \in DOMAIN @ \cup {p} |->
                                      IF q = p THEN rule ELSE @[q]]]
  /\ recent' = [recent EXCEPT ![a] = @ \cup {[thresholds |-> rules[a], age |-> 0]}]
  /\ UNCHANGED <<engine, faults>>

-----------------------------------------------------------------------------
(* The consumer's _process, up to the alerts.                                *)

KeepsAll(q) == q                              \* mutant: the history only grows
KeepsOneLess(q) == LastN(HistoryMax - 1, q)   \* mutant: the window ends up short
Kept(q) == LastN(HistoryMax, q)

(* Update each parameter's history and evaluate against what it was before;
   nothing is awaited in between.                                            *)
Evaluate(r, thresholds) ==
  LET s == r.sensor
      longer == [p \in Params |-> IF p \in DOMAIN r.values
                                  THEN Kept(Append(history[s][p], r.values[p]))
                                  ELSE history[s][p]]
  IN  /\ history' = [history EXCEPT ![s] = longer]
      /\ alerts' = EvaluateThresholds(r.values, thresholds,
                     [p \in DOMAIN r.values |-> Front(longer[p])])
      /\ consumed' = [consumed EXCEPT ![s] = [p \in Params |->
                        IF p \in DOMAIN r.values THEN Append(@[p], r.values[p])
                        ELSE @[p]]]

Bounded == \A s \in Sensors, p \in Params : Len(consumed[s][p]) < MaxReadings

NeverStale(entry) == entry # Expired  \* mutant: expires_at is not looked at
Fresh(entry) == entry.left > 0

(* get_thresholds: evaluate at once on a hit; on a miss ask the geo-service. *)
Process(r) ==
  LET a == AreaOf[r.sensor] IN
  /\ consumer = "idle"
  /\ Bounded
  /\ reading' = r
  /\ IF Fresh(cache[a])
     THEN Evaluate(r, cache[a].thresholds) /\ UNCHANGED consumer
     ELSE consumer' = "waiting" /\ UNCHANGED <<history, alerts, consumed>>
  /\ UNCHANGED <<rules, cache, answer, delay, recent, changes, faults>>

Answer ==
  /\ consumer = "waiting"
  /\ consumer' = "resuming"
  /\ answer' = rules[AreaOf[reading.sensor]] /\ delay' = 0
  /\ UNCHANGED <<rules, cache, history, reading, alerts, recent, consumed, changes, faults>>

(* Any HTTP error or timeout is answered by an empty list.                   *)
FetchError ==
  LET a == AreaOf[reading.sensor] IN
  /\ consumer = "waiting"
  /\ Fault
  /\ consumer' = "resuming"
  /\ answer' = NoRules /\ delay' = 0
  /\ recent' = [recent EXCEPT ![a] = @ \cup {[thresholds |-> NoRules, age |-> 0]}]
  /\ UNCHANGED <<rules, cache, history, reading, alerts, consumed, changes>>

(* The answer, empty or not, goes into the cache and into the evaluation.    *)
Resume ==
  /\ consumer = "resuming"
  /\ consumer' = "idle"
  /\ cache' = [cache EXCEPT ![AreaOf[reading.sensor]] = Stored(answer)]
  /\ Evaluate(reading, answer)
  /\ answer' = NoRules /\ delay' = 0
  /\ UNCHANGED <<rules, reading, recent, changes, faults>>

(* Cache and histories are the process's own.                                *)
Restart ==
  /\ Fault
  /\ cache' = [a \in Areas |-> Expired]
  /\ history' = [s \in Sensors |-> [p \in Params |-> <<>>]]
  /\ consumed' = [s \in Sensors |-> [p \in Params |-> <<>>]]
  /\ consumer' = "idle"
  /\ answer' = NoRules /\ delay' = 0
  /\ alerts' = [p \in {} |-> NoRules]
  /\ UNCHANGED <<rules, reading, recent, changes>>

-----------------------------------------------------------------------------
Aged(entry) == [entry EXCEPT !.left = IF @ > 0 THEN @ - 1 ELSE 0]

Tick ==
  /\ delay < MaxDelay
  /\ cache' = [a \in Areas |-> Aged(cache[a])]
  /\ delay' = IF consumer = "resuming" THEN delay + 1 ELSE 0
  /\ recent' = [a \in Areas |->
       {[r EXCEPT !.age = @ + 1] : r \in {q \in recent[a] : q.age < Memory}}]
  /\ <<cache', delay', recent'>> # <<cache, delay, recent>>
  /\ UNCHANGED <<rules, history, consumer, reading, answer, alerts, consumed, changes, faults>>

Next ==
  \/ \E a \in Areas, p \in Params, rule \in Rules : Upsert(a, p, rule)
  \/ \E r \in Reading : Process(r)
  \/ Answer \/ FetchError \/ Resume
  \/ Restart \/ Tick

Spec == Init /\ [][Next]_vars

-----------------------------------------------------------------------------
History == [Sensors -> [Params -> Seq(Values)]]

TypeOK ==
  /\ rules \in [Areas -> Thresholds_]
  /\ cache \in [Areas -> [thresholds : Thresholds_, left : 0 .. TTL]]
  /\ history \in History /\ consumed \in History
  /\ \A s \in Sensors, p \in Params : Len(history[s][p]) <= HistoryMax
  /\ consumer \in {"idle", "waiting", "resuming"}
  /\ reading \in Reading
  /\ answer \in Thresholds_ /\ delay \in 0 .. MaxDelay
  /\ alerts \in UNION {[ps -> Alert] : ps \in SUBSET Params}
  /\ recent \in [Areas -> SUBSET [thresholds : Thresholds_, age : 0 .. Memory]]
  /\ changes \in 0 .. MaxChanges /\ faults \in 0 .. MaxFaults

(* How bad a value is, whatever order the bounds of a rule are tried in, and
   which severities an alert may then have.  Nothing keeps a manager from
   setting a lower bound above an upper one; a value can then be past a warning
   bound and past a critical one of the other side.                          *)
Sane(rule) == \A lo \in {rule.warning_lo, rule.critical_lo} \ {NoBound},
                 hi \in {rule.warning_hi, rule.critical_hi} \ {NoBound} : lo <= hi
Critical(rule, v) == Above(v, rule.critical_hi) \/ Below(v, rule.critical_lo)
Warning(rule, v)  == Above(v, rule.warning_hi) \/ Below(v, rule.warning_lo)
Deserved(rule, v) ==
  {s \in Severities : \/ s = "high" /\ Critical(rule, v)
                      \/ s = "medium" /\ Warning(rule, v) /\ ~(Critical(rule, v) /\ Sane(rule))}

Judges(thresholds, values, raised) ==
  /\ DOMAIN raised = {p \in DOMAIN values \cap DOMAIN thresholds :
                        Deserved(thresholds[p], values[p]) # {}}
  /\ \A p \in DOMAIN raised : raised[p].severity \in Deserved(thresholds[p], values[p])

RecentRules(a) ==
  {rules[a]} \cup {r.thresholds : r \in {q \in recent[a] : q.age < Memory}}
Consumes == \E s \in Sensors, p \in Params : Len(consumed'[s][p]) > Len(consumed[s][p])

(* "Managers may see ~60 s of stale rules", and after a failed fetch none:
   every reading is judged by rules that were in force (or could not be
   fetched) less ago than an entry lives plus what an answer takes.  No
   parameter past a bound of these rules goes without an alert and none within
   them gets one, and its severity is that of the worst bound it is past, if no
   lower bound lies above an upper one.                                      *)
JudgedByRecentRules ==
  [][Consumes => \E t \in RecentRules(AreaOf[reading'.sensor]) :
                   Judges(t, reading'.values, alerts')]_vars

(* The trend an alert is annotated with compares its value with the one
   TrendWindow - 1 readings earlier, or the first this process consumed, of
   the same sensor and parameter, whatever its rules were in between.  (The
   README of the rule engine has a window of five minutes read from Redis.)   *)
TrendOverWindow ==
  consumer = "idle" =>
    \A p \in DOMAIN alerts :
      LET all == consumed[reading.sensor][p]
          from == IF Len(all) >= TrendWindow THEN Len(all) - TrendWindow + 1 ELSE 1
      IN  alerts[p].trend = Direction(all[from], Last(all))
=============================================================================
