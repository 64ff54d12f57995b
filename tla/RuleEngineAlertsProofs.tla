---------------------- MODULE RuleEngineAlertsProofs ----------------------
(* Theorems about the redundancy alerts of the rule engine, for any sensors, *)
(* areas, parameters and bounds: a fault run is announced once per parameter,*)
(* and with the consumer alone it is announced, by steps of the abstract     *)
(* coverage rule.                                                            *)
EXTENDS RuleEngineProofs, SequenceTheorems

-----------------------------------------------------------------------------
(* The malfunctions that a sequence of alerts announces.                    *)

Mark(a) == <<a.sensor, a.parameter, a.episode>>
Malfunctions(q) == {i \in 1 .. Len(q) : q[i].kind = "malfunction"}
Marks(q) == {Mark(q[i]) : i \in Malfunctions(q)}

(* None of them is announced twice.                                         *)
Once(q) == \A i, j \in Malfunctions(q) : Mark(q[i]) = Mark(q[j]) => i = j

LEMMA NoMarks ==
  /\ <<>> \in Seq(Alert) /\ Marks(<<>>) = {} /\ Once(<<>>)
<1>1. <<>> \in Seq(Alert) /\ Len(<<>>) = 0
  BY EmptySeq
<1>2. Malfunctions(<<>>) = {}
  BY <1>1 DEF Malfunctions
<1> QED
  BY <1>1, <1>2 DEF Marks, Once

LEMMA MarksOfAppend ==
  ASSUME NEW q \in Seq(Alert), NEW a \in Alert
  PROVE  /\ Append(q, a) \in Seq(Alert)
         /\ Marks(Append(q, a)) =
              Marks(q) \cup (IF a.kind = "malfunction" THEN {Mark(a)} ELSE {})
         /\ Once(q) /\ (a.kind = "malfunction" => Mark(a) \notin Marks(q)) =>
              Once(Append(q, a))
<1> DEFINE r == Append(q, a)
           n == Len(q)
<1>1. /\ n \in Nat /\ r \in Seq(Alert) /\ Len(r) = n + 1 /\ r[n + 1] = a
      /\ \A i \in 1 .. n : r[i] = q[i]
  BY AppendProperties, LenProperties
<1>2. /\ \A i \in 1 .. n + 1 : i \in 1 .. n \/ i = n + 1
      /\ \A i \in 1 .. n : i \in 1 .. n + 1 /\ i # n + 1
      /\ n + 1 \in 1 .. n + 1
  BY <1>1
<1> HIDE DEF r
<1>3. /\ \A i \in Malfunctions(q) : i \in Malfunctions(r) /\ r[i] = q[i] /\ i # n + 1
      /\ a.kind = "malfunction" => n + 1 \in Malfunctions(r)
      /\ \A i \in Malfunctions(r) : \/ i \in Malfunctions(q)
                                    \/ i = n + 1 /\ a.kind = "malfunction"
  BY <1>1, <1>2 DEF Malfunctions
<1>4. Marks(r) = Marks(q) \cup (IF a.kind = "malfunction" THEN {Mark(a)} ELSE {})
  <2>1. ASSUME NEW i \in Malfunctions(r)
        PROVE  Mark(r[i]) \in Marks(q) \cup (IF a.kind = "malfunction" THEN {Mark(a)} ELSE {})
    BY <1>1, <1>3 DEF Marks
  <2>2. \A i \in Malfunctions(q) : Mark(q[i]) \in Marks(r)
    BY <1>3 DEF Marks
  <2>3. a.kind = "malfunction" => Mark(a) \in Marks(r)
    BY <1>1, <1>3 DEF Marks
  <2>4. Marks(q) \subseteq Marks(r)
    BY <2>2 DEF Marks
  <2>5. Marks(r) \subseteq Marks(q) \cup (IF a.kind = "malfunction" THEN {Mark(a)} ELSE {})
    BY <2>1 DEF Marks
  <2> QED
    BY <2>3, <2>4, <2>5
<1>5. ASSUME Once(q), a.kind = "malfunction" => Mark(a) \notin Marks(q)
      PROVE  Once(r)
  <2> SUFFICES ASSUME NEW i \in Malfunctions(r), NEW j \in Malfunctions(r),
                      Mark(r[i]) = Mark(r[j])
               PROVE  i = j
    BY DEF Once
  <2>1. \A k \in Malfunctions(q) : Mark(q[k]) \in Marks(q)
    BY DEF Marks
  <2>2. CASE i \in Malfunctions(q) /\ j \in Malfunctions(q)
    BY <1>3, <1>5, <2>2 DEF Once
  <2>3. CASE i = n + 1 /\ a.kind = "malfunction" /\ j \in Malfunctions(q)
    BY <1>1, <1>3, <1>5, <2>1, <2>3
  <2>4. CASE j = n + 1 /\ a.kind = "malfunction" /\ i \in Malfunctions(q)
    BY <1>1, <1>3, <1>5, <2>1, <2>4
  <2> QED
    BY <1>3, <2>2, <2>3, <2>4
<1> QED
  BY <1>1, <1>4, <1>5 DEF r

(* Taking the head: its mark, if it has one, is not among the rest.         *)
LEMMA MarksOfTail ==
  ASSUME NEW q \in Seq(Alert), q # <<>>
  PROVE  /\ Head(q) \in Alert /\ Tail(q) \in Seq(Alert)
         /\ Marks(q) = Marks(Tail(q)) \cup
              (IF Head(q).kind = "malfunction" THEN {Mark(Head(q))} ELSE {})
         /\ Once(q) => /\ Once(Tail(q))
                       /\ Head(q).kind = "malfunction" => Mark(Head(q)) \notin Marks(Tail(q))
<1> DEFINE r == Tail(q)
           n == Len(q)
           h == Head(q)
<1>1. /\ n \in Nat \ {0} /\ r \in Seq(Alert) /\ Len(r) = n - 1 /\ h = q[1] /\ h \in Alert
      /\ \A i \in 1 .. Len(r) : r[i] = q[i + 1]
  BY HeadTailProperties, EmptySeq, LenProperties
<1>2. /\ \A i \in 1 .. n : i = 1 \/ (i - 1 \in 1 .. n - 1 /\ (i - 1) + 1 = i)
      /\ \A i \in 1 .. n - 1 : i + 1 \in 1 .. n /\ i + 1 # 1
      /\ \A i, j \in 1 .. n - 1 : i + 1 = j + 1 => i = j
      /\ 1 \in 1 .. n
  BY <1>1
<1> HIDE DEF r, h, n
<1>3. /\ \A i \in Malfunctions(r) : i + 1 \in Malfunctions(q) /\ r[i] = q[i + 1] /\ i \in 1 .. n - 1
      /\ h.kind = "malfunction" => 1 \in Malfunctions(q)
      /\ \A i \in Malfunctions(q) : \/ i - 1 \in Malfunctions(r) /\ q[i] = r[i - 1]
                                    \/ i = 1 /\ h.kind = "malfunction"
  <2>1. \A i \in Malfunctions(r) : i + 1 \in Malfunctions(q) /\ r[i] = q[i + 1] /\ i \in 1 .. n - 1
    BY <1>1, <1>2 DEF Malfunctions, n
  <2>2. h.kind = "malfunction" => 1 \in Malfunctions(q)
    BY <1>1, <1>2 DEF Malfunctions, n
  <2>3. ASSUME NEW i \in Malfunctions(q), i # 1
        PROVE  i - 1 \in Malfunctions(r) /\ q[i] = r[i - 1]
    <3>1. i \in 1 .. n /\ q[i].kind = "malfunction"
      BY DEF Malfunctions, n
    <3>2. i - 1 \in 1 .. Len(r) /\ (i - 1) + 1 = i
      BY <1>1, <1>2, <2>3, <3>1
    <3>3. r[i - 1] = q[i]
      BY <1>1, <3>2
    <3> QED
      BY <3>1, <3>2, <3>3 DEF Malfunctions
  <2>4. 1 \in Malfunctions(q) => h.kind = "malfunction"
    BY <1>1 DEF Malfunctions
  <2> QED
    BY <2>1, <2>2, <2>3, <2>4
<1>4. Marks(q) = Marks(r) \cup (IF h.kind = "malfunction" THEN {Mark(h)} ELSE {})
  <2>1. ASSUME NEW i \in Malfunctions(q)
        PROVE  Mark(q[i]) \in Marks(r) \cup (IF h.kind = "malfunction" THEN {Mark(h)} ELSE {})
    BY <1>1, <1>3 DEF Marks
  <2>2. \A i \in Malfunctions(r) : Mark(r[i]) \in Marks(q)
    BY <1>3 DEF Marks
  <2>3. h.kind = "malfunction" => Mark(h) \in Marks(q)
    BY <1>1, <1>3 DEF Marks
  <2>4. Marks(r) \subseteq Marks(q)
    BY <2>2 DEF Marks
  <2>5. Marks(q) \subseteq Marks(r) \cup (IF h.kind = "malfunction" THEN {Mark(h)} ELSE {})
    BY <2>1 DEF Marks
  <2> QED
    BY <2>3, <2>4, <2>5
<1>5. ASSUME Once(q) PROVE Once(r)
  <2> SUFFICES ASSUME NEW i \in Malfunctions(r), NEW j \in Malfunctions(r),
                      Mark(r[i]) = Mark(r[j])
               PROVE  i = j
    BY DEF Once
  <2>1. i + 1 = j + 1
    BY <1>3, <1>5 DEF Once
  <2> QED
    BY <1>2, <1>3, <2>1
<1>6. ASSUME Once(q), h.kind = "malfunction", Mark(h) \in Marks(r) PROVE FALSE
  <2>1. PICK i \in Malfunctions(r) : Mark(h) = Mark(r[i])
    BY <1>6 DEF Marks
  <2>2. i + 1 = 1
    BY <1>1, <1>3, <1>6, <2>1 DEF Once
  <2> QED
    BY <1>2, <1>3, <2>2
<1> QED
  BY <1>1, <1>4, <1>5, <1>6 DEF r, h

LEMMA OnceOfConcat ==
  ASSUME NEW p \in Seq(Alert), NEW q \in Seq(Alert),
         Once(p), Once(q), Marks(p) \cap Marks(q) = {}
  PROVE  /\ p \o q \in Seq(Alert) /\ Once(p \o q)
         /\ Marks(p \o q) \subseteq Marks(p) \cup Marks(q)
<1> DEFINE m == Len(p)
           n == Len(q)
           r == p \o q
<1>1. /\ m \in Nat /\ n \in Nat /\ r \in Seq(Alert) /\ Len(r) = m + n
      /\ \A i \in 1 .. m + n : r[i] = IF i <= m THEN p[i] ELSE q[i - m]
  BY ConcatProperties, LenProperties
<1>2. /\ \A i \in 1 .. m + n : (i \in 1 .. m /\ i <= m) \/ (i - m \in 1 .. n /\ ~(i <= m))
      /\ \A i, j \in 1 .. m + n : i - m = j - m => i = j
  BY <1>1
<1> HIDE DEF m, n, r
<1>3. \A i \in Malfunctions(r) :
        \/ i \in Malfunctions(p) /\ r[i] = p[i]
        \/ i - m \in Malfunctions(q) /\ r[i] = q[i - m]
  <2> SUFFICES ASSUME NEW i \in Malfunctions(r)
               PROVE  \/ i \in Malfunctions(p) /\ r[i] = p[i]
                      \/ i - m \in Malfunctions(q) /\ r[i] = q[i - m]
    OBVIOUS
  <2>1. i \in 1 .. m + n /\ r[i].kind = "malfunction"
    BY <1>1 DEF Malfunctions
  <2>2. CASE i \in 1 .. m /\ i <= m
    BY <1>1, <2>1, <2>2 DEF Malfunctions, m
  <2>3. CASE i - m \in 1 .. n /\ ~(i <= m)
    BY <1>1, <2>1, <2>3 DEF Malfunctions, n
  <2> QED
    BY <1>2, <2>1, <2>2, <2>3
<1>4. \A i \in Malfunctions(r) : i \in 1 .. m + n
  BY <1>1 DEF Malfunctions
<1>5. /\ \A i \in Malfunctions(p) : Mark(p[i]) \in Marks(p)
      /\ \A i \in Malfunctions(q) : Mark(q[i]) \in Marks(q)
  BY DEF Marks
<1>6. \A i \in Malfunctions(r) : Mark(r[i]) \in Marks(p) \cup Marks(q)
  BY <1>3, <1>5
<1>7. Marks(r) \subseteq Marks(p) \cup Marks(q)
  BY <1>6 DEF Marks
<1>8. ASSUME NEW i \in Malfunctions(r), NEW j \in Malfunctions(r), Mark(r[i]) = Mark(r[j])
      PROVE  i = j
  <2>1. CASE /\ i \in Malfunctions(p) /\ r[i] = p[i]
             /\ j \in Malfunctions(p) /\ r[j] = p[j]
    BY <1>8, <2>1 DEF Once
  <2>2. CASE /\ i - m \in Malfunctions(q) /\ r[i] = q[i - m]
             /\ j - m \in Malfunctions(q) /\ r[j] = q[j - m]
    <3>1. i - m = j - m
      BY <1>8, <2>2 DEF Once
    <3> QED
      BY <1>2, <1>4, <3>1
  <2>3. CASE /\ i \in Malfunctions(p) /\ r[i] = p[i]
             /\ j - m \in Malfunctions(q) /\ r[j] = q[j - m]
    <3>1. Mark(r[i]) \in Marks(p) /\ Mark(r[j]) \in Marks(q)
      BY <1>5, <2>3
    <3> QED
      BY <1>8, <3>1
  <2>4. CASE /\ j \in Malfunctions(p) /\ r[j] = p[j]
             /\ i - m \in Malfunctions(q) /\ r[i] = q[i - m]
    <3>1. Mark(r[j]) \in Marks(p) /\ Mark(r[i]) \in Marks(q)
      BY <1>5, <2>4
    <3> QED
      BY <1>8, <3>1
  <2> QED
    BY <1>3, <2>1, <2>2, <2>3, <2>4
<1> QED
  BY <1>1, <1>7, <1>8 DEF Once, r

(* The alerts of one decrement announce one malfunction.                    *)
LEMMA MarksOfFaultAlerts ==
  ASSUME NEW q \in Seq(Alert), NEW s \in Sensors, NEW p \in Parameters,
         NEW n \in Nat, NEW e \in Nat
  PROVE  /\ q \o FaultAlerts(s, p, n, e) \in Seq(Alert)
         /\ Marks(q \o FaultAlerts(s, p, n, e)) = Marks(q) \cup {<<s, p, e>>}
         /\ Once(q) /\ <<s, p, e>> \notin Marks(q) => Once(q \o FaultAlerts(s, p, n, e))
<1> DEFINE high == MakeAlert("malfunction", "high", s, p, 0, e)
           also == MakeAlert("priority", "high", s, p, 0, e)
           low  == MakeAlert("malfunction", "low", s, p, n, e)
           r    == q \o FaultAlerts(s, p, n, e)
<1>1. /\ high \in Alert /\ also \in Alert /\ low \in Alert
      /\ high.kind = "malfunction" /\ low.kind = "malfunction" /\ also.kind = "priority"
      /\ Mark(high) = <<s, p, e>> /\ Mark(low) = <<s, p, e>>
  BY DEF MakeAlert, Alert, Mark
<1>2. FaultAlerts(s, p, n, e) = IF n = 0 THEN <<high, also>> ELSE <<low>>
  BY DEF FaultAlerts
<1> HIDE DEF high, also, low
<1>3. CASE n = 0
  <2> DEFINE q1 == Append(q, high)
  <2>1. /\ q1 \in Seq(Alert) /\ Marks(q1) = Marks(q) \cup {<<s, p, e>>}
        /\ Once(q) /\ <<s, p, e>> \notin Marks(q) => Once(q1)
    BY <1>1, MarksOfAppend
  <2>2. r = Append(q1, also)
    <3>1. <<high, also>> = Append(<<high>>, also) /\ <<high>> \in Seq(Alert)
      BY <1>1
    <3>a. q1 = q \o <<high>> /\ <<also>> \in Seq(Alert)
      BY <1>1, AppendIsConcat
    <3>b. Append(q1, also) = q1 \o <<also>>
      <4> HIDE DEF q1
      <4> QED
        BY <1>1, <2>1, AppendIsConcat
    <3>c. Append(<<high>>, also) = <<high>> \o <<also>>
      BY <1>1, <3>1, AppendIsConcat
    <3>2. q1 = q \o <<high>> /\ Append(q1, also) = q1 \o <<also>>
          /\ Append(<<high>>, also) = <<high>> \o <<also>> /\ <<also>> \in Seq(Alert)
      BY <3>a, <3>b, <3>c
    <3>3. (q \o <<high>>) \o <<also>> = q \o (<<high>> \o <<also>>)
      BY <3>1, <3>2, ConcatAssociative
    <3> QED
      BY <1>2, <1>3, <3>1, <3>2, <3>3
  <2> HIDE DEF q1, r
  <2>3. /\ r \in Seq(Alert) /\ Marks(r) = Marks(q1) /\ (Once(q1) => Once(r))
    BY <1>1, <2>1, <2>2, MarksOfAppend
  <2> QED
    BY <2>1, <2>3 DEF r
<1>4. CASE n # 0
  <2>1. r = Append(q, low)
    BY <1>1, <1>2, <1>4, AppendIsConcat
  <2> HIDE DEF r
  <2>2. /\ r \in Seq(Alert) /\ Marks(r) = Marks(q) \cup {<<s, p, e>>}
        /\ Once(q) /\ <<s, p, e>> \notin Marks(q) => Once(r)
    BY <1>1, <2>1, MarksOfAppend
  <2> QED
    BY <2>2 DEF r
<1> QED
  BY <1>3, <1>4

(* Threshold alerts announce none.                                          *)
LEMMA MarksOfThreshold ==
  ASSUME NEW s \in Sensors, NEW p \in Parameters
  PROVE  /\ Marks(<<MakeAlert("threshold", "high", s, p, 0, 0)>>) = {}
         /\ Once(<<MakeAlert("threshold", "high", s, p, 0, 0)>>)
<1> DEFINE a == MakeAlert("threshold", "high", s, p, 0, 0)
<1>1. a \in Alert /\ a.kind # "malfunction"
  BY DEF MakeAlert, Alert
<1> HIDE DEF a
<1>2. <<a>> = Append(<<>>, a)
  BY <1>1
<1>3. Marks(Append(<<>>, a)) = {} /\ Once(Append(<<>>, a)) /\ Append(<<>>, a) \in Seq(Alert)
  BY <1>1, NoMarks, MarksOfAppend
<1> QED
  BY <1>2, <1>3 DEF a

-----------------------------------------------------------------------------
(* One announcement per fault run.                                          *)

(* The marks task w has still to make in the run it is counting.            *)
Owes(w) ==
  IF pc[w] \in {"decr", "clamp"} THEN {<<job[w], p, begun[w]>> : p \in todo[w]} ELSE {}
Used(w) == Marks(pending[w]) \cup Owes(w)

(* No mark is of a run that has not begun.                                  *)
Numbered(M) ==
  \A m \in M : m[1] \in Sensors /\ m[3] \in Nat /\ m[3] <= episode[m[1]]

(* What is sent, what each task has in hand and what it still owes never
   name the same parameter of the same fault run twice.                      *)
Ledger ==
  /\ Once(sent) /\ Numbered(Marks(sent))
  /\ \A w \in Workers : /\ Once(pending[w])
                        /\ Marks(pending[w]) \cap Owes(w) = {}
                        /\ Used(w) \cap Marks(sent) = {}
                        /\ Numbered(Used(w))
                        /\ pc[w] = "clamp" => par[w] \in todo[w]
  /\ Used("consumer") \cap Used("watchdog") = {}

(* The ledger of the next state, spelled out.                               *)
OwesNext(w) ==
  IF pc'[w] \in {"decr", "clamp"} THEN {<<job'[w], p, begun'[w]>> : p \in todo'[w]} ELSE {}
UsedNext(w) == Marks(pending'[w]) \cup OwesNext(w)
NumberedNext(M) ==
  \A m \in M : m[1] \in Sensors /\ m[3] \in Nat /\ m[3] <= episode'[m[1]]

LEMMA LedgerNext ==
  ASSUME Once(sent'), NumberedNext(Marks(sent')),
         \A w \in Workers : /\ Once(pending'[w])
                            /\ Marks(pending'[w]) \cap OwesNext(w) = {}
                            /\ UsedNext(w) \cap Marks(sent') = {}
                            /\ NumberedNext(UsedNext(w))
                            /\ pc'[w] = "clamp" => par'[w] \in todo'[w],
         UsedNext("consumer") \cap UsedNext("watchdog") = {}
  PROVE  Ledger'
BY DEF Ledger, Used, UsedNext, Owes, OwesNext, Numbered, NumberedNext

(* A step that makes or forgets some of the marks a task owes, and sends
   nothing, keeps the ledger.                                                *)
LEMMA MakingMarks ==
  ASSUME TypeOK, Ledger, UNCHANGED <<sent, episode>>,
         \A w \in Workers : /\ Once(pending'[w])
                            /\ Marks(pending'[w]) \cap OwesNext(w) = {}
                            /\ UsedNext(w) \subseteq Used(w)
                            /\ pc'[w] = "clamp" => par'[w] \in todo'[w]
  PROVE  Ledger'
<1>1. \A w \in Workers : UsedNext(w) \subseteq Used(w)
  OBVIOUS
<1>2. \A M : Numbered(M) => NumberedNext(M)
  BY DEF Numbered, NumberedNext
<1>3. ASSUME NEW w \in Workers
      PROVE  /\ UsedNext(w) \cap Marks(sent') = {}
             /\ NumberedNext(UsedNext(w))
  <2>1. Used(w) \cap Marks(sent) = {} /\ Numbered(Used(w))
    BY DEF Ledger
  <2>2. NumberedNext(UsedNext(w))
    BY <1>1, <2>1 DEF Numbered, NumberedNext
  <2> QED
    BY <1>1, <2>1, <2>2
<1>4. Once(sent') /\ NumberedNext(Marks(sent'))
  BY <1>2 DEF Ledger
<1>5. UsedNext("consumer") \cap UsedNext("watchdog") = {}
  BY <1>1 DEF Ledger, Workers
<1> QED
  BY <1>3, <1>4, <1>5, LedgerNext

(* So does one that only forgets some.                                      *)
LEMMA Forgetting ==
  ASSUME TypeOK, Ledger, UNCHANGED <<sent, episode>>,
         \A w \in Workers : /\ Once(pending'[w])
                            /\ Marks(pending'[w]) \subseteq Marks(pending[w])
                            /\ OwesNext(w) \subseteq Owes(w)
                            /\ pc'[w] = "clamp" => par'[w] \in todo'[w]
  PROVE  Ledger'
<1>1. ASSUME NEW w \in Workers
      PROVE  /\ Marks(pending'[w]) \cap OwesNext(w) = {}
             /\ UsedNext(w) \subseteq Used(w)
  <2>1. Marks(pending[w]) \cap Owes(w) = {}
    BY DEF Ledger
  <2> QED
    BY <2>1 DEF Used, UsedNext
<1> QED
  BY <1>1, MakingMarks

LEMMA InitLedger == Init => Ledger
<1> SUFFICES ASSUME Init PROVE Ledger
  OBVIOUS
<1>1. sent = <<>> /\ \A w \in Workers : pending[w] = <<>> /\ pc[w] = "idle"
  BY DEF Init, Idle
<1>2. \A w \in Workers : Used(w) = {} /\ Owes(w) = {}
  BY <1>1, NoMarks DEF Used, Owes
<1> QED
  BY <1>1, <1>2, NoMarks DEF Ledger, Numbered, Workers

(* The first fault of a run numbers it; its marks are new.                  *)
LEMMA IncrFaultLedger ==
  ASSUME TypeOK, Ledger, NEW w \in Workers, IncrFault(w)
  PROVE  Ledger'
<1> DEFINE s == job[w]
<1>1. /\ s \in Sensors /\ fault[s] \in Nat /\ episode \in [Sensors -> Nat]
      /\ begun \in [Workers -> Nat] /\ pc \in [Workers -> PCs]
      /\ todo \in [Workers -> SUBSET Parameters]
  BY DEF TypeOK, TaskType, RedisType, HistoryType
<1>2. /\ episode' = [episode EXCEPT ![s] = IF fault[s] = 0 THEN @ + 1 ELSE @]
      /\ begun' = [begun EXCEPT ![w] = episode'[s]]
      /\ pc[w] = "fault" /\ UNCHANGED <<sent, pending, job, par>>
  BY DEF IncrFault
<1>3. \A M : Numbered(M) => NumberedNext(M)
  BY <1>1, <1>2 DEF Numbered, NumberedNext
<1>4. Owes(w) = {} /\ Used(w) = Marks(pending[w])
  BY <1>2 DEF Owes, Used
<1>5. ASSUME NEW v \in Workers, v # w
      PROVE  /\ OwesNext(v) = Owes(v) /\ UsedNext(v) = Used(v)
             /\ pc'[v] = pc[v] /\ todo'[v] = todo[v] /\ par'[v] = par[v]
  <2>1. pc'[v] = pc[v] /\ todo'[v] = todo[v] /\ begun'[v] = begun[v]
    BY <1>1, <1>5 DEF IncrFault
  <2> QED
    BY <1>2, <2>1 DEF Owes, OwesNext, Used, UsedNext
<1>6. /\ \A m \in OwesNext(w) : /\ m[1] = s /\ m[3] = episode[s] + 1
                                /\ m[3] = episode'[s] /\ m[3] \in Nat
      /\ pc'[w] # "clamp"
  <2>1. CASE fault[s] = 0
    <3>1. episode'[s] = episode[s] + 1 /\ begun'[w] = episode[s] + 1
      BY <1>1, <1>2, <2>1
    <3>2. pc'[w] = "decr"
      BY <1>1, <2>1 DEF IncrFault, FirstOfRun
    <3>3. OwesNext(w) = {<<s, p, episode[s] + 1>> : p \in todo'[w]}
      BY <1>2, <3>1, <3>2 DEF OwesNext
    <3> QED
      BY <1>1, <3>1, <3>2, <3>3
  <2>2. CASE fault[s] # 0
    <3>1. ~FirstOfRun(fault[s] + 1)
      BY <1>1, <2>2 DEF FirstOfRun
    <3>2. pc'[w] \in {"emit", "scan"}
      BY <1>1, <3>1 DEF IncrFault, AfterTracker
    <3> QED
      BY <3>2 DEF OwesNext
  <2> QED
    BY <2>1, <2>2
<1>7. ASSUME NEW M, Numbered(M) PROVE OwesNext(w) \cap M = {}
  <2> SUFFICES ASSUME NEW m \in OwesNext(w), m \in M PROVE FALSE
    OBVIOUS
  <2>1. m[1] = s /\ m[3] = episode[s] + 1 /\ m[3] <= episode[s]
    BY <1>6, <1>7 DEF Numbered
  <2>2. episode[s] \in Nat
    BY <1>1
  <2> QED
    BY <2>1, <2>2
<1>8. NumberedNext(OwesNext(w))
  BY <1>1, <1>6 DEF NumberedNext
<1>9. /\ Once(sent) /\ Numbered(Marks(sent)) /\ Used("consumer") \cap Used("watchdog") = {}
      /\ \A v \in Workers : /\ Once(pending[v]) /\ Marks(pending[v]) \cap Owes(v) = {}
                            /\ Used(v) \cap Marks(sent) = {} /\ Numbered(Used(v))
                            /\ pc[v] = "clamp" => par[v] \in todo[v]
  BY DEF Ledger
<1>10. UsedNext(w) = Used(w) \cup OwesNext(w)
  BY <1>2, <1>4 DEF UsedNext
<1>11. ASSUME NEW v \in Workers
       PROVE  /\ Once(pending'[v]) /\ Marks(pending'[v]) \cap OwesNext(v) = {}
              /\ UsedNext(v) \cap Marks(sent') = {} /\ NumberedNext(UsedNext(v))
              /\ pc'[v] = "clamp" => par'[v] \in todo'[v]
  <2>1. CASE v = w
    <3>1. /\ OwesNext(w) \cap Used(w) = {} /\ OwesNext(w) \cap Marks(sent) = {}
      BY <1>7, <1>9
    <3>2. NumberedNext(UsedNext(w))
      BY <1>3, <1>8, <1>9, <1>10 DEF NumberedNext
    <3> QED
      BY <1>2, <1>4, <1>6, <1>9, <1>10, <2>1, <3>1, <3>2
  <2>2. CASE v # w
    BY <1>2, <1>3, <1>5, <1>9, <2>2
  <2> QED
    BY <2>1, <2>2
<1>12. UsedNext("consumer") \cap UsedNext("watchdog") = {}
  <2>1. \A v \in Workers : OwesNext(w) \cap Used(v) = {}
    BY <1>7, <1>9
  <2>2. CASE w = "consumer"
    BY <1>5, <1>9, <1>10, <2>1, <2>2 DEF Workers
  <2>3. CASE w = "watchdog"
    BY <1>5, <1>9, <1>10, <2>1, <2>3 DEF Workers
  <2> QED
    BY <2>2, <2>3 DEF Workers
<1>13. Once(sent') /\ NumberedNext(Marks(sent'))
  BY <1>2, <1>3, <1>9
<1> QED
  BY <1>11, <1>12, <1>13, LedgerNext

(* Moving a counter turns a mark owed into one in hand, or drops it.        *)
LEMMA DecrementedLedger ==
  ASSUME TypeOK, Ledger, NEW w \in Workers, NEW p \in Parameters, NEW n \in Nat,
         pc[w] \in {"decr", "clamp"}, p \in todo[w],
         Decremented(w, p, n), UNCHANGED <<job, sent, runs>>,
         \A v \in Workers \ {w} : par'[v] = par[v]
  PROVE  Ledger'
<1> DEFINE mark == <<job[w], p, begun[w]>>
           all == pending[w] \o FaultAlerts(job[w], p, n, begun[w])
<1>1. /\ job[w] \in Sensors /\ begun[w] \in Nat /\ pending[w] \in Seq(Alert)
      /\ pc \in [Workers -> PCs] /\ todo \in [Workers -> SUBSET Parameters]
      /\ pending \in [Workers -> Seq(Alert)] /\ UNCHANGED <<job, sent, episode, begun>>
  BY DEF TypeOK, TaskType, HistoryType, runs
<1>2. /\ Once(pending[w]) /\ Marks(pending[w]) \cap Owes(w) = {}
      /\ Owes(w) = {<<job[w], q, begun[w]>> : q \in todo[w]} /\ mark \in Owes(w)
  BY DEF Ledger, Owes
<1>3. Marks(all) = Marks(pending[w]) \cup {mark} /\ Once(all)
  <2>1. mark \notin Marks(pending[w])
    BY <1>2
  <2>2. job[w] \in Sensors /\ begun[w] \in Nat /\ pending[w] \in Seq(Alert)
    BY <1>1
  <2>3. /\ Marks(all) = Marks(pending[w]) \cup {<<job[w], p, begun[w]>>}
        /\ Once(pending[w]) /\ <<job[w], p, begun[w]>> \notin Marks(pending[w]) => Once(all)
    <3> DEFINE s == job[w]
               e == begun[w]
               q == pending[w]
    <3>1. s \in Sensors /\ e \in Nat /\ q \in Seq(Alert)
      BY <2>2
    <3>2. all = q \o FaultAlerts(s, p, n, e)
      OBVIOUS
    <3> HIDE DEF s, e, q, all
    <3>3. /\ Marks(q \o FaultAlerts(s, p, n, e)) = Marks(q) \cup {<<s, p, e>>}
          /\ Once(q) /\ <<s, p, e>> \notin Marks(q) => Once(q \o FaultAlerts(s, p, n, e))
      BY <3>1, MarksOfFaultAlerts
    <3> QED
      BY <3>2, <3>3 DEF s, e, q
  <2> QED
    BY <1>2, <2>1, <2>3
<1> HIDE DEF all
<1>4. /\ todo' = [todo EXCEPT ![w] = @ \ {p}]
      /\ pending'[w] = all \/ pending'[w] = <<>>
      /\ pc'[w] \in {"emit", "scan", "decr"}
      /\ \A v \in Workers \ {w} : /\ pc'[v] = pc[v] /\ todo'[v] = todo[v]
                                  /\ pending'[v] = pending[v]
  <2>1. pending' = [pending EXCEPT ![w] = IF todo[w] = {p} THEN Returned(w, all) ELSE all]
    BY DEF Decremented, all
  <2>2. pending'[w] = all \/ pending'[w] = <<>>
    BY <1>1, <2>1 DEF Returned
  <2>3. \A v \in Workers \ {w} : pending'[v] = pending[v]
    BY <1>1, <2>1
  <2>4. /\ todo' = [todo EXCEPT ![w] = @ \ {p}]
        /\ pc' = [pc EXCEPT ![w] = IF todo[w] = {p} THEN AfterTracker(w) ELSE "decr"]
    BY DEF Decremented
  <2>5. pc'[w] \in {"emit", "scan", "decr"}
    BY <1>1, <2>4 DEF AfterTracker
  <2> QED
    BY <1>1, <2>2, <2>3, <2>4, <2>5
<1>5. mark \notin OwesNext(w) /\ OwesNext(w) \subseteq Owes(w)
  <2>1. OwesNext(w) \subseteq {<<job[w], q, begun[w]>> : q \in todo[w] \ {p}}
    BY <1>1, <1>4 DEF OwesNext
  <2> QED
    BY <1>2, <2>1
<1>6. Marks(pending'[w]) \subseteq Marks(pending[w]) \cup {mark} /\ Once(pending'[w])
  BY <1>3, <1>4, NoMarks
<1>7. ASSUME NEW v \in Workers
      PROVE  /\ Once(pending'[v]) /\ Marks(pending'[v]) \cap OwesNext(v) = {}
             /\ UsedNext(v) \subseteq Used(v)
             /\ pc'[v] = "clamp" => par'[v] \in todo'[v]
  <2>1. CASE v = w
    BY <1>2, <1>4, <1>5, <1>6, <2>1 DEF Used, UsedNext
  <2>2. CASE v # w
    <3>1. /\ Once(pending[v]) /\ Marks(pending[v]) \cap Owes(v) = {}
          /\ pc[v] = "clamp" => par[v] \in todo[v]
      BY DEF Ledger
    <3>2. OwesNext(v) = Owes(v)
      BY <1>1, <1>4, <2>2 DEF Owes, OwesNext
    <3> QED
      BY <1>4, <2>2, <3>1, <3>2 DEF Used, UsedNext
  <2> QED
    BY <2>1, <2>2
<1> QED
  BY <1>1, <1>7, MakingMarks

LEMMA TrackerLedger ==
  ASSUME TypeOK, Ledger, NEW w \in Workers, Tracker(w)
  PROVE  Ledger'
<1>1. CASE IncrFault(w)
  BY <1>1, IncrFaultLedger
<1>2. ASSUME NEW p \in Parameters, Decr(w, p) PROVE Ledger'
  <2> DEFINE n == count[KeyOf(job[w], p)] - 1
  <2>1. /\ pc[w] = "decr" /\ p \in todo[w] /\ UNCHANGED <<job, sent, runs>> /\ n \in Int
    BY <1>2, JobKey DEF Decr, TypeOK, RedisType
  <2>2. CASE n < 0
    <3>1. /\ pc' = [pc EXCEPT ![w] = "clamp"] /\ par' = [par EXCEPT ![w] = p]
          /\ UNCHANGED <<todo, pending, job, sent, episode, begun>>
      BY <1>2, <2>2 DEF Decr, runs
    <3>2. pc \in [Workers -> PCs] /\ par \in [Workers -> Parameters]
      BY DEF TypeOK, TaskType
    <3>3. ASSUME NEW v \in Workers
          PROVE  /\ Once(pending'[v]) /\ Marks(pending'[v]) \subseteq Marks(pending[v])
                 /\ OwesNext(v) \subseteq Owes(v)
                 /\ pc'[v] = "clamp" => par'[v] \in todo'[v]
      <4>1. Once(pending[v]) /\ (pc[v] = "clamp" => par[v] \in todo[v])
        BY DEF Ledger
      <4>2. OwesNext(v) \subseteq Owes(v)
        BY <2>1, <3>1, <3>2 DEF Owes, OwesNext
      <4> QED
        BY <2>1, <3>1, <3>2, <4>1, <4>2
    <3> QED
      BY <3>1, <3>3, Forgetting
  <2>3. CASE ~(n < 0)
    <3>1. Decremented(w, p, n) /\ UNCHANGED par /\ n \in Nat
      BY <1>2, <2>1, <2>3 DEF Decr
    <3> QED
      BY <2>1, <3>1, DecrementedLedger
  <2> QED
    BY <2>2, <2>3
<1>3. CASE Clamp(w)
  <2>1. /\ pc[w] = "clamp" /\ Decremented(w, par[w], 0)
        /\ UNCHANGED <<job, sent, runs, par>>
    BY <1>3 DEF Clamp
  <2>2. par[w] \in todo[w] /\ par[w] \in Parameters
    BY <2>1 DEF Ledger, TypeOK, TaskType
  <2> QED
    BY <2>1, <2>2, DecrementedLedger, 0 \in Nat
<1> QED
  BY <1>1, <1>2, <1>3 DEF Tracker

(* Emitting moves the head's mark, if it has one, from hand to sent.        *)
LEMMA EmitLedger == TypeOK /\ Ledger /\ EmitAlert => Ledger'
<1> SUFFICES ASSUME TypeOK, Ledger, EmitAlert PROVE Ledger'
  OBVIOUS
<1> DEFINE w == "consumer"
           q == pending[w]
           h == Head(q)
           its == IF h.kind = "malfunction" THEN {Mark(h)} ELSE {}
<1>1. /\ q \in Seq(Alert) /\ sent \in Seq(Alert) /\ pending \in [Workers -> Seq(Alert)]
      /\ q # <<>> /\ sent' = Append(sent, h) /\ pending' = [pending EXCEPT ![w] = Tail(@)]
      /\ pc[w] = "emit" /\ UNCHANGED <<pc, job, todo, par, episode, begun>>
  BY DEF EmitAlert, TypeOK, TaskType, HistoryType, Workers, runs
<1>2. /\ Once(sent) /\ Numbered(Marks(sent)) /\ Used(w) \cap Used("watchdog") = {}
      /\ \A v \in Workers : /\ Once(pending[v]) /\ Marks(pending[v]) \cap Owes(v) = {}
                            /\ Used(v) \cap Marks(sent) = {} /\ Numbered(Used(v))
                            /\ pc[v] = "clamp" => par[v] \in todo[v]
  BY DEF Ledger
<1>3. Once(q) /\ Numbered(Used(w)) /\ Used(w) \cap Marks(sent) = {} /\ Used(w) = Marks(q)
  BY <1>1, <1>2 DEF Workers, Used, Owes
<1>4. /\ h \in Alert /\ Marks(q) = Marks(Tail(q)) \cup its
      /\ Once(Tail(q)) /\ its \cap Marks(Tail(q)) = {}
  BY <1>1, <1>3, MarksOfTail
<1> HIDE DEF q, h
<1>5. /\ Marks(sent') = Marks(sent) \cup its
      /\ Once(sent')
  <2>1. h.kind = "malfunction" => Mark(h) \notin Marks(sent)
    BY <1>3, <1>4
  <2> QED
    BY <1>1, <1>2, <1>4, <2>1, MarksOfAppend
<1> HIDE DEF its
<1>6. /\ pending'[w] = Tail(q) /\ \A v \in Workers \ {w} : pending'[v] = pending[v]
      /\ \A v \in Workers : OwesNext(v) = Owes(v)
      /\ UsedNext(w) = Marks(Tail(q)) /\ \A v \in Workers \ {w} : UsedNext(v) = Used(v)
  BY <1>1 DEF Workers, Owes, OwesNext, Used, UsedNext, q
<1>7. Once(sent') /\ NumberedNext(Marks(sent'))
  BY <1>1, <1>2, <1>3, <1>4, <1>5 DEF Numbered, NumberedNext
<1>8. ASSUME NEW v \in Workers
      PROVE  /\ Once(pending'[v]) /\ Marks(pending'[v]) \cap OwesNext(v) = {}
             /\ UsedNext(v) \cap Marks(sent') = {} /\ NumberedNext(UsedNext(v))
             /\ pc'[v] = "clamp" => par'[v] \in todo'[v]
  <2>1. CASE v = w
    <3>1. Once(pending'[w]) /\ OwesNext(w) = {} /\ pc'[w] # "clamp"
      BY <1>1, <1>4, <1>6, <2>1 DEF Owes
    <3>2. UsedNext(w) \cap Marks(sent') = {}
      BY <1>3, <1>4, <1>5, <1>6
    <3>3. NumberedNext(UsedNext(w))
      BY <1>1, <1>3, <1>4, <1>6 DEF Numbered, NumberedNext
    <3> QED
      BY <2>1, <3>1, <3>2, <3>3
  <2>2. CASE v # w
    <3>1. v = "watchdog"
      BY <2>2 DEF Workers
    <3>2. Used(v) \cap its = {}
      BY <1>2, <1>3, <1>4, <3>1
    <3> QED
      BY <1>1, <1>2, <1>5, <1>6, <2>2, <3>2 DEF Numbered, NumberedNext
  <2> QED
    BY <2>1, <2>2
<1>9. UsedNext("consumer") \cap UsedNext("watchdog") = {}
  BY <1>2, <1>3, <1>4, <1>6 DEF Workers
<1> QED
  BY <1>7, <1>8, <1>9, LedgerNext

(* The steps that make no mark and send nothing.                            *)
Quiet(w) == /\ \/ pending'[w] = pending[w]
               \/ Marks(pending'[w]) = {} /\ Once(pending'[w])
            /\ \/ pc'[w] \notin {"decr", "clamp"}
               \/ /\ pc'[w] = pc[w] /\ job'[w] = job[w] /\ begun'[w] = begun[w]
                  /\ todo'[w] = todo[w] /\ par'[w] = par[w]

LEMMA QuietLedger ==
  ASSUME TypeOK, Ledger, UNCHANGED <<sent, episode>>, \A w \in Workers : Quiet(w)
  PROVE  Ledger'
<1> SUFFICES ASSUME NEW w \in Workers
             PROVE  /\ Once(pending'[w]) /\ Marks(pending'[w]) \subseteq Marks(pending[w])
                    /\ OwesNext(w) \subseteq Owes(w)
                    /\ pc'[w] = "clamp" => par'[w] \in todo'[w]
  BY Forgetting
<1>1. Quiet(w) /\ Once(pending[w]) /\ (pc[w] = "clamp" => par[w] \in todo[w])
  BY DEF Ledger
<1> QED
  BY <1>1 DEF Quiet, Owes, OwesNext

LEMMA FetchQuiet ==
  ASSUME TypeOK, NEW a \in Areas, Fetch(a)
  PROVE  \A w \in Workers : Quiet(w)
<1> DEFINE c == "consumer"
           r == log[a][position[a] + 1]
<1>1. /\ pc \in [Workers -> PCs] /\ job \in [Workers -> Sensors]
      /\ todo \in [Workers -> SUBSET Parameters] /\ pending \in [Workers -> Seq(Alert)]
      /\ pc[c] = "idle" /\ UNCHANGED <<par, begun>> /\ c \in Workers
  BY DEF TypeOK, TaskType, Fetch, runs, Workers
<1>2. r \in Reading
  BY ElementOfSeq DEF TypeOK, KafkaType, Fetch
<1>3. CASE r.status \in Accepted
  <2>1. PICK alerts \in ThresholdAlerts(r) : pending' = [pending EXCEPT ![c] = alerts]
    BY <1>3 DEF Fetch
  <2>2. alerts = <<>> \/ \E p \in Parameters :
          alerts = <<MakeAlert("threshold", "high", r.sensor, p, 0, 0)>>
    BY <1>2, DeploymentAssumption DEF ThresholdAlerts, Reading
  <2>3. Marks(alerts) = {} /\ Once(alerts)
    BY <1>2, <2>2, NoMarks, MarksOfThreshold DEF Reading
  <2>4. /\ pending'[c] = alerts /\ pc'[c] \in {"fault", "recover"}
        /\ \A w \in Workers \ {c} : /\ pending'[w] = pending[w] /\ pc'[w] = pc[w]
                                    /\ todo'[w] = todo[w] /\ job'[w] = job[w]
    BY <1>1, <1>3, <2>1 DEF Fetch
  <2> QED
    BY <1>1, <2>3, <2>4 DEF Quiet
<1>4. CASE r.status \notin Accepted
  BY <1>1, <1>4 DEF Fetch, Quiet
<1> QED
  BY <1>3, <1>4

LEMMA StepLedger == TypeOK /\ Ledger /\ [Next]_vars => Ledger'
<1> SUFFICES ASSUME TypeOK, Ledger, [Next]_vars PROVE Ledger'
  OBVIOUS
<1>1. CASE \E w \in Workers : Tracker(w)
  BY <1>1, TrackerLedger
<1>2. CASE EmitAlert
  BY <1>2, EmitLedger
<1>3. CASE EmitError
  <2>1. /\ pending["consumer"] \in Seq(Alert) /\ pending["consumer"] # <<>>
        /\ pending' = [pending EXCEPT !["consumer"] = Tail(@)]
        /\ pending \in [Workers -> Seq(Alert)]
        /\ UNCHANGED <<sent, episode, pc, job, todo, par, begun>>
    BY <1>3 DEF EmitError, TypeOK, TaskType, Workers, runs
  <2>2. /\ Once(pending["consumer"]) => Once(Tail(pending["consumer"]))
        /\ Marks(Tail(pending["consumer"])) \subseteq Marks(pending["consumer"])
    BY <2>1, MarksOfTail
  <2>3. ASSUME NEW w \in Workers
        PROVE  /\ Once(pending'[w]) /\ Marks(pending'[w]) \subseteq Marks(pending[w])
               /\ OwesNext(w) \subseteq Owes(w)
               /\ pc'[w] = "clamp" => par'[w] \in todo'[w]
    <3>1. Once(pending[w]) /\ (pc[w] = "clamp" => par[w] \in todo[w])
      BY DEF Ledger
    <3> QED
      BY <2>1, <2>2, <3>1 DEF Owes, OwesNext
  <2> QED
    BY <2>1, <2>3, Forgetting
<1>4. ASSUME NEW a \in Areas, Fetch(a) PROVE Ledger'
  <2>1. UNCHANGED <<sent, episode>>
    BY <1>4 DEF Fetch, runs
  <2> QED
    BY <1>4, <2>1, FetchQuiet, QuietLedger
<1>5. CASE GetFault \/ DeleteFault \/ (\E p \in Parameters : IncrCount(p)) \/ SetLatest
  <2>1. /\ UNCHANGED <<sent, episode, pending, job, begun, par>>
        /\ pc'["consumer"] \notin {"decr", "clamp"}
        /\ pc'["watchdog"] = pc["watchdog"] /\ todo'["watchdog"] = todo["watchdog"]
    BY <1>5 DEF GetFault, DeleteFault, IncrCount, SetLatest, runs, TypeOK, TaskType, Workers
  <2> QED
    BY <2>1, QuietLedger DEF Quiet, Workers
<1>6. CASE StartScan \/ (\E s \in Sensors : ScanKey(s)) \/ EndScan
  <2>1. /\ UNCHANGED <<sent, episode, pending, begun, par>>
        /\ pc'["watchdog"] \notin {"decr", "clamp"}
        /\ pc'["consumer"] = pc["consumer"] /\ todo'["consumer"] = todo["consumer"]
        /\ job'["consumer"] = job["consumer"]
    BY <1>6 DEF StartScan, ScanKey, EndScan, runs, TypeOK, TaskType, Workers
  <2> QED
    BY <2>1, QuietLedger DEF Quiet, Workers
<1>7. CASE Crash
  <2>1. /\ UNCHANGED <<sent, episode>>
        /\ \A w \in Workers : pending'[w] = <<>> /\ pc'[w] = "idle"
    BY <1>7 DEF Crash, Idle, runs
  <2> QED
    BY <2>1, NoMarks, QuietLedger DEF Quiet
<1>8. CASE ScanError
  <2>1. /\ UNCHANGED <<sent, episode, job, begun, par>>
        /\ pending'["watchdog"] = <<>> /\ pc'["watchdog"] = "idle"
        /\ pc'["consumer"] = pc["consumer"] /\ todo'["consumer"] = todo["consumer"]
        /\ pending'["consumer"] = pending["consumer"]
    BY <1>8 DEF ScanError, runs, TypeOK, TaskType, Workers
  <2> QED
    BY <2>1, NoMarks, QuietLedger DEF Quiet, Workers
<1>9. CASE \/ Publish \/ HotState
           \/ \E s \in Sensors : ExpireFault(s)
           \/ \E a \in Areas : AutoCommit(a)
           \/ UNCHANGED vars
  <2>1. UNCHANGED <<sent, episode, pending, pc, job, todo, par, begun>>
    BY <1>9 DEF Publish, Produce, HotState, HotStateUpdate, GoSilent, ExpireLatest, ExpireFault,
                AutoCommit, locals, runs, vars
  <2> QED
    BY <2>1, QuietLedger DEF Quiet
<1> QED
  BY <1>1, <1>2, <1>3, <1>4, <1>5, <1>6, <1>7, <1>8, <1>9
     DEF Next, NextTasks, NextConsumer, ConsumerStep, WatchdogStep, Failure, Workers

LEMMA LedgerMeansOnce == TypeOK /\ Ledger => OneAlertPerEpisode
<1> SUFFICES ASSUME TypeOK, Ledger PROVE OneAlertPerEpisode
  OBVIOUS
<1> DEFINE c == pending["consumer"]
           w == pending["watchdog"]
<1>1. sent \in Seq(Alert) /\ c \in Seq(Alert) /\ w \in Seq(Alert)
  BY DEF TypeOK, TaskType, HistoryType, Workers
<1>2. /\ Once(sent) /\ Once(c) /\ Once(w) /\ Marks(sent) \cap Marks(c) = {}
      /\ Marks(sent) \cap Marks(w) = {} /\ Marks(c) \cap Marks(w) = {}
  BY DEF Ledger, Used, Workers
<1> HIDE DEF c, w
<1>3. /\ sent \o c \in Seq(Alert) /\ Once(sent \o c)
      /\ Marks(sent \o c) \subseteq Marks(sent) \cup Marks(c)
  BY <1>1, <1>2, OnceOfConcat
<1>4. Once((sent \o c) \o w)
  <2>1. Marks(sent \o c) \cap Marks(w) = {}
    BY <1>2, <1>3
  <2> QED
    BY <1>1, <1>2, <1>3, <2>1, OnceOfConcat
<1>5. Once(Produced)
  BY <1>4 DEF Produced, c, w
<1> QED
  BY <1>5 DEF OneAlertPerEpisode, Once, Malfunctions, Mark

(* No alert storm: whatever crashes, is redelivered, scanned again or expires,
   a fault run of a sensor is announced at most once per parameter.          *)
THEOREM OneAlertPerEpisodeAlways == Spec => []OneAlertPerEpisode
<1>1. TypeOK /\ Ledger /\ [Next]_vars => TypeOK' /\ Ledger'
  BY StepType, StepLedger
<1> QED
  BY InitType, InitLedger, <1>1, LedgerMeansOnce, PTL DEF Spec

-----------------------------------------------------------------------------
(* With the consumer alone every fault run is announced.                    *)

(* What has been told, is in the consumer's hand, or owed by it.            *)
Told == Marks(sent) \cup Marks(pending["consumer"]) \cup Owes("consumer")
ToldNext == Marks(sent') \cup Marks(pending'["consumer"]) \cup OwesNext("consumer")

Accounted ==
  /\ pc["consumer"] = "idle" => pending["consumer"] = <<>>
  /\ \A s \in Sensors : fault[s] > 0 =>
       \A p \in Measures[s] : <<s, p, episode[s]>> \in Told

LEMMA InitAccounted == Init => Accounted
<1> SUFFICES ASSUME Init PROVE Accounted
  OBVIOUS
<1>1. pending["consumer"] = <<>> /\ \A s \in Sensors : ~(fault[s] > 0)
  BY DEF Init, Workers
<1> QED
  BY <1>1 DEF Accounted

(* A step that forgets nothing told and begins no fault run.                *)
LEMMA StaysAccounted ==
  ASSUME Accounted, Told \subseteq ToldNext,
         \A s \in Sensors : fault'[s] > 0 => fault[s] > 0 /\ episode'[s] = episode[s],
         pc'["consumer"] = "idle" => pending'["consumer"] = <<>>
  PROVE  Accounted'
<1> SUFFICES ASSUME NEW s \in Sensors, fault'[s] > 0, NEW p \in Measures[s]
             PROVE  <<s, p, episode'[s]>> \in ToldNext
  BY DEF Accounted, Told, ToldNext, Owes, OwesNext
<1>1. <<s, p, episode[s]>> \in Told
  BY DEF Accounted
<1> QED
  BY <1>1

LEMMA IncrFaultAccounted ==
  ASSUME TypeOK, JobInv, Accounted, IncrFault("consumer")
  PROVE  Accounted'
<1> DEFINE c == "consumer"
           s == job[c]
<1>1. /\ s \in Sensors /\ fault \in [Sensors -> Nat] /\ episode \in [Sensors -> Nat]
      /\ begun \in [Workers -> Nat] /\ pc \in [Workers -> PCs] /\ c \in Workers
  BY DEF TypeOK, TaskType, RedisType, HistoryType, Workers
<1>2. /\ episode' = [episode EXCEPT ![s] = IF fault[s] = 0 THEN @ + 1 ELSE @]
      /\ begun' = [begun EXCEPT ![c] = episode'[s]] /\ fault' = [fault EXCEPT ![s] = @ + 1]
      /\ pc[c] = "fault" /\ UNCHANGED <<sent, pending, job>>
  BY DEF IncrFault
<1>3. Told \subseteq ToldNext
  BY <1>2 DEF Told, ToldNext, Owes
<1>4. pc'[c] \in {"decr", "emit"}
  BY <1>1 DEF IncrFault, AfterTracker
<1>5. CASE fault[s] > 0
  <2>1. \A t \in Sensors : fault'[t] > 0 => fault[t] > 0 /\ episode'[t] = episode[t]
    BY <1>1, <1>2, <1>5
  <2> QED
    BY <1>3, <1>4, <2>1, StaysAccounted
<1>6. CASE ~(fault[s] > 0)
  <2>1. fault[s] = 0
    BY <1>1, <1>6
  <2>2. /\ episode'[s] = episode[s] + 1 /\ begun'[c] = episode'[s]
        /\ \A t \in Sensors \ {s} : fault'[t] = fault[t] /\ episode'[t] = episode[t]
    BY <1>1, <1>2, <2>1
  <2>3. pc'[c] = "decr" /\ todo'[c] = Measures[s]
    <3>1. UNCHANGED todo /\ pc'[c] = "decr"
      BY <1>1, <2>1 DEF IncrFault, FirstOfRun
    <3>2. todo[c] = Measures[s]
      BY <1>1, <1>2 DEF JobInv
    <3> QED
      BY <3>1, <3>2
  <2>4. \A p \in Measures[s] : <<s, p, episode'[s]>> \in ToldNext
    BY <1>2, <2>2, <2>3 DEF ToldNext, OwesNext
  <2>5. ASSUME NEW t \in Sensors, fault'[t] > 0, NEW p \in Measures[t]
        PROVE  <<t, p, episode'[t]>> \in ToldNext
    <3>1. CASE t = s
      BY <2>4, <3>1
    <3>2. CASE t # s
      <4>1. <<t, p, episode[t]>> \in Told
        BY <2>2, <2>5, <3>2 DEF Accounted
      <4> QED
        BY <1>3, <2>2, <3>2, <4>1
    <3> QED
      BY <3>1, <3>2
  <2> QED
    BY <1>4, <2>5 DEF Accounted, Told, ToldNext, Owes, OwesNext
<1> QED
  BY <1>5, <1>6

LEMMA DecrementedAccounted ==
  ASSUME TypeOK, Accounted, NEW p \in Parameters, NEW n \in Nat,
         pc["consumer"] \in {"decr", "clamp"}, p \in todo["consumer"],
         Decremented("consumer", p, n), UNCHANGED <<job, sent, runs, fault>>
  PROVE  Accounted'
<1> DEFINE c == "consumer"
           s == job[c]
           e == begun[c]
           q == pending[c]
           all == q \o FaultAlerts(s, p, n, e)
<1>1. /\ s \in Sensors /\ e \in Nat /\ q \in Seq(Alert) /\ c \in Workers
      /\ pc \in [Workers -> PCs] /\ todo \in [Workers -> SUBSET Parameters]
      /\ pending \in [Workers -> Seq(Alert)] /\ UNCHANGED <<job, sent, fault, episode, begun>>
  BY DEF TypeOK, TaskType, HistoryType, runs, Workers
<1>2. pending'[c] = all /\ todo'[c] = todo[c] \ {p}
  BY <1>1 DEF Decremented, Returned
<1>3. pc'[c] = IF todo[c] = {p} THEN "emit" ELSE "decr"
  BY <1>1 DEF Decremented, AfterTracker
<1>4. Owes(c) = {<<s, r, e>> : r \in todo[c]}
  BY DEF Owes
<1>5. OwesNext(c) = {<<s, r, e>> : r \in todo[c] \ {p}}
  <2>1. CASE todo[c] = {p}
    BY <1>1, <1>2, <1>3, <2>1 DEF OwesNext
  <2>2. CASE todo[c] # {p}
    BY <1>1, <1>2, <1>3, <2>2 DEF OwesNext
  <2> QED
    BY <2>1, <2>2
<1> HIDE DEF s, e, q
<1> HIDE DEF all
<1>6. Marks(all) = Marks(q) \cup {<<s, p, e>>}
  <2>1. PICK i \in Sensors, k \in Nat, l \in Seq(Alert) : i = s /\ k = e /\ l = q
    BY <1>1
  <2>2. /\ l \o FaultAlerts(i, p, n, k) \in Seq(Alert)
        /\ Marks(l \o FaultAlerts(i, p, n, k)) = Marks(l) \cup {<<i, p, k>>}
        /\ Once(l) /\ <<i, p, k>> \notin Marks(l) => Once(l \o FaultAlerts(i, p, n, k))
    BY Zenon, MarksOfFaultAlerts
  <2> QED
    BY <2>1, <2>2 DEF all
<1>7. Told \subseteq ToldNext
  BY <1>1, <1>2, <1>4, <1>5, <1>6 DEF Told, ToldNext, q
<1> QED
  BY <1>1, <1>3, <1>7, StaysAccounted

LEMMA FetchAccounted ==
  ASSUME TypeOK, Accounted, NEW a \in Areas, Fetch(a)
  PROVE  Accounted'
<1>1. /\ pc["consumer"] = "idle" /\ pending["consumer"] = <<>>
      /\ UNCHANGED <<sent, fault, episode>>
  BY DEF Fetch, Accounted, redis, runs
<1>2. Told = Marks(sent)
  BY <1>1, NoMarks DEF Told, Owes
<1>3. Told \subseteq ToldNext
  BY <1>1, <1>2 DEF ToldNext
<1>4. pc'["consumer"] = "idle" => pending'["consumer"] = <<>>
  BY <1>1 DEF Fetch, TypeOK, TaskType, Workers
<1> QED
  BY <1>1, <1>3, <1>4, StaysAccounted

LEMMA EmitAccounted ==
  ASSUME TypeOK, Accounted, EmitAlert
  PROVE  Accounted'
<1> DEFINE c == "consumer"
           q == pending[c]
           h == Head(q)
<1>1. /\ q \in Seq(Alert) /\ sent \in Seq(Alert) /\ pending \in [Workers -> Seq(Alert)]
      /\ q # <<>> /\ sent' = Append(sent, h) /\ pending' = [pending EXCEPT ![c] = Tail(@)]
      /\ pc[c] = "emit" /\ UNCHANGED <<pc, fault, episode>> /\ c \in Workers
  BY DEF EmitAlert, TypeOK, TaskType, HistoryType, Workers, runs, redis
<1>2. pending'[c] = Tail(q)
  BY <1>1
<1> HIDE DEF q
<1>3. /\ h \in Alert
      /\ Marks(q) = Marks(Tail(q)) \cup (IF h.kind = "malfunction" THEN {Mark(h)} ELSE {})
  BY <1>1, MarksOfTail
<1> HIDE DEF h
<1>4. Marks(sent') = Marks(sent) \cup (IF h.kind = "malfunction" THEN {Mark(h)} ELSE {})
  BY <1>1, <1>3, MarksOfAppend
<1>5. Told \subseteq ToldNext
  BY <1>1, <1>2, <1>3, <1>4 DEF Told, ToldNext, Owes, q
<1> QED
  BY <1>1, <1>5, StaysAccounted

LEMMA StepAccounted == TypeOK /\ JobInv /\ Ledger /\ Accounted /\ [NextConsumer]_vars => Accounted'
<1> SUFFICES ASSUME TypeOK, JobInv, Ledger, Accounted, [NextConsumer]_vars PROVE Accounted'
  OBVIOUS
<1> DEFINE c == "consumer"
<1>1. CASE IncrFault(c)
  BY <1>1, IncrFaultAccounted
<1>2. ASSUME NEW p \in Parameters, Decr(c, p) PROVE Accounted'
  <2> DEFINE n == count[KeyOf(job[c], p)] - 1
  <2>1. /\ pc[c] = "decr" /\ p \in todo[c] /\ UNCHANGED <<job, sent, runs, fault>> /\ n \in Int
    BY <1>2, JobKey DEF Decr, TypeOK, RedisType, Workers
  <2>2. CASE n < 0
    <3>1. /\ pc'[c] = "clamp" /\ todo' = todo /\ pending' = pending
          /\ UNCHANGED <<sent, job, episode, begun, fault>>
      BY <1>2, <2>2 DEF Decr, runs, TypeOK, TaskType, Workers
    <3>2. Told \subseteq ToldNext
      BY <2>1, <3>1 DEF Told, ToldNext, Owes, OwesNext
    <3> QED
      BY <3>1, <3>2, StaysAccounted
  <2>3. CASE ~(n < 0)
    <3>1. Decremented(c, p, n) /\ n \in Nat
      BY <1>2, <2>1, <2>3 DEF Decr
    <3> QED
      BY <2>1, <3>1, DecrementedAccounted
  <2> QED
    BY <2>2, <2>3
<1>3. CASE Clamp(c)
  <2>1. /\ pc[c] = "clamp" /\ Decremented(c, par[c], 0) /\ UNCHANGED <<job, sent, runs, fault>>
    BY <1>3 DEF Clamp
  <2>2. par[c] \in todo[c] /\ par[c] \in Parameters
    BY <2>1 DEF Ledger, TypeOK, TaskType, Workers
  <2> QED
    BY <2>1, <2>2, DecrementedAccounted, 0 \in Nat
<1>4. CASE \E a \in Areas : Fetch(a)
  BY <1>4, FetchAccounted
<1>5. CASE EmitAlert
  BY <1>5, EmitAccounted
<1>6. CASE GetFault \/ DeleteFault \/ (\E p \in Parameters : IncrCount(p)) \/ SetLatest
  <2>1. /\ UNCHANGED <<sent, episode, pending>> /\ pc[c] \notin {"decr", "clamp"}
        /\ pc'[c] = "idle" => pending'[c] = <<>>
    BY <1>6 DEF GetFault, DeleteFault, IncrCount, SetLatest, runs, TypeOK, TaskType, Workers
  <2>2. Told \subseteq ToldNext
    BY <2>1 DEF Told, ToldNext, Owes
  <2>3. \A s \in Sensors : fault'[s] > 0 => fault[s] > 0
    <3>1. CASE DeleteFault
      <4>1. fault' = [fault EXCEPT ![job[c]] = 0] /\ fault \in [Sensors -> Nat]
        BY <3>1 DEF DeleteFault, TypeOK, RedisType
      <4> QED
        BY <4>1
    <3>2. CASE UNCHANGED fault
      BY <3>2
    <3> QED
      BY <1>6, <3>1, <3>2 DEF GetFault, IncrCount, SetLatest, redis
  <2> QED
    BY <2>1, <2>2, <2>3, StaysAccounted
<1>7. CASE Publish \/ UNCHANGED vars
  <2>1. UNCHANGED <<sent, episode, fault, pending, pc, job, todo, begun>>
    BY <1>7 DEF Publish, Produce, locals, runs, redis, vars
  <2>2. Told \subseteq ToldNext /\ (pc[c] = "idle" => pending[c] = <<>>)
    BY <2>1 DEF Told, ToldNext, Owes, OwesNext, Accounted
  <2> QED
    BY <2>1, <2>2, StaysAccounted
<1> QED
  BY <1>1, <1>2, <1>3, <1>4, <1>5, <1>6, <1>7 DEF NextConsumer, ConsumerStep, Tracker

(* The README's rule for a sensor reporting status 0, with the consumer alone:
   once nothing is left to process, every sensor marked faulty has had its
   malfunction alert for each parameter it measures.                         *)
THEOREM FaultAnnouncedAlways == SpecConsumer => []FaultAnnounced
<1>1. [NextConsumer]_vars => [Next]_vars
  BY DEF Next, NextTasks
<1>2. TypeOK /\ Accounted => FaultAnnounced
  <2> SUFFICES ASSUME TypeOK, Accounted, AtRest, NEW s \in Sensors, fault[s] > 0,
                      NEW p \in Measures[s]
               PROVE  \E i \in 1 .. Len(sent) :
                        /\ sent[i].kind = "malfunction"
                        /\ sent[i].sensor = s /\ sent[i].parameter = p
                        /\ sent[i].episode = episode[s]
    BY DEF FaultAnnounced
  <2>1. pc["consumer"] = "idle"
    BY DEF AtRest, Idle, Workers
  <2>2. Told = Marks(sent)
    BY <2>1, NoMarks DEF Told, Owes, Accounted
  <2>3. <<s, p, episode[s]>> \in Marks(sent)
    BY <2>2 DEF Accounted
  <2> QED
    BY <2>3 DEF Marks, Malfunctions, Mark
<1>3. TypeOK /\ JobInv /\ Ledger /\ Accounted /\ [NextConsumer]_vars =>
        TypeOK' /\ JobInv' /\ Ledger' /\ Accounted'
  BY <1>1, StepType, JobInvStep, StepLedger, StepAccounted
<1>4. Init => TypeOK /\ JobInv /\ Ledger /\ Accounted
  <2>1. Init => JobInv
    BY DEF Init, JobInv, Idle
  <2> QED
    BY <2>1, InitType, InitLedger, InitAccounted
<1> QED
  BY <1>2, <1>3, <1>4, PTL DEF SpecConsumer

-----------------------------------------------------------------------------
(* The consumer's counter arithmetic implements the coverage rule.          *)

LEMMA NoRedundancyAlerts ==
  /\ RedundancyAlerts(<<>>) = {}
  /\ \A a : a.kind = "threshold" => RedundancyAlerts(<<a>>) = {}
<1>1. Len(<<>>) = 0
  BY EmptySeq
<1>2. RedundancyAlerts(<<>>) = {}
  BY <1>1 DEF RedundancyAlerts
<1>3. ASSUME NEW a, a.kind = "threshold" PROVE RedundancyAlerts(<<a>>) = {}
  BY <1>3 DEF RedundancyAlerts
<1> QED
  BY <1>2, <1>3

LEMMA RedundancyOfAppend ==
  ASSUME NEW q \in Seq(Alert), NEW a \in Alert
  PROVE  RedundancyAlerts(Append(q, a)) =
           RedundancyAlerts(q) \cup (IF a.kind # "threshold" THEN {a} ELSE {})
<1> DEFINE r == Append(q, a)
           n == Len(q)
<1>1. /\ n \in Nat /\ Len(r) = n + 1 /\ r[n + 1] = a
      /\ \A i \in 1 .. n : r[i] = q[i]
  BY AppendProperties, LenProperties
<1>2. /\ \A i \in 1 .. n + 1 : i \in 1 .. n \/ i = n + 1
      /\ \A i \in 1 .. n : i \in 1 .. n + 1
      /\ n + 1 \in 1 .. n + 1
  BY <1>1
<1> HIDE DEF r
<1> QED
  BY <1>1, <1>2 DEF RedundancyAlerts, r

LEMMA RedundancyOfTail ==
  ASSUME NEW q \in Seq(Alert), q # <<>>
  PROVE  RedundancyAlerts(q) = RedundancyAlerts(Tail(q)) \cup
           (IF Head(q).kind # "threshold" THEN {Head(q)} ELSE {})
<1> DEFINE r == Tail(q)
           n == Len(q)
           h == Head(q)
<1>1. /\ n \in Nat \ {0} /\ Len(r) = n - 1 /\ h = q[1]
      /\ \A i \in 1 .. Len(r) : r[i] = q[i + 1]
  BY HeadTailProperties, EmptySeq, LenProperties
<1>2. /\ \A i \in 1 .. n : i = 1 \/ \E j \in 1 .. n - 1 : j + 1 = i
      /\ \A j \in 1 .. n - 1 : j + 1 \in 1 .. n
      /\ 1 \in 1 .. n
  <2>1. \A i \in 1 .. n : i = 1 \/ (i - 1 \in 1 .. n - 1 /\ (i - 1) + 1 = i)
    BY <1>1
  <2> QED
    BY <1>1, <2>1
<1>3. /\ RedundancyAlerts(q) = {q[i] : i \in {j \in 1 .. n : q[j].kind # "threshold"}}
      /\ RedundancyAlerts(r) = {r[i] : i \in {j \in 1 .. Len(r) : r[j].kind # "threshold"}}
  BY DEF RedundancyAlerts
<1> HIDE DEF r, h, n
<1>4. ASSUME NEW x
      PROVE  x \in RedundancyAlerts(q) <=>
               x \in RedundancyAlerts(r) \/ (h.kind # "threshold" /\ x = h)
  <2>1. ASSUME x \in RedundancyAlerts(q)
        PROVE  x \in RedundancyAlerts(r) \/ (h.kind # "threshold" /\ x = h)
    <3>1. PICK i \in 1 .. n : q[i].kind # "threshold" /\ x = q[i]
      BY <1>3, <2>1
    <3>2. CASE i = 1
      BY <1>1, <3>1, <3>2
    <3>3. CASE i # 1
      <4>1. PICK j \in 1 .. n - 1 : j + 1 = i
        BY <1>2, <3>3
      <4>2. j \in 1 .. Len(r) /\ r[j] = q[i]
        BY <1>1, <4>1
      <4> QED
        BY <1>3, <3>1, <4>2
    <3> QED
      BY <3>2, <3>3
  <2>2. ASSUME x \in RedundancyAlerts(r)
        PROVE  x \in RedundancyAlerts(q)
    BY <1>1, <1>2, <1>3, <2>2
  <2>3. ASSUME h.kind # "threshold", x = h
        PROVE  x \in RedundancyAlerts(q)
    BY <1>1, <1>2, <1>3, <2>3
  <2> QED
    BY <2>1, <2>2, <2>3
<1> QED
  BY <1>4 DEF r, h

LEMMA RedundancyOfConcat ==
  ASSUME NEW q \in Seq(Alert), NEW r \in Seq(Alert)
  PROVE  RedundancyAlerts(q \o r) = RedundancyAlerts(q) \cup RedundancyAlerts(r)
<1> DEFINE m == Len(q)
           n == Len(r)
           all == q \o r
<1>1. /\ m \in Nat /\ n \in Nat /\ Len(all) = m + n
      /\ \A i \in 1 .. m + n : all[i] = IF i <= m THEN q[i] ELSE r[i - m]
  BY ConcatProperties, LenProperties
<1>2. /\ \A i \in 1 .. m + n : (i \in 1 .. m /\ i <= m) \/ (i - m \in 1 .. n /\ ~(i <= m))
      /\ \A i \in 1 .. m : i \in 1 .. m + n /\ i <= m
      /\ \A i \in 1 .. n : m + i \in 1 .. m + n /\ ~(m + i <= m) /\ (m + i) - m = i
  BY <1>1
<1> HIDE DEF all
<1>3. /\ \A i \in 1 .. m : i \in 1 .. Len(all) /\ all[i] = q[i]
      /\ \A i \in 1 .. n : m + i \in 1 .. Len(all) /\ all[m + i] = r[i]
      /\ \A i \in 1 .. Len(all) : \/ i \in 1 .. m /\ all[i] = q[i]
                                  \/ i - m \in 1 .. n /\ all[i] = r[i - m]
  BY <1>1, <1>2
<1>4. RedundancyAlerts(all) \subseteq RedundancyAlerts(q) \cup RedundancyAlerts(r)
  <2> SUFFICES ASSUME NEW i \in 1 .. Len(all), all[i].kind # "threshold"
               PROVE  all[i] \in RedundancyAlerts(q) \cup RedundancyAlerts(r)
    BY DEF RedundancyAlerts
  <2>1. CASE i \in 1 .. m /\ all[i] = q[i]
    BY <2>1 DEF RedundancyAlerts
  <2>2. CASE i - m \in 1 .. n /\ all[i] = r[i - m]
    BY <2>2 DEF RedundancyAlerts
  <2> QED
    BY <1>3, <2>1, <2>2
<1>5. RedundancyAlerts(q) \subseteq RedundancyAlerts(all)
  BY <1>3 DEF RedundancyAlerts
<1>6. RedundancyAlerts(r) \subseteq RedundancyAlerts(all)
  BY <1>3 DEF RedundancyAlerts
<1> QED
  BY <1>4, <1>5, <1>6 DEF all

(* What one decrement adds to the redundancy alerts.                        *)
Added(s, p, n, e) ==
  IF n = 0 THEN {MakeAlert("malfunction", "high", s, p, 0, e),
                 MakeAlert("priority", "high", s, p, 0, e)}
  ELSE {MakeAlert("malfunction", "low", s, p, n, e)}

LEMMA RedundancyOfFaultAlerts ==
  ASSUME NEW s \in Sensors, NEW p \in Parameters, NEW n \in Nat, NEW e \in Nat
  PROVE  RedundancyAlerts(FaultAlerts(s, p, n, e)) = Added(s, p, n, e)
<1> DEFINE high == MakeAlert("malfunction", "high", s, p, 0, e)
           also == MakeAlert("priority", "high", s, p, 0, e)
           low  == MakeAlert("malfunction", "low", s, p, n, e)
<1>1. high.kind # "threshold" /\ also.kind # "threshold" /\ low.kind # "threshold"
  BY DEF MakeAlert
<1>2. FaultAlerts(s, p, n, e) = IF n = 0 THEN <<high, also>> ELSE <<low>>
  BY DEF FaultAlerts
<1> HIDE DEF high, also, low
<1>3. CASE n = 0
  BY <1>1, <1>2, <1>3 DEF RedundancyAlerts, Added, high, also
<1>4. CASE n # 0
  BY <1>1, <1>2, <1>4 DEF RedundancyAlerts, Added, low
<1> QED
  BY <1>3, <1>4

(* With nothing lost, no crash and no watchdog: the invariant under which
   every step of the consumer is one of the rule's.  Seeded counters are
   exact and never reset; unseeded ones are never too high.                  *)
Undisturbed ==
  /\ losses = 0 /\ crashes = 0 /\ races = 0
  /\ pc["watchdog"] = "idle"
  /\ pc["consumer"] \in {"decr", "clamp"} =>
       begun["consumer"] = episode[job["consumer"]]
  /\ pc["consumer"] = "clamp" => par["consumer"] \in todo["consumer"]
  /\ pc["consumer"] = "idle" => pending["consumer"] = <<>>

Exactly == Seeded => pc["consumer"] # "clamp" /\ \A k \in Keys : Lag(k) <= 0

ExactInv == DriftInv /\ Undisturbed /\ Exactly

LEMMA CountWithin ==
  ASSUME ExactInv, NEW k \in Keys
  PROVE  /\ count[k] <= Cardinality(Up(k)) + Owed("consumer", k)
         /\ Seeded => count[k] = Cardinality(Up(k)) + Owed("consumer", k)
<1>1. Bounded(k) /\ Drift = 0 /\ races = 0
  BY DEF ExactInv, DriftInv, Undisturbed, Drift
<1>2. Owed("watchdog", k) = 0
  BY DEF ExactInv, Undisturbed, Owed, Decreases
<1>3. Cardinality(Up(k)) \in Nat /\ Owed("consumer", k) \in Int /\ count[k] \in Int
  BY UpFinite, OwedType DEF ExactInv, DriftInv, TypeOK, RedisType, Workers
<1>4. Expected(k) = Cardinality(Up(k)) + Owed("consumer", k)
  BY <1>2, <1>3 DEF Expected
<1>5. count[k] <= Cardinality(Up(k)) + Owed("consumer", k)
  BY <1>1, <1>3, <1>4 DEF Bounded
<1>6. ASSUME Seeded PROVE count[k] >= Cardinality(Up(k)) + Owed("consumer", k)
  <2>1. Lag(k) <= 0
    BY <1>6 DEF ExactInv, Exactly
  <2> QED
    BY <1>3, <1>4, <2>1 DEF Lag
<1> QED
  BY <1>3, <1>5, <1>6

(* Coverage counts with the same Cardinality.                               *)
LEMMA SameCardinality == \A S : Promise!Cardinality(S) = Cardinality(S)
BY Zenon DEF Promise!Cardinality, Cardinality

(* The number DECR returns is one of those the rule allows, if it is one at
   all; on a seeded counter it always is.                                    *)
LEMMA DecrReturns ==
  ASSUME ExactInv, NEW p \in Parameters, Decr("consumer", p),
         NEW n \in Int, n = count[KeyOf(job["consumer"], p)] - 1
  PROVE  /\ n >= 0 => n \in Promise!Left(job["consumer"], p)
         /\ Seeded => n >= 0
<1> DEFINE s == job["consumer"]
           k == KeyOf(s, p)
           m == Cardinality(Up(k))
<1>1. k \in Keys /\ s \in Sensors /\ fault \in [Sensors -> Nat]
  BY JobKey DEF ExactInv, DriftInv, TypeOK, TaskType, RedisType, Workers
<1>2. k = <<AreaOf[s], p>>
  BY DEF KeyOf
<1>3. Owed("consumer", k) = 1
  BY <1>2 DEF Decr, Owed, Decreases, Concerns
<1>4. m \in Nat /\ count[k] \in Int
  BY <1>1, UpFinite DEF ExactInv, DriftInv, TypeOK, RedisType
<1>5. Promise!Covering(s, p) = Up(k)
  BY <1>1, <1>2 DEF Promise!Covering, Down, Up, SensorsOn
<1>6. Promise!Cardinality(Promise!Covering(s, p)) = m
  BY <1>5, SameCardinality
<1>7. count[k] <= m + 1 /\ (Seeded => count[k] = m + 1)
  BY <1>1, <1>3, CountWithin
<1> HIDE DEF m, k, s
<1>8. n <= m /\ (Seeded => n = m)
  BY <1>4, <1>7 DEF k, s
<1>9. n >= 0 => n \in (IF Seeded THEN {m} ELSE 0 .. m)
  BY <1>4, <1>8
<1>10. Promise!Left(s, p) = IF Seeded THEN {m} ELSE 0 .. m
  BY <1>6 DEF Promise!Left
<1> QED
  BY <1>4, <1>8, <1>9, <1>10 DEF s

LEMMA InitExact == Init => ExactInv
<1> SUFFICES ASSUME Init PROVE ExactInv
  OBVIOUS
<1>1. DriftInv
  BY InitDrift
<1>2. Undisturbed
  BY Zenon DEF Init, Undisturbed, Idle, Workers
<1>3. pc["consumer"] # "clamp"
  BY DEF Init, Idle, Workers
<1>4. ASSUME Seeded, NEW k \in Keys PROVE Lag(k) <= 0
  <2>1. Up(k) = SensorsOn(k)
    BY DEF Init, Up, SensorsOn
  <2>2. Expected(k) = Cardinality(Up(k))
    BY UpFinite DEF Init, Idle, Expected, Owed, Decreases, AddsTo, Workers
  <2>3. count[k] = Cardinality(SensorsOn(k))
    BY <1>4 DEF Init
  <2> QED
    BY <2>1, <2>2, <2>3, UpFinite DEF Lag
<1> QED
  BY <1>1, <1>2, <1>3, <1>4 DEF ExactInv, Exactly

LEMMA StepExactly ==
  ASSUME ExactInv, [NextConsumer]_vars
  PROVE  Exactly'
<1> DEFINE c == "consumer"
<1> SUFFICES ASSUME Seeded PROVE pc'[c] # "clamp" /\ \A k \in Keys : Lag(k)' <= 0
  BY DEF Exactly, Keys
<1>t. /\ TypeOK /\ JobInv /\ pc[c] # "clamp" /\ pc \in [Workers -> PCs] /\ c \in Workers
      /\ count \in [Keys -> Int] /\ \A k \in Keys : Lag(k) <= 0 /\ Bounded(k)
  BY DEF ExactInv, DriftInv, Exactly, TypeOK, RedisType, TaskType, Workers
<1>n. [Next]_vars
  BY DEF Next, NextTasks
<1>s. TypeOK'
  BY <1>t, <1>n, StepType
<1>1. pc'[c] # "clamp"
  <2>1. ASSUME NEW p \in Parameters, Decr(c, p) PROVE pc'[c] # "clamp"
    <3> DEFINE n == count[KeyOf(job[c], p)] - 1
    <3>1. KeyOf(job[c], p) \in Keys
      BY <1>t, JobKey
    <3>2. n \in Int
      BY <1>t, <3>1
    <3>3. n >= 0
      BY <2>1, <3>2, DecrReturns
    <3>4. Decremented(c, p, n)
      BY <2>1, <3>2, <3>3 DEF Decr
    <3> QED
      BY <1>t, <3>4 DEF Decremented, AfterTracker
  <2>2. CASE ~(\E p \in Parameters : Decr(c, p))
    BY <1>t, <2>2 DEF NextConsumer, Publish, Produce, ConsumerStep, Tracker, IncrFault,
       Clamp, AfterTracker, Fetch, GetFault, DeleteFault, IncrCount, EmitAlert,
       SetLatest, locals, vars
  <2> QED
    BY <2>1, <2>2
<1>2. ASSUME NEW k \in Keys PROVE Lag(k)' <= 0
  <2>1. Lag(k)' <= Lag(k)
    <3>0. Bounded(k) /\ ~Clamp(c)
      BY <1>t DEF Clamp
    <3>1. CASE IncrFault(c)
      BY <1>t, <1>s, <3>0, <3>1, IncrFaultBounded
    <3>2. ASSUME NEW p \in Parameters, Decr(c, p) PROVE Lag(k)' <= Lag(k)
      BY <1>t, <1>s, <3>0, <3>2, DecrBounded
    <3>3. ASSUME NEW p \in Parameters, IncrCount(p) PROVE Lag(k)' <= Lag(k)
      BY <1>t, <1>s, <3>0, <3>3, IncrCountBounded
    <3>4. CASE DeleteFault
      BY <1>t, <1>s, <3>0, <3>4, DeleteFaultBounded
    <3>5. CASE \/ Publish \/ (\E a \in Areas : Fetch(a))
               \/ GetFault \/ EmitAlert \/ SetLatest \/ UNCHANGED vars
      BY <1>t, <1>s, <3>0, <3>5, OtherBounded
    <3> QED
      BY <3>0, <3>1, <3>2, <3>3, <3>4, <3>5 DEF NextConsumer, ConsumerStep, Tracker
  <2>2. Lag(k) <= 0
    BY <1>t
  <2>3. Lag(k) \in Int /\ Lag(k)' \in Int
    <3>1. Expected(k) \in Int /\ Expected(k)' \in Int
      BY UpFinite, UpFinitePrime, OwedType DEF Expected, Workers
    <3> QED
      BY <1>t, <1>s, <3>1 DEF Lag, TypeOK, RedisType
  <2> QED
    BY <2>1, <2>2, <2>3
<1> QED
  BY <1>1, <1>2

LEMMA StepExact ==
  ASSUME ExactInv, [NextConsumer]_vars
  PROVE  ExactInv'
<1> DEFINE c == "consumer"
<1>1. [Next]_vars
  BY DEF Next, NextTasks
<1>2. DriftInv'
  BY <1>1, StepDrift DEF ExactInv
<1> SUFFICES Undisturbed'
  BY <1>2, StepExactly DEF ExactInv
<1>t. /\ TypeOK /\ JobInv /\ losses = 0 /\ crashes = 0 /\ races = 0 /\ pc["watchdog"] = "idle"
      /\ pc[c] \in {"decr", "clamp"} => begun[c] = episode[job[c]]
      /\ pc[c] = "clamp" => par[c] \in todo[c]
      /\ pc[c] = "idle" => pending[c] = <<>>
  BY DEF ExactInv, DriftInv, Undisturbed
<1>3. CASE IncrFault(c)
  <2>1. pc'[c] \in {"decr", "emit"} /\ pc'["watchdog"] = "idle"
        /\ UNCHANGED <<losses, crashes, races>>
    BY <1>3, <1>t DEF IncrFault, AfterTracker, bounds, TypeOK, TaskType, Workers
  <2>2. begun'[c] = episode'[job'[c]]
    BY <1>3, <1>t DEF IncrFault, TypeOK, HistoryType, Workers
  <2> QED
    BY <1>t, <2>1, <2>2 DEF Undisturbed
<1>4. ASSUME NEW p \in Parameters, Decr(c, p) PROVE Undisturbed'
  <2>1. /\ pc[c] = "decr" /\ pc'[c] \in {"decr", "clamp", "emit"} /\ pc'["watchdog"] = "idle"
        /\ UNCHANGED <<losses, crashes, races, begun, episode, job>>
    BY <1>4, <1>t DEF Decr, Decremented, AfterTracker, bounds, runs, TypeOK, TaskType, Workers
  <2>2. pc'[c] = "clamp" => par'[c] \in todo'[c]
    BY <1>4, <1>t DEF Decr, Decremented, AfterTracker, TypeOK, TaskType, Workers
  <2> QED
    BY <1>t, <2>1, <2>2 DEF Undisturbed
<1>5. CASE Clamp(c)
  <2>1. /\ pc[c] = "clamp" /\ pc'[c] \in {"decr", "emit"} /\ pc'["watchdog"] = "idle"
        /\ UNCHANGED <<losses, crashes, races, begun, episode, job>>
    BY <1>5, <1>t DEF Clamp, AddsTo, Decremented, AfterTracker, bounds, runs, TypeOK, TaskType, Workers
  <2> QED
    BY <1>t, <2>1 DEF Undisturbed
<1>6. ASSUME NEW a \in Areas, Fetch(a) PROVE Undisturbed'
  <2>1. pc'[c] \notin {"decr", "clamp"} /\ pc'["watchdog"] = "idle"
        /\ UNCHANGED <<losses, crashes, races>>
    BY <1>6, <1>t DEF Fetch, bounds, TypeOK, TaskType, Workers
  <2>2. pc'[c] = "idle" => pending'[c] = <<>>
    BY <1>6, <1>t DEF Fetch, TypeOK, TaskType, Workers
  <2> QED
    BY <1>t, <2>1, <2>2 DEF Undisturbed
<1>7. CASE GetFault \/ DeleteFault \/ (\E p \in Parameters : IncrCount(p)) \/ EmitAlert \/ SetLatest
  <2>1. pc'[c] \notin {"decr", "clamp"} /\ pc'["watchdog"] = "idle"
        /\ UNCHANGED <<losses, crashes, races>>
    BY <1>7, <1>t DEF GetFault, DeleteFault, IncrCount, EmitAlert, SetLatest, bounds, TypeOK,
                      TaskType, Workers
  <2>2. pc'[c] = "idle" => pending'[c] = <<>>
    BY <1>7, <1>t DEF GetFault, DeleteFault, IncrCount, EmitAlert, SetLatest, TypeOK, TaskType, Workers
  <2> QED
    BY <1>t, <2>1, <2>2 DEF Undisturbed
<1>8. CASE Publish \/ UNCHANGED vars
  <2>1. UNCHANGED <<pc, pending, par, todo, job, begun, episode, losses, crashes, races>>
    BY <1>8 DEF Publish, Produce, locals, runs, bounds, vars
  <2> QED
    BY <1>t, <2>1 DEF Undisturbed
<1> QED
  BY <1>3, <1>4, <1>5, <1>6, <1>7, <1>8 DEF NextConsumer, ConsumerStep, Tracker

(* A step the coverage rule does not see.                                   *)
LEMMA UnseenStep ==
  ASSUME Down' = Down, OwedPairs' = OwedPairs, Announced' = Announced, episode' = episode
  PROVE  UNCHANGED Promise!vars
BY DEF Promise!vars

(* The first fault of a run makes its sensor go down, a later one nothing.  *)
LEMMA IncrFaultStep ==
  ASSUME ExactInv, IncrFault("consumer")
  PROVE  Promise!Next \/ UNCHANGED Promise!vars
<1> DEFINE c == "consumer"
<1>0. PICK s \in Sensors : s = job[c]
  BY DEF ExactInv, DriftInv, TypeOK, TaskType, Workers
<1> USE <1>0
<1>1. /\ s \in Sensors /\ fault \in [Sensors -> Nat] /\ episode \in [Sensors -> Nat]
      /\ pc \in [Workers -> PCs] /\ c \in Workers /\ JobInv
  BY DEF ExactInv, DriftInv, TypeOK, TaskType, RedisType, HistoryType, Workers
<1>2. /\ pc[c] = "fault" /\ fault' = [fault EXCEPT ![s] = fault[s] + 1]
      /\ episode' = [episode EXCEPT ![s] = IF fault[s] = 0 THEN @ + 1 ELSE @]
      /\ UNCHANGED <<sent, pending, job>>
  BY DEF IncrFault
<1>3. Announced' = Announced /\ OwedPairs = {}
  BY <1>2 DEF Announced, OwedPairs
<1>4. Down' = Down \cup {s}
  <2>1. \A t \in Sensors \ {s} : fault'[t] = fault[t]
    BY <1>1, <1>2
  <2>2. fault'[s] > 0
    BY <1>1, <1>2
  <2> QED
    BY <1>1, <2>1, <2>2 DEF Down
<1>5. CASE fault[s] = 0
  <2>1. s \notin Down
    BY <1>1, <1>5 DEF Down
  <2>2. pc'[c] = "decr" /\ todo' = todo
    BY <1>1, <1>5 DEF IncrFault, FirstOfRun
  <2>3. todo[c] = Measures[s]
    BY <1>1, <1>2 DEF JobInv
  <2>4. OwedPairs' = {s} \X Measures[s]
    BY <1>2, <2>2, <2>3 DEF OwedPairs
  <2>5. episode' = [episode EXCEPT ![s] = @ + 1]
    BY <1>2, <1>5
  <2>6. Promise!GoDown(s)
    BY <1>3, <1>4, <2>1, <2>4, <2>5 DEF Promise!GoDown
  <2> QED
    BY <1>1, <2>6 DEF Promise!Next
<1>6. CASE fault[s] # 0
  <2>1. s \in Down
    BY <1>1, <1>6 DEF Down
  <2>2. episode' = episode
    BY <1>1, <1>2, <1>6
  <2>3. pc'[c] = "emit"
    BY <1>1, <1>6 DEF IncrFault, FirstOfRun, AfterTracker
  <2>4. OwedPairs' = {}
    BY <2>3 DEF OwedPairs
  <2> QED
    BY <1>3, <1>4, <2>1, <2>2, <2>4, UnseenStep
<1> QED
  BY <1>5, <1>6

(* Returning from a decrement announces its parameter.                      *)
LEMMA Announces ==
  ASSUME ExactInv, NEW p \in Parameters, NEW n \in Nat,
         pc["consumer"] \in {"decr", "clamp"}, p \in todo["consumer"],
         UNCHANGED <<fault, job, sent, episode>>,
         Decremented("consumer", p, n), n \in Promise!Left(job["consumer"], p)
  PROVE  Promise!Next
<1> DEFINE c == "consumer"
<1>0. PICK s \in Sensors : s = job[c]
  BY DEF ExactInv, DriftInv, TypeOK, TaskType, Workers
<1> USE <1>0
<1> DEFINE e == episode[s]
           q == pending[c]
           new == Added(s, p, n, e)
<1>1. /\ s \in Sensors /\ q \in Seq(Alert) /\ c \in Workers /\ pc \in [Workers -> PCs]
      /\ todo \in [Workers -> SUBSET Parameters] /\ pending \in [Workers -> Seq(Alert)]
      /\ episode \in [Sensors -> Nat] /\ begun[c] = episode[s] /\ episode[s] \in Nat
  BY DEF ExactInv, Undisturbed, DriftInv, TypeOK, TaskType, HistoryType, Workers
<1>5. /\ pending'[c] = q \o FaultAlerts(s, p, n, episode[s]) /\ todo'[c] = todo[c] \ {p}
      /\ pc'[c] = IF todo[c] = {p} THEN "emit" ELSE "decr"
  BY <1>1 DEF Decremented, Returned, AfterTracker
<1>6. <<s, p>> \in OwedPairs /\ OwedPairs' = OwedPairs \ {<<s, p>>}
  <2>1. OwedPairs = {s} \X todo[c]
    BY DEF OwedPairs
  <2>2. OwedPairs' = {s} \X (todo[c] \ {p})
    <3>1. CASE todo[c] = {p}
      BY <1>5, <3>1 DEF OwedPairs
    <3>2. CASE todo[c] # {p}
      BY <1>5, <3>2 DEF OwedPairs
    <3> QED
      BY <3>1, <3>2
  <2> QED
    BY <2>1, <2>2
<1>7. Down' = Down
  BY DEF Down
<1>8. Announced' = Announced \cup new
  <2> DEFINE f == FaultAlerts(s, p, n, e)
  <2>1. s \in Sensors /\ e \in Nat /\ n \in Nat /\ pending'[c] = q \o f
    BY <1>1, <1>5
  <2> HIDE DEF e, q
  <2>2. f \in Seq(Alert)
    BY <2>1, AlertType
  <2>3. RedundancyAlerts(f) = new
    BY <2>1, RedundancyOfFaultAlerts
  <2> HIDE DEF f, new
  <2>4. RedundancyAlerts(q \o f) = RedundancyAlerts(q) \cup RedundancyAlerts(f)
    BY <1>1, <2>2, RedundancyOfConcat
  <2> QED
    BY <2>1, <2>3, <2>4 DEF Announced, q
<1>9. Promise!Announce(s, p)
  <2> HIDE DEF new
  <2>1. UNCHANGED <<Down, episode>>
    BY <1>7
  <2>2. <<s, p>> \in OwedPairs /\ OwedPairs' = OwedPairs \ {<<s, p>>}
    BY <1>6
  <2>3. CASE n = 0
    <3>1. Announced' = Announced \cup {Promise!Announcement("malfunction", "high", s, p, 0),
                                       Promise!Announcement("priority", "high", s, p, 0)}
      BY <1>8, <2>3 DEF new, Added, MakeAlert, Promise!Announcement
    <3> QED
      BY <2>1, <2>2, <2>3, <3>1 DEF Promise!Announce
  <2>4. CASE n # 0
    <3>1. Announced' = Announced \cup {Promise!Announcement("malfunction", "low", s, p, n)}
      BY <1>8, <2>4 DEF new, Added, MakeAlert, Promise!Announcement
    <3> QED
      BY <2>1, <2>2, <2>4, <3>1 DEF Promise!Announce
  <2> QED
    BY <2>3, <2>4
<1> QED
  BY <1>1, <1>9 DEF Promise!Next

(* A decrement announces its parameter, or leaves that to the reset.        *)
LEMMA DecrStep ==
  ASSUME ExactInv, NEW p \in Parameters, Decr("consumer", p)
  PROVE  Promise!Next \/ UNCHANGED Promise!vars
<1> DEFINE c == "consumer"
           n == count[KeyOf(job[c], p)] - 1
<1>1. /\ n \in Int /\ c \in Workers /\ pc \in [Workers -> PCs]
  BY JobKey DEF ExactInv, DriftInv, TypeOK, TaskType, RedisType, Workers
<1>2. /\ pc[c] = "decr" /\ p \in todo[c] /\ UNCHANGED <<fault, job, sent, episode>>
  BY DEF Decr, runs
<1>3. CASE n < 0
  <2>1. pc'[c] = "clamp" /\ UNCHANGED <<todo, pending>>
    BY <1>1, <1>3 DEF Decr
  <2>2. Announced' = Announced /\ OwedPairs' = OwedPairs /\ Down' = Down
    BY <1>2, <2>1 DEF Announced, OwedPairs, Down
  <2> QED
    BY <1>2, <2>2, UnseenStep
<1>4. CASE n >= 0
  <2>1. n \in Nat /\ Decremented(c, p, n)
    BY <1>1, <1>4 DEF Decr
  <2>2. n \in Promise!Left(job[c], p)
    BY <1>1, <1>4, DecrReturns
  <2> QED
    BY <1>2, <2>1, <2>2, Announces
<1> QED
  BY <1>1, <1>3, <1>4

(* The reset announces a total loss, as the rule allows when it is not known
   how many sensors there are.                                              *)
LEMMA ClampStep ==
  ASSUME ExactInv, Clamp("consumer")
  PROVE  Promise!Next
<1> DEFINE c == "consumer"
           p == par[c]
<1>1. /\ p \in Parameters /\ p \in todo[c] /\ pc[c] = "clamp"
      /\ Decremented(c, p, 0) /\ UNCHANGED <<fault, job, sent, episode>>
  BY DEF Clamp, runs, ExactInv, Undisturbed, DriftInv, TypeOK, TaskType, Workers
<1>2. 0 \in Promise!Left(job[c], p)
  <2> DEFINE s == job[c]
             k == KeyOf(s, p)
  <2>1. k \in Keys /\ fault \in [Sensors -> Nat] /\ s \in Sensors
    BY <1>1, JobKey DEF ExactInv, DriftInv, TypeOK, TaskType, RedisType, Workers
  <2>2. Promise!Covering(s, p) = Up(k)
    BY <2>1 DEF Promise!Covering, Down, Up, SensorsOn, KeyOf
  <2>3. Promise!Cardinality(Promise!Covering(s, p)) \in Nat
    BY <2>1, <2>2, SameCardinality, UpFinite
  <2>4. ~Seeded
    BY <1>1 DEF ExactInv, Exactly
  <2> QED
    BY <2>3, <2>4 DEF Promise!Left
<1> QED
  BY <1>1, <1>2, Announces

(* Clearing the fault key brings a sensor back that was down.               *)
LEMMA DeleteFaultStep ==
  ASSUME ExactInv, DeleteFault
  PROVE  Promise!Next \/ UNCHANGED Promise!vars
<1> DEFINE c == "consumer"
<1>0. PICK s \in Sensors : s = job[c]
  BY DEF ExactInv, DriftInv, TypeOK, TaskType, Workers
<1> USE <1>0
<1>1. /\ s \in Sensors /\ fault \in [Sensors -> Nat] /\ pc \in [Workers -> PCs] /\ c \in Workers
  BY DEF ExactInv, DriftInv, TypeOK, TaskType, RedisType, Workers
<1>2. /\ pc[c] = "delete" /\ pc'[c] = "incr" /\ fault' = [fault EXCEPT ![s] = 0]
      /\ UNCHANGED <<sent, pending, episode>>
  BY <1>1 DEF DeleteFault, runs
<1>3. Announced' = Announced /\ OwedPairs = {} /\ OwedPairs' = {}
  BY <1>2 DEF Announced, OwedPairs
<1>4. Down' = Down \ {s}
  BY <1>1, <1>2 DEF Down
<1>5. CASE s \in Down
  <2>1. Promise!ComeBack(s)
    BY <1>2, <1>3, <1>4, <1>5 DEF Promise!ComeBack
  <2> QED
    BY <1>1, <2>1 DEF Promise!Next
<1>6. CASE s \notin Down
  BY <1>2, <1>3, <1>4, <1>6, UnseenStep
<1> QED
  BY <1>5, <1>6

LEMMA CoverageStep ==
  ASSUME ExactInv, [NextConsumer]_vars
  PROVE  Promise!Next \/ UNCHANGED Promise!vars
<1> DEFINE c == "consumer"
           q == pending[c]
<1>t. /\ TypeOK /\ JobInv /\ (pc[c] = "idle" => q = <<>>)
      /\ c \in Workers /\ q \in Seq(Alert) /\ sent \in Seq(Alert)
      /\ pc \in [Workers -> PCs] /\ pending \in [Workers -> Seq(Alert)]
  BY DEF ExactInv, DriftInv, Undisturbed, TypeOK, TaskType, HistoryType, Workers
<1>1. CASE IncrFault(c)
  BY <1>1, IncrFaultStep
<1>2. CASE \E p \in Parameters : Decr(c, p)
  BY <1>2, DecrStep
<1>3. CASE Clamp(c)
  BY <1>3, ClampStep
<1>4. ASSUME NEW a \in Areas, Fetch(a) PROVE Promise!Next \/ UNCHANGED Promise!vars
  <2>1. /\ pc[c] = "idle" /\ q = <<>> /\ pc'[c] \notin {"decr", "clamp"} /\ UNCHANGED <<fault, sent, episode>>
    BY <1>4, <1>t DEF Fetch, redis, runs
  <2>2. RedundancyAlerts(pending'[c]) = {}
    <3> DEFINE r == log[a][position[a] + 1]
    <3>1. CASE UNCHANGED pending
      BY <2>1, <3>1, NoRedundancyAlerts
    <3>2. CASE \E alerts \in ThresholdAlerts(r) : pending' = [pending EXCEPT ![c] = alerts]
      <4>1. PICK alerts \in ThresholdAlerts(r) : pending' = [pending EXCEPT ![c] = alerts]
        BY <3>2
      <4>2. pending'[c] = alerts
        BY <1>t, <4>1
      <4>3. \A p : MakeAlert("threshold", "high", r.sensor, p, 0, 0).kind = "threshold"
        BY DEF MakeAlert
      <4> HIDE DEF r
      <4>4. CASE r.breach
        <5>1. PICK p \in Measures[r.sensor] :
                 alerts = <<MakeAlert("threshold", "high", r.sensor, p, 0, 0)>>
          BY <4>1, <4>4, Zenon DEF ThresholdAlerts
        <5>2. RedundancyAlerts(<<MakeAlert("threshold", "high", r.sensor, p, 0, 0)>>) = {}
          BY <4>3, NoRedundancyAlerts
        <5> QED
          BY <4>2, <5>1, <5>2
      <4>5. CASE ~r.breach
        <5>1. alerts = <<>>
          BY <4>1, <4>5, Zenon DEF ThresholdAlerts
        <5> QED
          BY <4>2, <5>1, NoRedundancyAlerts
      <4> QED
        BY <4>4, <4>5
    <3> QED
      BY <1>4, <3>1, <3>2 DEF Fetch
  <2>3. Announced' = Announced /\ OwedPairs' = OwedPairs /\ Down' = Down
    BY <2>1, <2>2, NoRedundancyAlerts DEF Announced, OwedPairs, Down
  <2> QED
    BY <2>1, <2>3, UnseenStep
<1>5. CASE DeleteFault
  BY <1>5, DeleteFaultStep
<1>6. CASE EmitAlert
  <2>1. /\ q # <<>> /\ sent' = Append(sent, Head(q)) /\ pending'[c] = Tail(q)
        /\ UNCHANGED <<pc, fault, job, todo, episode>>
    BY <1>6, <1>t DEF EmitAlert, redis, runs
  <2>2. Head(q) \in Alert
    BY <1>t, <2>1, MarksOfTail
  <2> HIDE DEF q
  <2>3. RedundancyAlerts(sent') =
          RedundancyAlerts(sent) \cup (IF Head(q).kind # "threshold" THEN {Head(q)} ELSE {})
    BY <1>t, <2>1, <2>2, RedundancyOfAppend
  <2>4. RedundancyAlerts(q) = RedundancyAlerts(Tail(q)) \cup
           (IF Head(q).kind # "threshold" THEN {Head(q)} ELSE {})
    BY <1>t, <2>1, RedundancyOfTail
  <2>5. Announced' = Announced
    BY <2>1, <2>3, <2>4 DEF Announced, q
  <2>6. OwedPairs' = OwedPairs /\ Down' = Down
    BY <2>1 DEF OwedPairs, Down
  <2> QED
    BY <2>1, <2>5, <2>6, UnseenStep
<1>7. CASE GetFault \/ (\E p \in Parameters : IncrCount(p)) \/ SetLatest
  <2>1. /\ {pc[c], pc'[c]} \cap {"decr", "clamp"} = {}
        /\ UNCHANGED <<fault, sent, pending, episode>>
    BY <1>7, <1>t DEF GetFault, IncrCount, SetLatest, redis, runs
  <2>2. Announced' = Announced /\ OwedPairs' = OwedPairs /\ Down' = Down
    BY <2>1 DEF Announced, OwedPairs, Down
  <2> QED
    BY <2>1, <2>2, UnseenStep
<1>8. CASE Publish \/ UNCHANGED vars
  <2>1. UNCHANGED <<pc, pending, job, todo, fault, sent, episode>>
    BY <1>8 DEF Publish, Produce, locals, runs, redis, vars
  <2>2. Announced' = Announced /\ OwedPairs' = OwedPairs /\ Down' = Down
    BY <2>1 DEF Announced, OwedPairs, Down
  <2> QED
    BY <2>1, <2>2, UnseenStep
<1> QED
  BY <1>1, <1>2, <1>3, <1>4, <1>5, <1>6, <1>7, <1>8 DEF NextConsumer, ConsumerStep, Tracker

LEMMA CoverageInit == Init => Promise!Init
<1> SUFFICES ASSUME Init PROVE Promise!Init
  OBVIOUS
<1>1. Down = {} /\ OwedPairs = {}
  BY DEF Init, Down, OwedPairs, Idle, Workers
<1>2. Announced = {}
  BY NoRedundancyAlerts DEF Init, Announced, Workers
<1> QED
  BY <1>1, <1>2 DEF Init, Promise!Init

(* The consumer alone, its counters seeded or not, implements the coverage
   rule: every malfunction it announces carries the true number of sensors
   that still cover the parameter if the counters were seeded and never more
   than that if not, and the loss of the last one is always escalated.       *)
THEOREM ImplementsCoverageRules == SpecConsumer => Promise!Rules
<1>1. ExactInv /\ [NextConsumer]_vars => ExactInv'
  BY StepExact
<1>2. ExactInv /\ [NextConsumer]_vars => [Promise!Next]_(Promise!vars)
  BY CoverageStep
<1> QED
  BY InitExact, CoverageInit, <1>1, <1>2, PTL DEF SpecConsumer, Promise!Rules
=============================================================================
