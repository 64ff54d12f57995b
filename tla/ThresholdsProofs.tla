------------------------- MODULE ThresholdsProofs -------------------------
(* Theorems about threshold evaluation, for any sensors, areas, parameters,  *)
(* rules, cache lifetime and window.                                         *)
EXTENDS Thresholds, SequenceTheorems, TLAPS

-----------------------------------------------------------------------------
(* The last n elements of a sequence.                                       *)

Least(m, n) == IF m <= n THEN m ELSE n

LEMMA LeastOf ==
  ASSUME NEW m \in Nat, NEW n \in Nat
  PROVE  /\ Least(m, n) \in Nat /\ Least(m, n) <= m /\ Least(m, n) <= n
         /\ m <= n => Least(m, n) = m
         /\ n <= m => Least(m, n) = n
BY DEF Least

LEMMA LastNFacts ==
  ASSUME NEW S, NEW q \in Seq(S), NEW n \in Nat
  PROVE  /\ LastN(n, q) \in Seq(S) /\ Len(q) \in Nat
         /\ Len(LastN(n, q)) = Least(n, Len(q)) /\ Least(n, Len(q)) \in Nat
         /\ \A k \in 1 .. Least(n, Len(q)) :
              LastN(n, q)[k] = q[Len(q) - Least(n, Len(q)) + k]
<1> DEFINE from == IF Len(q) > n THEN Len(q) - n + 1 ELSE 1
<1>1. Len(q) \in Nat /\ from \in Int /\ from >= 1 /\ \A i \in 1 .. Len(q) : q[i] \in S
  BY LenProperties
<1>2. \A i \in from .. Len(q) : q[i] \in S
  BY <1>1
<1>3. LastN(n, q) = SubSeq(q, from, Len(q))
  BY DEF LastN
<1>a. Len(q) > n => from = Len(q) - n + 1 /\ Least(n, Len(q)) = n
  <2>1. Len(q) > n => n <= Len(q)
    BY <1>1
  <2> QED
    BY <1>1, <2>1, LeastOf
<1>c. ~(Len(q) > n) => from = 1 /\ Least(n, Len(q)) = Len(q)
  <2>1. ~(Len(q) > n) => Len(q) <= n
    BY <1>1
  <2> QED
    BY <1>1, <2>1, LeastOf
<1>b. Least(n, Len(q)) \in Nat /\ Len(q) - from + 1 = Least(n, Len(q))
  <2>1. CASE Len(q) > n
    BY <1>1, <1>a, <2>1
  <2>2. CASE ~(Len(q) > n)
    BY <1>1, <1>c, <2>2
  <2> QED
    BY <2>1, <2>2
<1> HIDE DEF from
<1>4. /\ LastN(n, q) \in Seq(S)
      /\ Len(LastN(n, q)) = IF from <= Len(q) THEN Len(q) - from + 1 ELSE 0
      /\ \A i \in 1 .. Len(q) - from + 1 : LastN(n, q)[i] = q[from + i - 1]
  BY <1>1, <1>2, <1>3, SubSeqProperties
<1>5. /\ Least(n, Len(q)) \in Nat
      /\ (IF from <= Len(q) THEN Len(q) - from + 1 ELSE 0) = Least(n, Len(q))
  BY <1>1, <1>b
<1>6. ASSUME NEW k \in 1 .. Least(n, Len(q))
      PROVE  LastN(n, q)[k] = q[Len(q) - Least(n, Len(q)) + k]
  <2>1. k \in 1 .. Len(q) - from + 1 /\ from + k - 1 = Len(q) - Least(n, Len(q)) + k
    BY <1>1, <1>b
  <2> QED
    BY <1>4, <2>1
<1> QED
  BY <1>1, <1>4, <1>5, <1>6

(* Of the last n of a sequence and an element, the last m, for m <= n, are
   those of the whole.                                                       *)
LEMMA LastOfLast ==
  ASSUME NEW S, NEW q \in Seq(S), NEW n \in Nat, NEW m \in Nat, m <= n
  PROVE  LastN(m, LastN(n, q)) = LastN(m, q)
<1> DEFINE r == LastN(n, q)
           a == LastN(m, r)
           b == LastN(m, q)
<1>1. /\ r \in Seq(S) /\ Len(q) \in Nat /\ Len(r) = Least(n, Len(q))
      /\ Least(n, Len(q)) \in Nat
      /\ \A k \in 1 .. Least(n, Len(q)) : r[k] = q[Len(q) - Least(n, Len(q)) + k]
  BY LastNFacts
<1>2. /\ b \in Seq(S) /\ Len(b) = Least(m, Len(q))
      /\ \A k \in 1 .. Least(m, Len(q)) : b[k] = q[Len(q) - Least(m, Len(q)) + k]
  BY LastNFacts
<1> HIDE DEF r
<1>3. /\ a \in Seq(S) /\ Len(a) = Least(m, Len(r))
      /\ \A k \in 1 .. Least(m, Len(r)) : a[k] = r[Len(r) - Least(m, Len(r)) + k]
  BY <1>1, LastNFacts
<1> HIDE DEF a, b
<1>4. /\ Least(m, Len(r)) = Least(m, Len(q)) /\ Least(m, Len(q)) \in Nat
      /\ Least(m, Len(q)) <= Least(n, Len(q)) /\ Least(n, Len(q)) <= Len(q)
  BY <1>1 DEF Least
<1>5. ASSUME NEW k \in 1 .. Least(m, Len(q)) PROVE a[k] = b[k]
  <2>1. /\ Len(r) - Least(m, Len(r)) + k \in 1 .. Least(n, Len(q))
        /\ Len(q) - Least(n, Len(q)) + (Len(r) - Least(m, Len(r)) + k)
             = Len(q) - Least(m, Len(q)) + k
    BY <1>1, <1>4
  <2> QED
    BY <1>1, <1>2, <1>3, <1>4, <2>1
<1> QED
  BY <1>2, <1>3, <1>4, <1>5, SeqEqual DEF a, b, r

(* What is kept of a history and a value is what is kept of them both.      *)
LEMMA KeptOfAppend ==
  ASSUME NEW S, NEW q \in Seq(S), NEW x \in S, NEW n \in Nat \ {0}
  PROVE  LastN(n, Append(LastN(n, q), x)) = LastN(n, Append(q, x))
<1> DEFINE r == LastN(n, q)
           u == Append(r, x)
           v == Append(q, x)
           a == LastN(n, u)
           b == LastN(n, v)
<1>1. /\ r \in Seq(S) /\ Len(q) \in Nat /\ Len(r) = Least(n, Len(q))
      /\ Least(n, Len(q)) \in Nat
      /\ \A k \in 1 .. Least(n, Len(q)) : r[k] = q[Len(q) - Least(n, Len(q)) + k]
  BY LastNFacts
<1>2. /\ v \in Seq(S) /\ Len(v) = Len(q) + 1 /\ v[Len(q) + 1] = x
      /\ \A k \in 1 .. Len(q) : v[k] = q[k]
  BY AppendProperties
<1> HIDE DEF r
<1>3. /\ u \in Seq(S) /\ Len(u) = Len(r) + 1 /\ u[Len(r) + 1] = x
      /\ \A k \in 1 .. Len(r) : u[k] = r[k]
  BY <1>1, AppendProperties
<1> HIDE DEF u, v
<1>4. /\ a \in Seq(S) /\ Len(a) = Least(n, Len(u))
      /\ \A k \in 1 .. Least(n, Len(u)) : a[k] = u[Len(u) - Least(n, Len(u)) + k]
  BY <1>3, LastNFacts
<1>5. /\ b \in Seq(S) /\ Len(b) = Least(n, Len(v))
      /\ \A k \in 1 .. Least(n, Len(v)) : b[k] = v[Len(v) - Least(n, Len(v)) + k]
  BY <1>2, LastNFacts
<1> HIDE DEF a, b
<1>6. /\ Least(n, Len(u)) = Least(n, Len(v)) /\ Least(n, Len(v)) \in Nat \ {0}
      /\ Least(n, Len(u)) <= Len(r) + 1 /\ Least(n, Len(v)) <= Len(q) + 1
      /\ Len(r) \in Nat /\ Len(r) <= Len(q) /\ Len(u) = Len(r) + 1
  BY <1>1, <1>2, <1>3 DEF Least
<1>7. ASSUME NEW k \in 1 .. Least(n, Len(v)) PROVE a[k] = b[k]
  <2> DEFINE i == Len(u) - Least(n, Len(u)) + k
             j == Len(v) - Least(n, Len(v)) + k
  <2>1. a[k] = u[i] /\ b[k] = v[j]
    BY <1>4, <1>5, <1>6
  <2>2. CASE k = Least(n, Len(v))
    <3>1. i = Len(r) + 1 /\ j = Len(q) + 1
      BY <1>1, <1>2, <1>3, <1>6, <2>2
    <3> QED
      BY <1>2, <1>3, <2>1, <3>1
  <2>3. CASE k # Least(n, Len(v))
    <3>a. i \in 1 .. Len(r)
      BY <1>1, <1>6, <2>3
    <3>b. j \in 1 .. Len(q)
      BY <1>1, <1>2, <1>6, <2>3
    <3>c. Len(q) - Least(n, Len(q)) + i = j
      BY <1>1, <1>2, <1>6, <2>3
    <3>1. i \in 1 .. Len(r) /\ j \in 1 .. Len(q) /\ Len(q) - Least(n, Len(q)) + i = j
      BY <3>a, <3>b, <3>c
    <3>2. u[i] = r[i] /\ v[j] = q[j]
      BY <1>2, <1>3, <3>1
    <3>3. r[i] = q[j]
      BY <1>1, <3>1
    <3> QED
      BY <2>1, <3>2, <3>3
  <2> QED
    BY <2>2, <2>3
<1> QED
  BY <1>4, <1>5, <1>6, <1>7, SeqEqual DEF a, b, u, v, r

LEMMA FrontOf ==
  ASSUME NEW S, NEW q \in Seq(S), q # <<>>
  PROVE  /\ Front(q) \in Seq(S) /\ Last(q) \in S
         /\ Append(Front(q), Last(q)) = q
<1>1. Len(q) \in Nat \ {0} /\ \A i \in 1 .. Len(q) : q[i] \in S
  BY EmptySeq, LenProperties
<1>2. \A i \in 1 .. Len(q) - 1 : q[i] \in S
  BY <1>1
<1>3. /\ Front(q) \in Seq(S) /\ Len(Front(q)) = Len(q) - 1
      /\ \A i \in 1 .. Len(q) - 1 : Front(q)[i] = q[i]
  <2>1. /\ SubSeq(q, 1, Len(q) - 1) \in Seq(S)
        /\ Len(SubSeq(q, 1, Len(q) - 1)) = IF 1 <= Len(q) - 1 THEN (Len(q) - 1) - 1 + 1 ELSE 0
        /\ \A i \in 1 .. (Len(q) - 1) - 1 + 1 : SubSeq(q, 1, Len(q) - 1)[i] = q[1 + i - 1]
    BY <1>1, <1>2, SubSeqProperties
  <2>2. /\ (Len(q) - 1) - 1 + 1 = Len(q) - 1
        /\ \A i \in 1 .. Len(q) - 1 : 1 + i - 1 = i
    BY <1>1
  <2>3. (IF 1 <= Len(q) - 1 THEN (Len(q) - 1) - 1 + 1 ELSE 0) = Len(q) - 1
    <3>1. CASE Len(q) = 1
      BY <3>1
    <3>2. CASE Len(q) # 1
      BY <1>1, <2>2, <3>2
    <3> QED
      BY <3>1, <3>2
  <2> QED
    BY <2>1, <2>2, <2>3 DEF Front
<1>4. Last(q) \in S /\ Last(q) = q[Len(q)]
  BY <1>1 DEF Last
<1> DEFINE c == Append(Front(q), Last(q))
<1>5. /\ c \in Seq(S) /\ Len(c) = Len(Front(q)) + 1 /\ c[Len(Front(q)) + 1] = Last(q)
      /\ \A i \in 1 .. Len(Front(q)) : c[i] = Front(q)[i]
  BY <1>3, <1>4, AppendProperties
<1> HIDE DEF c
<1>6. Len(c) = Len(q) /\ \A i \in 1 .. Len(q) : c[i] = q[i]
  <2>1. Len(Front(q)) + 1 = Len(q)
    BY <1>1, <1>3
  <2> SUFFICES ASSUME NEW i \in 1 .. Len(q) PROVE c[i] = q[i]
    BY <1>5, <2>1
  <2>2. i = Len(q) \/ i \in 1 .. Len(q) - 1
    BY <1>1
  <2> QED
    BY <1>3, <1>4, <1>5, <2>1, <2>2
<1> QED
  BY <1>3, <1>4, <1>5, <1>6, SeqEqual DEF c

-----------------------------------------------------------------------------
(* compute_trend on what the history kept of all the values consumed.       *)

LEMMA ComputeTrendType ==
  ASSUME NEW past, NEW v PROVE ComputeTrend(past, v) \in Trends
BY DEF ComputeTrend, Direction, Trends

From(all) == IF Len(all) >= TrendWindow THEN Len(all) - TrendWindow + 1 ELSE 1

LEMMA TrendOfHistory ==
  ASSUME NEW all \in Seq(Values), all # <<>>
  PROVE  ComputeTrend(Front(Kept(all)), Last(all)) = Direction(all[From(all)], Last(all))
<1> DEFINE kept == Kept(all)
           w    == LastN(TrendWindow, kept)
           m    == Least(TrendWindow, Len(all))
<1>1. /\ TrendWindow \in Nat \ {0} /\ HistoryMax \in Nat \ {0} /\ TrendWindow <= HistoryMax
      /\ Values \subseteq Nat
  BY ThresholdAssumption
<1>2. Len(all) \in Nat \ {0} /\ Last(all) = all[Len(all)] /\ Last(all) \in Values
  BY EmptySeq, FrontOf DEF Last
<1>3. /\ kept \in Seq(Values) /\ Len(kept) = Least(HistoryMax, Len(all))
      /\ \A k \in 1 .. Least(HistoryMax, Len(all)) :
           kept[k] = all[Len(all) - Least(HistoryMax, Len(all)) + k]
  BY <1>1, LastNFacts DEF Kept
<1>4. Least(HistoryMax, Len(all)) \in Nat \ {0}
  BY <1>1, <1>2 DEF Least
<1>5. kept # <<>> /\ Last(kept) = Last(all)
  <2>1. kept # <<>>
    BY <1>3, <1>4, EmptySeq
  <2>2. kept[Least(HistoryMax, Len(all))]
          = all[Len(all) - Least(HistoryMax, Len(all)) + Least(HistoryMax, Len(all))]
    BY <1>3, <1>4
  <2>3. Len(all) - Least(HistoryMax, Len(all)) + Least(HistoryMax, Len(all)) = Len(all)
    BY <1>2, <1>4
  <2> QED
    BY <1>2, <1>3, <2>1, <2>2, <2>3 DEF Last
<1>6. Append(Front(kept), Last(all)) = kept
  BY <1>3, <1>5, FrontOf
<1>7. w = LastN(TrendWindow, all)
  BY <1>1, LastOfLast DEF Kept
<1>8. /\ w \in Seq(Values) /\ Len(w) = m
      /\ \A k \in 1 .. m : w[k] = all[Len(all) - m + k]
  BY <1>1, <1>7, LastNFacts
<1>9. ComputeTrend(Front(kept), Last(all))
        = IF Len(w) < 2 THEN "stable" ELSE Direction(Head(w), Last(w))
  BY <1>6 DEF ComputeTrend
<1> HIDE DEF kept, w
<1>10. m \in Nat \ {0} /\ From(all) = Len(all) - m + 1
  <2>1. CASE Len(all) >= TrendWindow
    BY <1>1, <1>2, <2>1 DEF From, Least
  <2>2. CASE ~(Len(all) >= TrendWindow)
    BY <1>1, <1>2, <2>2 DEF From, Least
  <2> QED
    BY <2>1, <2>2
<1> HIDE DEF m
<1>11. CASE m = 1
  <2>1. From(all) = Len(all)
    BY <1>2, <1>10, <1>11
  <2>2. Direction(Last(all), Last(all)) = "stable"
    BY <1>1, <1>2 DEF Direction
  <2> QED
    BY <1>2, <1>8, <1>9, <1>11, <2>1, <2>2 DEF kept
<1>12. CASE m # 1
  <2>1. m >= 2 /\ 1 \in 1 .. m /\ m \in 1 .. m
    BY <1>10, <1>12
  <2>2. Head(w) = w[1] /\ Last(w) = w[m]
    BY <1>8 DEF Last
  <2>3. w[1] = all[From(all)]
    BY <1>8, <1>10, <2>1
  <2>4. Len(all) - m + m = Len(all)
    BY <1>2, <1>10
  <2>5. w[m] = Last(all)
    BY <1>2, <1>8, <2>1, <2>4
  <2>6. ~(Len(w) < 2)
    BY <1>8, <1>10, <2>1
  <2> QED
    BY <1>9, <2>2, <2>3, <2>5, <2>6 DEF kept
<1> QED
  BY <1>11, <1>12

-----------------------------------------------------------------------------
(* The first crossing, the severity of an alert.                            *)

LEMMA HeadOfConcat ==
  ASSUME NEW S, NEW p \in Seq(S), NEW q \in Seq(S)
  PROVE  /\ p = <<>> => p \o q = q
         /\ p # <<>> => p \o q # <<>> /\ Head(p \o q) = Head(p)
<1>1. p = <<>> => p \o q = q
  BY ConcatEmptySeq
<1>2. ASSUME p # <<>> PROVE p \o q # <<>> /\ Head(p \o q) = Head(p)
  <2>1. Len(p) \in Nat \ {0} /\ Len(q) \in Nat
    BY <1>2, EmptySeq, LenProperties
  <2>2. /\ p \o q \in Seq(S) /\ Len(p \o q) = Len(p) + Len(q)
        /\ \A i \in 1 .. Len(p) + Len(q) :
             (p \o q)[i] = IF i <= Len(p) THEN p[i] ELSE q[i - Len(p)]
    BY ConcatProperties
  <2>3. 1 \in 1 .. Len(p) + Len(q) /\ 1 <= Len(p)
    BY <2>1
  <2>4. (p \o q)[1] = p[1]
    BY <2>2, <2>3
  <2>5. Len(p \o q) # 0
    BY <2>1, <2>2
  <2>6. p \o q # <<>>
    BY <2>5, EmptySeq
  <2> QED
    BY <1>2, <2>2, <2>4, <2>6
<1> QED
  BY <1>1, <1>2

Verdict == [severity : Severities, threshold : Values]

LEMMA CheckType ==
  ASSUME NEW severity \in Severities, NEW bound, NEW crossed \in BOOLEAN,
         crossed => bound \in Values
  PROVE  /\ Check(severity, bound, crossed) \in Seq(Verdict)
         /\ crossed => /\ Check(severity, bound, crossed) # <<>>
                       /\ Head(Check(severity, bound, crossed)) \in Verdict
                       /\ Head(Check(severity, bound, crossed)).severity = severity
         /\ ~crossed => Check(severity, bound, crossed) = <<>>
<1>1. CASE crossed
  <2> DEFINE x == [severity |-> severity, threshold |-> bound]
  <2>1. x \in Verdict /\ x.severity = severity
    BY <1>1 DEF Verdict
  <2>2. Check(severity, bound, crossed) = <<x>>
    BY <1>1 DEF Check
  <2> HIDE DEF x
  <2>3. <<x>> \in Seq(Verdict) /\ <<x>> # <<>> /\ Head(<<x>>) = x
    BY <2>1
  <2> QED
    BY <1>1, <2>1, <2>2, <2>3
<1>2. CASE ~crossed
  <2>1. Check(severity, bound, crossed) = <<>>
    BY <1>2 DEF Check
  <2> QED
    BY <1>2, <2>1, EmptySeq
<1> QED
  BY <1>1, <1>2

(* The first crossing is one the value deserves, and there is one if it
   deserves any.                                                             *)
LEMMA FirstIsDeserved ==
  ASSUME NEW rule \in Rules, NEW v \in Values
  PROVE  /\ Crossings(rule, v) # <<>> <=> Deserved(rule, v) # {}
         /\ Crossings(rule, v) # <<>> =>
              /\ Head(Crossings(rule, v)) \in Verdict
              /\ Head(Crossings(rule, v)).severity \in Deserved(rule, v)
<1> DEFINE aX == Above(v, rule.critical_hi)
           bX == Above(v, rule.warning_hi)
           cX == Below(v, rule.critical_lo)
           dX == Below(v, rule.warning_lo)
           a == Check("high", rule.critical_hi, aX)
           b == Check("medium", rule.warning_hi, bX)
           c == Check("high", rule.critical_lo, cX)
           d == Check("medium", rule.warning_lo, dX)
<1>1. rule \in Rule /\ Values \subseteq Nat
  BY ThresholdAssumption
<1>2. /\ aX \in BOOLEAN /\ bX \in BOOLEAN /\ cX \in BOOLEAN /\ dX \in BOOLEAN
      /\ aX => rule.critical_hi \in Values
      /\ bX => rule.warning_hi \in Values
      /\ cX => rule.critical_lo \in Values
      /\ dX => rule.warning_lo \in Values
  BY <1>1 DEF Above, Below, Rule, Bounds
<1>3. ~(bX /\ cX /\ Sane(rule))
  <2> SUFFICES ASSUME bX, cX, Sane(rule) PROVE FALSE
    OBVIOUS
  <2>1. /\ rule.warning_hi \in Values /\ rule.critical_lo \in Values
        /\ rule.warning_hi # NoBound /\ rule.critical_lo # NoBound
        /\ v > rule.warning_hi /\ v < rule.critical_lo
    BY <1>2 DEF Above, Below
  <2>2. rule.critical_lo <= rule.warning_hi
    BY <1>1, <2>1 DEF Sane
  <2>3. v \in Nat /\ rule.warning_hi \in Nat /\ rule.critical_lo \in Nat
    BY <1>1, <2>1
  <2> QED
    BY <2>1, <2>2, <2>3
<1>4. /\ "high" \in Deserved(rule, v) <=> aX \/ cX
      /\ "medium" \in Deserved(rule, v) <=> (bX \/ dX) /\ ~((aX \/ cX) /\ Sane(rule))
      /\ Deserved(rule, v) \subseteq {"high", "medium"}
  BY DEF Deserved, Critical, Warning, Severities
<1>5. Crossings(rule, v) = ((a \o b) \o c) \o d
  BY DEF Crossings
<1> HIDE DEF aX, bX, cX, dX
<1>6. /\ a \in Seq(Verdict) /\ b \in Seq(Verdict) /\ c \in Seq(Verdict) /\ d \in Seq(Verdict)
      /\ aX => a # <<>> /\ Head(a) \in Verdict /\ Head(a).severity = "high"
      /\ bX => b # <<>> /\ Head(b) \in Verdict /\ Head(b).severity = "medium"
      /\ cX => c # <<>> /\ Head(c) \in Verdict /\ Head(c).severity = "high"
      /\ dX => d # <<>> /\ Head(d) \in Verdict /\ Head(d).severity = "medium"
      /\ (~aX => a = <<>>) /\ (~bX => b = <<>>) /\ (~cX => c = <<>>) /\ (~dX => d = <<>>)
  <2>1. "high" \in Severities /\ "medium" \in Severities
    BY DEF Severities
  <2> QED
    BY <1>2, <2>1, CheckType
<1> HIDE DEF a, b, c, d
<1>7. a \o b \in Seq(Verdict) /\ (a \o b) \o c \in Seq(Verdict)
  BY <1>6, ConcatProperties
<1>8. /\ a = <<>> => a \o b = b
      /\ a # <<>> => a \o b # <<>> /\ Head(a \o b) = Head(a)
  BY <1>6, HeadOfConcat
<1>9. /\ a \o b = <<>> => (a \o b) \o c = c
      /\ a \o b # <<>> => (a \o b) \o c # <<>> /\ Head((a \o b) \o c) = Head(a \o b)
  BY <1>6, <1>7, HeadOfConcat
<1>10. /\ (a \o b) \o c = <<>> => ((a \o b) \o c) \o d = d
       /\ (a \o b) \o c # <<>> =>
            ((a \o b) \o c) \o d # <<>> /\ Head(((a \o b) \o c) \o d) = Head((a \o b) \o c)
  BY <1>6, <1>7, HeadOfConcat
<1> DEFINE all == ((a \o b) \o c) \o d
<1>11. /\ a # <<>> => all # <<>> /\ Head(all) = Head(a)
       /\ a = <<>> /\ b # <<>> => all # <<>> /\ Head(all) = Head(b)
       /\ a = <<>> /\ b = <<>> /\ c # <<>> => all # <<>> /\ Head(all) = Head(c)
       /\ a = <<>> /\ b = <<>> /\ c = <<>> => all = d
  BY <1>8, <1>9, <1>10
<1> HIDE DEF all
<1>12. Crossings(rule, v) = all
  BY <1>5 DEF all
<1>13. CASE aX
  BY <1>4, <1>6, <1>11, <1>12, <1>13
<1>14. CASE ~aX /\ bX
  BY <1>3, <1>4, <1>6, <1>11, <1>12, <1>14
<1>15. CASE ~aX /\ ~bX /\ cX
  BY <1>4, <1>6, <1>11, <1>12, <1>15
<1>16. CASE ~aX /\ ~bX /\ ~cX
  BY <1>4, <1>6, <1>11, <1>12, <1>16
<1> QED
  BY <1>13, <1>14, <1>15, <1>16

(* What evaluate_thresholds returns: the alerts of the parameters whose value
   deserves one, each with such a severity and the trend of its history.     *)
RightAlerts(e, values, thresholds, past) ==
  /\ e \in UNION {[qs -> Alert] : qs \in SUBSET Params}
  /\ DOMAIN e \subseteq DOMAIN values
  /\ \A p \in DOMAIN e : e[p].trend = ComputeTrend(past[p], values[p])
  /\ Judges(thresholds, values, e)

LEMMA EvaluationFacts ==
  ASSUME NEW ps \in SUBSET Params, NEW values \in [ps -> Values],
         NEW thresholds \in Thresholds_, NEW past
  PROVE  RightAlerts(EvaluateThresholds(values, thresholds, past), values, thresholds, past)
<1> DEFINE e == EvaluateThresholds(values, thresholds, past)
           both == ps \cap DOMAIN thresholds
           crossings(p) == Crossings(thresholds[p], values[p])
           deserved(p) == Deserved(thresholds[p], values[p])
           hit == {p \in both : crossings(p) # <<>>}
<1>1. DOMAIN values = ps /\ \A p \in both : thresholds[p] \in Rules /\ values[p] \in Values
  BY DEF Thresholds_
<1>2. \A p \in both :
        /\ crossings(p) # <<>> <=> deserved(p) # {}
        /\ crossings(p) # <<>> => /\ Head(crossings(p)) \in Verdict
                                  /\ Head(crossings(p)).severity \in deserved(p)
  BY <1>1, FirstIsDeserved
<1>3. e = [p \in hit |-> [severity  |-> Head(crossings(p)).severity,
                          threshold |-> Head(crossings(p)).threshold,
                          trend     |-> ComputeTrend(past[p], values[p])]]
  BY <1>1 DEF EvaluateThresholds
<1> HIDE DEF e, crossings
<1>5. DOMAIN e = hit /\ hit \subseteq ps /\ hit \subseteq both
  BY <1>3
<1>6. ASSUME NEW p \in hit
      PROVE  /\ e[p] \in Alert /\ e[p].severity \in deserved(p)
             /\ e[p].trend = ComputeTrend(past[p], values[p])
  <2> DEFINE first == Head(crossings(p))
             trend == ComputeTrend(past[p], values[p])
  <2>1. first \in Verdict /\ first.severity \in deserved(p)
    BY <1>2
  <2>2. trend \in Trends
    BY ComputeTrendType
  <2>3. e[p] = [severity |-> first.severity, threshold |-> first.threshold, trend |-> trend]
    BY <1>3
  <2> HIDE DEF first, trend, deserved
  <2>4. e[p] \in Alert /\ e[p].severity \in deserved(p) /\ e[p].trend = trend
    BY <2>1, <2>2, <2>3 DEF Verdict, Alert
  <2> QED
    BY <2>1, <2>4 DEF trend
<1>7. e \in UNION {[qs -> Alert] : qs \in SUBSET Params}
  <2>1. e \in [hit -> Alert]
    BY <1>3, <1>5, <1>6
  <2>2. hit \in SUBSET Params
    BY <1>5
  <2> HIDE DEF hit
  <2> QED
    BY <2>1, <2>2
<1>8. Judges(thresholds, values, e)
  <2>1. hit = {p \in both : deserved(p) # {}}
    BY <1>2
  <2>2. \A p \in DOMAIN e : e[p].severity \in deserved(p)
    BY <1>5, <1>6
  <2> HIDE DEF hit
  <2> QED
    BY <1>1, <1>5, <2>1, <2>2 DEF Judges
<1> QED
  BY <1>1, <1>5, <1>6, <1>7, <1>8 DEF e, RightAlerts

-----------------------------------------------------------------------------
(* Evaluating a reading.                                                    *)

(* What Evaluate does to one parameter of the sensor, and to the others.    *)
LEMMA EvaluateStep ==
  ASSUME TypeOK, NEW r \in Reading, NEW thresholds \in Thresholds_, Evaluate(r, thresholds)
  PROVE  /\ history' \in [Sensors -> [Params -> Seq(Values)]]
         /\ consumed' \in [Sensors -> [Params -> Seq(Values)]]
         /\ \A s \in Sensors, p \in Params :
              \/ history'[s][p] = history[s][p] /\ consumed'[s][p] = consumed[s][p]
              \/ \E v \in Values : /\ history'[s][p] = Kept(Append(history[s][p], v))
                                   /\ consumed'[s][p] = Append(consumed[s][p], v)
         /\ \A p \in DOMAIN r.values :
              /\ history'[r.sensor][p] = Kept(Append(history[r.sensor][p], r.values[p]))
              /\ consumed'[r.sensor][p] = Append(consumed[r.sensor][p], r.values[p])
         /\ alerts' = EvaluateThresholds(r.values, thresholds,
                        [p \in DOMAIN r.values |-> Front(history'[r.sensor][p])])
<1> DEFINE s == r.sensor
           vs == r.values
           longer == [p \in Params |-> IF p \in DOMAIN vs
                                       THEN Kept(Append(history[s][p], vs[p]))
                                       ELSE history[s][p]]
           eaten == [p \in Params |-> IF p \in DOMAIN vs
                                      THEN Append(consumed[s][p], vs[p])
                                      ELSE consumed[s][p]]
<1>1. /\ history \in [Sensors -> [Params -> Seq(Values)]]
      /\ consumed \in [Sensors -> [Params -> Seq(Values)]]
      /\ HistoryMax \in Nat
  BY ThresholdAssumption DEF TypeOK, History
<1>2. /\ s \in Sensors /\ DOMAIN vs \subseteq Params
      /\ \A p \in DOMAIN vs : vs[p] \in Values
  BY DEF Reading
<1>3. /\ history' = [history EXCEPT ![s] = longer]
      /\ consumed' = [consumed EXCEPT ![s] = eaten]
      /\ alerts' = EvaluateThresholds(vs, thresholds,
                     [p \in DOMAIN vs |-> Front(longer[p])])
  BY DEF Evaluate
<1>4. ASSUME NEW p \in Params
      PROVE  longer[p] \in Seq(Values) /\ eaten[p] \in Seq(Values)
  <2>1. history[s][p] \in Seq(Values) /\ consumed[s][p] \in Seq(Values)
    BY <1>1, <1>2
  <2>2. CASE p \in DOMAIN vs
    <3>1. vs[p] \in Values
      BY <1>2, <2>2
    <3>2. /\ Append(history[s][p], vs[p]) \in Seq(Values)
          /\ Append(consumed[s][p], vs[p]) \in Seq(Values)
      BY <2>1, <3>1, AppendProperties
    <3>3. LastN(HistoryMax, Append(history[s][p], vs[p])) \in Seq(Values)
      BY <1>1, <3>2, LastNFacts
    <3> QED
      BY <2>2, <3>2, <3>3 DEF Kept
  <2>3. CASE p \notin DOMAIN vs
    BY <2>1, <2>3
  <2> QED
    BY <2>2, <2>3
<1>5. longer \in [Params -> Seq(Values)] /\ eaten \in [Params -> Seq(Values)]
  BY <1>4
<1>6. /\ \A p \in DOMAIN vs : /\ longer[p] = Kept(Append(history[s][p], vs[p]))
                              /\ eaten[p] = Append(consumed[s][p], vs[p])
      /\ \A p \in Params \ DOMAIN vs :
           longer[p] = history[s][p] /\ eaten[p] = consumed[s][p]
  BY <1>2
<1> HIDE DEF longer, eaten, s, vs
<1>7. /\ history' \in [Sensors -> [Params -> Seq(Values)]]
      /\ consumed' \in [Sensors -> [Params -> Seq(Values)]]
      /\ history'[s] = longer /\ consumed'[s] = eaten
      /\ \A t \in Sensors \ {s} : history'[t] = history[t] /\ consumed'[t] = consumed[t]
  BY <1>1, <1>2, <1>3, <1>5
<1>8. \A t \in Sensors, p \in Params :
        \/ history'[t][p] = history[t][p] /\ consumed'[t][p] = consumed[t][p]
        \/ \E v \in Values : /\ history'[t][p] = Kept(Append(history[t][p], v))
                             /\ consumed'[t][p] = Append(consumed[t][p], v)
  <2> SUFFICES ASSUME NEW t \in Sensors, NEW p \in Params
               PROVE  \/ history'[t][p] = history[t][p] /\ consumed'[t][p] = consumed[t][p]
                      \/ \E v \in Values : /\ history'[t][p] = Kept(Append(history[t][p], v))
                                           /\ consumed'[t][p] = Append(consumed[t][p], v)
    OBVIOUS
  <2>1. CASE t # s
    BY <1>7, <2>1
  <2>2. CASE t = s /\ p \notin DOMAIN vs
    BY <1>6, <1>7, <2>2
  <2>3. CASE t = s /\ p \in DOMAIN vs
    <3>1. vs[p] \in Values
      BY <1>2, <2>3
    <3>2. /\ history'[t][p] = Kept(Append(history[t][p], vs[p]))
          /\ consumed'[t][p] = Append(consumed[t][p], vs[p])
      BY <1>6, <1>7, <2>3
    <3> QED
      BY <3>1, <3>2
  <2> QED
    BY <2>1, <2>2, <2>3
<1>9. [p \in DOMAIN vs |-> Front(longer[p])] = [p \in DOMAIN vs |-> Front(history'[s][p])]
  BY <1>7
<1> QED
  BY <1>3, <1>6, <1>7, <1>8, <1>9 DEF s, vs

LEMMA EvaluateType ==
  ASSUME TypeOK, NEW r \in Reading, NEW thresholds \in Thresholds_, Evaluate(r, thresholds)
  PROVE  /\ history' \in History /\ consumed' \in History
         /\ \A s \in Sensors, p \in Params : Len(history'[s][p]) <= HistoryMax
         /\ alerts' \in UNION {[ps -> Alert] : ps \in SUBSET Params}
<1>1. /\ HistoryMax \in Nat /\ history \in [Sensors -> [Params -> Seq(Values)]]
      /\ \A s \in Sensors, p \in Params : Len(history[s][p]) <= HistoryMax
  BY ThresholdAssumption DEF TypeOK, History
<1>2. history' \in History /\ consumed' \in History
  BY EvaluateStep DEF History
<1>3. ASSUME NEW s \in Sensors, NEW p \in Params PROVE Len(history'[s][p]) <= HistoryMax
  <2>1. CASE history'[s][p] = history[s][p]
    BY <1>1, <2>1
  <2>2. CASE \E v \in Values : history'[s][p] = Kept(Append(history[s][p], v))
    <3>1. PICK v \in Values : history'[s][p] = Kept(Append(history[s][p], v))
      BY <2>2
    <3> DEFINE q == Append(history[s][p], v)
    <3>2. q \in Seq(Values)
      BY <1>1, AppendProperties
    <3> HIDE DEF q
    <3>3. Len(LastN(HistoryMax, q)) = Least(HistoryMax, Len(q)) /\ Len(q) \in Nat
      BY <1>1, <3>2, LastNFacts
    <3>4. Least(HistoryMax, Len(q)) <= HistoryMax
      BY <1>1, <3>3, LeastOf
    <3> QED
      BY <3>1, <3>3, <3>4 DEF Kept, q
  <2> QED
    BY <2>1, <2>2, EvaluateStep
<1>4. PICK ps \in SUBSET Params : r.values \in [ps -> Values]
  BY DEF Reading
<1>5. alerts' \in UNION {[qs -> Alert] : qs \in SUBSET Params}
  <2> DEFINE past == [p \in DOMAIN r.values |-> Front(history'[r.sensor][p])]
  <2>1. alerts' = EvaluateThresholds(r.values, thresholds, past)
    BY EvaluateStep
  <2> HIDE DEF past
  <2> QED
    BY <1>4, <2>1, EvaluationFacts DEF RightAlerts
<1> QED
  BY <1>2, <1>3, <1>5

-----------------------------------------------------------------------------
(* Type correctness.                                                        *)

LEMMA NoRulesType == /\ NoRules \in Thresholds_
                     /\ [p \in {} |-> NoRules] \in UNION {[ps -> Alert] : ps \in SUBSET Params}
<1>1. NoRules \in [{} -> Rules] /\ [p \in {} |-> NoRules] \in [{} -> Alert]
  BY DEF NoRules
<1>2. {} \in SUBSET Params
  OBVIOUS
<1> QED
  BY <1>1, <1>2 DEF Thresholds_

LEMMA InitType == Init => TypeOK
<1> SUFFICES ASSUME Init PROVE TypeOK
  OBVIOUS
<1>1. /\ TTL \in Nat /\ MaxDelay \in Nat /\ MaxChanges \in Nat /\ MaxFaults \in Nat
      /\ HistoryMax \in Nat
  BY ThresholdAssumption
<1>2. <<>> \in Seq(Values) /\ Len(<<>>) = 0
  BY EmptySeq
<1>3. Expired \in [thresholds : Thresholds_, left : 0 .. TTL]
  BY <1>1, NoRulesType DEF Expired
<1>4. rules \in [Areas -> Thresholds_] /\ cache \in [Areas -> [thresholds : Thresholds_, left : 0 .. TTL]]
  BY <1>3, NoRulesType DEF Init
<1>5. /\ history \in History /\ consumed \in History
      /\ \A s \in Sensors, p \in Params : Len(history[s][p]) <= HistoryMax
  BY <1>1, <1>2 DEF Init, History
<1>6. /\ consumer \in {"idle", "waiting", "resuming"} /\ reading \in Reading
      /\ answer \in Thresholds_ /\ delay \in 0 .. MaxDelay
      /\ changes \in 0 .. MaxChanges /\ faults \in 0 .. MaxFaults
  BY <1>1, NoRulesType DEF Init
<1>8. alerts \in UNION {[ps -> Alert] : ps \in SUBSET Params}
  <2>1. alerts = [p \in {} |-> NoRules]
    BY DEF Init
  <2> QED
    BY <2>1, NoRulesType
<1>7. recent \in [Areas -> SUBSET [thresholds : Thresholds_, age : 0 .. Memory]]
  BY DEF Init
<1> QED
  BY <1>4, <1>5, <1>6, <1>7, <1>8 DEF TypeOK

LEMMA AreaOfReading == ASSUME NEW r \in Reading PROVE r.sensor \in Sensors /\ AreaOf[r.sensor] \in Areas
BY ThresholdAssumption DEF Reading

Gone == [thresholds : Thresholds_, age : 0 .. Memory]

LEMMA UpsertType ==
  ASSUME TypeOK, NEW a \in Areas, NEW p \in Params, NEW rule \in Rules, Upsert(a, p, rule)
  PROVE  TypeOK'
<1>1. /\ rules \in [Areas -> Thresholds_] /\ recent \in [Areas -> SUBSET Gone]
      /\ Memory \in Nat /\ MaxChanges \in Nat
  BY ThresholdAssumption DEF TypeOK, Memory, Gone
<1>2. rules' \in [Areas -> Thresholds_]
  <2> DEFINE t == [q \in DOMAIN rules[a] \cup {p} |-> IF q = p THEN rule ELSE rules[a][q]]
  <2>1. PICK ps \in SUBSET Params : rules[a] \in [ps -> Rules]
    BY <1>1 DEF Thresholds_
  <2>2. t \in [ps \cup {p} -> Rules] /\ ps \cup {p} \in SUBSET Params
    BY <2>1
  <2>3. t \in Thresholds_
    BY <2>2 DEF Thresholds_
  <2>4. rules' = [rules EXCEPT ![a] = t]
    BY DEF Upsert
  <2> HIDE DEF t
  <2> QED
    BY <1>1, <2>3, <2>4
<1>3. recent' \in [Areas -> SUBSET Gone]
  <2>1. [thresholds |-> rules[a], age |-> 0] \in Gone
    BY <1>1 DEF Gone
  <2>2. recent' = [recent EXCEPT ![a] = @ \cup {[thresholds |-> rules[a], age |-> 0]}]
    BY DEF Upsert
  <2> QED
    BY <1>1, <2>1, <2>2
<1>4. changes' \in 0 .. MaxChanges
  BY <1>1 DEF TypeOK, Upsert
<1> QED
  BY <1>2, <1>3, <1>4 DEF TypeOK, Upsert, engine, Gone

LEMMA ProcessType ==
  ASSUME TypeOK, NEW r \in Reading, Process(r)
  PROVE  TypeOK'
<1> DEFINE a == AreaOf[r.sensor]
<1>1. cache[a].thresholds \in Thresholds_
  BY AreaOfReading DEF TypeOK
<1>2. CASE Fresh(cache[a])
  <2>1. Evaluate(r, cache[a].thresholds) /\ UNCHANGED consumer
    BY <1>2 DEF Process
  <2>2. /\ history' \in History /\ consumed' \in History
        /\ \A s \in Sensors, p \in Params : Len(history'[s][p]) <= HistoryMax
        /\ alerts' \in UNION {[ps -> Alert] : ps \in SUBSET Params}
    BY <1>1, <2>1, EvaluateType
  <2> QED
    BY <2>1, <2>2 DEF TypeOK, Process
<1>3. CASE ~Fresh(cache[a])
  BY <1>3 DEF TypeOK, Process
<1> QED
  BY <1>2, <1>3

LEMMA FetchType == TypeOK /\ (Answer \/ FetchError) => TypeOK'
<1> SUFFICES ASSUME TypeOK, Answer \/ FetchError PROVE TypeOK'
  OBVIOUS
<1>1. /\ rules \in [Areas -> Thresholds_] /\ recent \in [Areas -> SUBSET Gone]
      /\ MaxDelay \in Nat /\ Memory \in Nat /\ MaxFaults \in Nat /\ NoRules \in Thresholds_
      /\ AreaOf[reading.sensor] \in Areas
  BY ThresholdAssumption, NoRulesType, AreaOfReading DEF TypeOK, Memory, Gone
<1>2. answer' \in Thresholds_ /\ delay' \in 0 .. MaxDelay /\ consumer' = "resuming"
  BY <1>1 DEF Answer, FetchError
<1>3. recent' \in [Areas -> SUBSET Gone]
  <2>1. [thresholds |-> NoRules, age |-> 0] \in Gone
    BY <1>1 DEF Gone
  <2> QED
    BY <1>1, <2>1 DEF Answer, FetchError
<1>4. faults' \in 0 .. MaxFaults
  BY <1>1 DEF TypeOK, Answer, FetchError, Fault
<1> QED
  BY <1>2, <1>3, <1>4 DEF TypeOK, Answer, FetchError, Gone

LEMMA ResumeType == TypeOK /\ Resume => TypeOK'
<1> SUFFICES ASSUME TypeOK, Resume PROVE TypeOK'
  OBVIOUS
<1>1. /\ answer \in Thresholds_ /\ reading \in Reading /\ TTL \in Nat /\ MaxDelay \in Nat
      /\ NoRules \in Thresholds_ /\ AreaOf[reading.sensor] \in Areas
  BY ThresholdAssumption, NoRulesType, AreaOfReading DEF TypeOK
<1>2. /\ history' \in History /\ consumed' \in History
      /\ \A s \in Sensors, p \in Params : Len(history'[s][p]) <= HistoryMax
      /\ alerts' \in UNION {[ps -> Alert] : ps \in SUBSET Params}
  BY <1>1, EvaluateType DEF Resume
<1>3. Stored(answer) \in [thresholds : Thresholds_, left : 0 .. TTL]
  BY <1>1 DEF Stored
<1>4. cache' \in [Areas -> [thresholds : Thresholds_, left : 0 .. TTL]]
  BY <1>3 DEF TypeOK, Resume
<1> QED
  BY <1>1, <1>2, <1>4 DEF TypeOK, Resume

LEMMA RestartType == TypeOK /\ Restart => TypeOK'
<1> SUFFICES ASSUME TypeOK, Restart PROVE TypeOK'
  OBVIOUS
<1>1. /\ TTL \in Nat /\ MaxDelay \in Nat /\ MaxFaults \in Nat /\ HistoryMax \in Nat
      /\ NoRules \in Thresholds_ /\ <<>> \in Seq(Values) /\ Len(<<>>) = 0
  BY ThresholdAssumption, NoRulesType, EmptySeq
<1>2. Expired \in [thresholds : Thresholds_, left : 0 .. TTL]
  BY <1>1 DEF Expired
<1>3. cache' \in [Areas -> [thresholds : Thresholds_, left : 0 .. TTL]]
  BY <1>2 DEF Restart
<1>4. /\ history' \in History /\ consumed' \in History
      /\ \A s \in Sensors, p \in Params : Len(history'[s][p]) <= HistoryMax
  BY <1>1 DEF Restart, History
<1>5. alerts' \in UNION {[ps -> Alert] : ps \in SUBSET Params}
  <2>1. alerts' = [p \in {} |-> NoRules]
    BY DEF Restart
  <2> QED
    BY <2>1, NoRulesType
<1>6. faults' \in 0 .. MaxFaults /\ consumer' = "idle" /\ answer' = NoRules /\ delay' = 0
  BY <1>1 DEF TypeOK, Restart, Fault
<1>7. /\ rules' \in [Areas -> Thresholds_] /\ reading' \in Reading
      /\ recent' \in [Areas -> SUBSET [thresholds : Thresholds_, age : 0 .. Memory]]
      /\ changes' \in 0 .. MaxChanges
  BY DEF TypeOK, Restart
<1>8. /\ consumer' \in {"idle", "waiting", "resuming"}
      /\ answer' \in Thresholds_ /\ delay' \in 0 .. MaxDelay
  BY <1>1, <1>6
<1> QED
  BY <1>3, <1>4, <1>5, <1>6, <1>7, <1>8 DEF TypeOK

LEMMA TickType == TypeOK /\ Tick => TypeOK'
<1> SUFFICES ASSUME TypeOK, Tick PROVE TypeOK'
  OBVIOUS
<1>1. /\ cache \in [Areas -> [thresholds : Thresholds_, left : 0 .. TTL]]
      /\ recent \in [Areas -> SUBSET Gone] /\ delay \in 0 .. MaxDelay
      /\ TTL \in Nat /\ MaxDelay \in Nat /\ Memory \in Nat
  BY ThresholdAssumption DEF TypeOK, Memory, Gone
<1>2. cache' \in [Areas -> [thresholds : Thresholds_, left : 0 .. TTL]]
  <2>1. ASSUME NEW e \in [thresholds : Thresholds_, left : 0 .. TTL]
        PROVE  Aged(e) \in [thresholds : Thresholds_, left : 0 .. TTL]
    <3>1. (IF e.left > 0 THEN e.left - 1 ELSE 0) \in 0 .. TTL
      BY <1>1
    <3> QED
      BY <3>1 DEF Aged
  <2> QED
    BY <1>1, <2>1 DEF Tick
<1>3. recent' \in [Areas -> SUBSET Gone]
  <2>1. ASSUME NEW r \in Gone, r.age < Memory PROVE [r EXCEPT !.age = @ + 1] \in Gone
    BY <1>1, <2>1 DEF Gone
  <2>2. ASSUME NEW a \in Areas
        PROVE  {[r EXCEPT !.age = @ + 1] : r \in {q \in recent[a] : q.age < Memory}} \subseteq Gone
    BY <1>1, <2>1
  <2> QED
    BY <2>2 DEF Tick
<1>4. delay' \in 0 .. MaxDelay
  BY <1>1 DEF Tick
<1> QED
  BY <1>2, <1>3, <1>4 DEF TypeOK, Tick, Gone

LEMMA StepType == TypeOK /\ [Next]_vars => TypeOK'
<1> SUFFICES ASSUME TypeOK, [Next]_vars PROVE TypeOK'
  OBVIOUS
<1>1. CASE \E a \in Areas, p \in Params, rule \in Rules : Upsert(a, p, rule)
  BY <1>1, UpsertType
<1>2. CASE \E r \in Reading : Process(r)
  BY <1>2, ProcessType
<1>3. CASE Answer \/ FetchError
  BY <1>3, FetchType
<1>4. CASE Resume
  BY <1>4, ResumeType
<1>5. CASE Restart
  BY <1>5, RestartType
<1>6. CASE Tick
  BY <1>6, TickType
<1>7. CASE UNCHANGED vars
  BY <1>7 DEF TypeOK, vars, engine
<1> QED
  BY <1>1, <1>2, <1>3, <1>4, <1>5, <1>6, <1>7 DEF Next

(* The variables keep their types; no history outgrows _HISTORY_MAX, and an
   alert always carries a bound, a severity and a trend the dashboard knows. *)
THEOREM TypeCorrect == Spec => []TypeOK
<1> QED
  BY InitType, StepType, PTL DEF Spec

-----------------------------------------------------------------------------
(* The trend: of every sensor and parameter the history is the end of what
   this process has consumed, and the alerts of the last reading were
   annotated from it.                                                        *)

HistoryIsTail ==
  \A s \in Sensors, p \in Params : history[s][p] = Kept(consumed[s][p])

AlertsConsumed ==
  consumer = "idle" =>
    DOMAIN alerts \subseteq {p \in Params : consumed[reading.sensor][p] # <<>>}

Trended == HistoryIsTail /\ AlertsConsumed /\ TrendOverWindow

LEMMA NothingKept == Kept(<<>>) = <<>>
<1>1. HistoryMax \in Nat /\ Len(<<>>) = 0
  BY ThresholdAssumption
<1>2. Kept(<<>>) = SubSeq(<<>>, 1, 0)
  BY <1>1 DEF Kept, LastN
<1> QED
  BY <1>2, SubSeqEmpty

LEMMA EvaluateTail ==
  ASSUME TypeOK, HistoryIsTail, NEW r \in Reading, NEW thresholds \in Thresholds_,
         Evaluate(r, thresholds)
  PROVE  HistoryIsTail'
<1> SUFFICES ASSUME NEW s \in Sensors, NEW p \in Params
             PROVE  history'[s][p] = Kept(consumed'[s][p])
  BY DEF HistoryIsTail
<1>1. /\ consumed[s][p] \in Seq(Values) /\ HistoryMax \in Nat \ {0}
      /\ history[s][p] = Kept(consumed[s][p])
  BY ThresholdAssumption DEF TypeOK, History, HistoryIsTail
<1>2. CASE history'[s][p] = history[s][p] /\ consumed'[s][p] = consumed[s][p]
  BY <1>1, <1>2
<1>3. CASE \E v \in Values : /\ history'[s][p] = Kept(Append(history[s][p], v))
                             /\ consumed'[s][p] = Append(consumed[s][p], v)
  <2>1. PICK v \in Values : /\ history'[s][p] = Kept(Append(history[s][p], v))
                            /\ consumed'[s][p] = Append(consumed[s][p], v)
    BY <1>3
  <2>2. Kept(Append(Kept(consumed[s][p]), v)) = Kept(Append(consumed[s][p], v))
    BY <1>1, KeptOfAppend DEF Kept
  <2> QED
    BY <1>1, <2>1, <2>2
<1> QED
  BY <1>2, <1>3, EvaluateStep

LEMMA EvaluateTrend ==
  ASSUME TypeOK, HistoryIsTail, NEW r \in Reading, NEW thresholds \in Thresholds_,
         Evaluate(r, thresholds), reading' = r
  PROVE  AlertsConsumed' /\ TrendOverWindow'
<1> DEFINE s == r.sensor
           past == [p \in DOMAIN r.values |-> Front(history'[s][p])]
           e == EvaluateThresholds(r.values, thresholds, past)
<1>1. PICK ps \in SUBSET Params : r.values \in [ps -> Values]
  BY DEF Reading
<1>2. s \in Sensors /\ DOMAIN r.values = ps
  BY <1>1, AreaOfReading
<1>3. /\ alerts' = e
      /\ \A p \in ps : consumed'[s][p] = Append(consumed[s][p], r.values[p])
  BY <1>2, EvaluateStep
<1>4. HistoryIsTail'
  BY EvaluateTail
<1>5. /\ DOMAIN e \subseteq ps
      /\ \A p \in DOMAIN e : e[p].trend = ComputeTrend(past[p], r.values[p])
  <2> HIDE DEF past
  <2>1. RightAlerts(e, r.values, thresholds, past)
    BY <1>1, EvaluationFacts
  <2> HIDE DEF e
  <2> QED
    BY <1>2, <2>1 DEF RightAlerts
<1> HIDE DEF e
<1>6. ASSUME NEW p \in DOMAIN e
      PROVE  LET all == consumed'[s][p]
             IN  /\ p \in Params /\ all # <<>>
                 /\ e[p].trend = Direction(all[From(all)], Last(all))
  <2> DEFINE all == consumed'[s][p]
             v == r.values[p]
  <2>1. p \in ps /\ p \in Params /\ v \in Values /\ consumed[s][p] \in Seq(Values)
    BY <1>1, <1>2, <1>5 DEF TypeOK, History
  <2>2. all = Append(consumed[s][p], v)
    BY <1>3, <2>1
  <2>3. /\ all \in Seq(Values) /\ all # <<>> /\ Len(consumed[s][p]) \in Nat
        /\ Len(all) = Len(consumed[s][p]) + 1 /\ all[Len(consumed[s][p]) + 1] = v
    <3>1. Len(consumed[s][p]) \in Nat
      BY <2>1, LenProperties
    <3> HIDE DEF all, v, s, past
    <3>2. PICK q \in Seq(Values), x \in Values : q = consumed[s][p] /\ x = v
      BY <2>1
    <3>3. /\ Append(q, x) \in Seq(Values) /\ Append(q, x) # <<>>
          /\ Len(Append(q, x)) = Len(q) + 1 /\ Append(q, x)[Len(q) + 1] = x
      BY AppendProperties
    <3> QED
      BY <2>2, <3>1, <3>2, <3>3
  <2>4. Last(all) = v
    BY <2>3 DEF Last
  <2>5. past[p] = Front(Kept(all))
    BY <1>2, <1>4, <2>1 DEF HistoryIsTail
  <2>6. e[p].trend = ComputeTrend(Front(Kept(all)), Last(all))
    BY <1>5, <2>4, <2>5
  <2> HIDE DEF all
  <2>7. ComputeTrend(Front(Kept(all)), Last(all)) = Direction(all[From(all)], Last(all))
    BY <2>3, TrendOfHistory
  <2> QED
    BY <2>1, <2>3, <2>6, <2>7 DEF all
<1> HIDE DEF s, past
<1>7. reading'.sensor = s
  BY DEF s
<1>8. AlertsConsumed'
  BY <1>3, <1>6, <1>7 DEF AlertsConsumed
<1>9. TrendOverWindow'
  BY <1>3, <1>6, <1>7 DEF TrendOverWindow, From
<1> QED
  BY <1>8, <1>9

LEMMA InitTrended == Init => Trended
<1> SUFFICES ASSUME Init PROVE Trended
  OBVIOUS
<1>1. HistoryIsTail
  BY NothingKept DEF Init, HistoryIsTail
<1>2. DOMAIN alerts = {}
  BY DEF Init
<1> QED
  BY <1>1, <1>2 DEF Trended, AlertsConsumed, TrendOverWindow

LEMMA StepTrended == TypeOK /\ Trended /\ [Next]_vars => Trended'
<1> SUFFICES ASSUME TypeOK, Trended, [Next]_vars PROVE Trended'
  OBVIOUS
<1>1. CASE UNCHANGED <<consumer, reading, history, consumed, alerts>>
  BY <1>1 DEF Trended, HistoryIsTail, AlertsConsumed, TrendOverWindow
<1>2. ASSUME NEW r \in Reading, Process(r) PROVE Trended'
  <2> DEFINE a == AreaOf[r.sensor]
  <2>1. CASE Fresh(cache[a])
    <3>1. cache[a].thresholds \in Thresholds_
      BY AreaOfReading DEF TypeOK
    <3>2. Evaluate(r, cache[a].thresholds) /\ reading' = r
      BY <1>2, <2>1 DEF Process
    <3> QED
      BY <3>1, <3>2, EvaluateTail, EvaluateTrend DEF Trended
  <2>2. CASE ~Fresh(cache[a])
    <3>1. consumer' = "waiting" /\ UNCHANGED <<history, consumed>>
      BY <1>2, <2>2 DEF Process
    <3> QED
      BY <3>1 DEF Trended, HistoryIsTail, AlertsConsumed, TrendOverWindow
  <2> QED
    BY <2>1, <2>2
<1>3. CASE Answer \/ FetchError
  <2>1. consumer' = "resuming" /\ UNCHANGED <<history, consumed>>
    BY <1>3 DEF Answer, FetchError
  <2> QED
    BY <2>1 DEF Trended, HistoryIsTail, AlertsConsumed, TrendOverWindow
<1>4. CASE Resume
  <2>1. /\ Evaluate(reading, answer) /\ reading' = reading
        /\ reading \in Reading /\ answer \in Thresholds_
    BY <1>4 DEF TypeOK, Resume
  <2> QED
    BY <2>1, EvaluateTail, EvaluateTrend DEF Trended
<1>5. CASE Restart
  <2>1. /\ DOMAIN alerts' = {}
        /\ \A s \in Sensors, p \in Params : history'[s][p] = <<>> /\ consumed'[s][p] = <<>>
    BY <1>5 DEF Restart
  <2> QED
    BY <2>1, NothingKept DEF Trended, HistoryIsTail, AlertsConsumed, TrendOverWindow
<1> QED
  BY <1>1, <1>2, <1>3, <1>4, <1>5 DEF Next, Upsert, Tick, vars, engine

(* Whatever was cached, fetched or lost meanwhile, an alert's trend compares
   its value with the one _TREND_WINDOW - 1 readings of that sensor and
   parameter earlier.                                                        *)
THEOREM TrendOverWindowAlways == Spec => []TrendOverWindow
<1>1. TypeOK /\ Trended /\ [Next]_vars => TypeOK' /\ Trended'
  BY StepType, StepTrended
<1>2. Trended => TrendOverWindow
  BY DEF Trended
<1> QED
  BY InitType, InitTrended, <1>1, <1>2, PTL DEF Spec

-----------------------------------------------------------------------------
(* Which rules a reading is judged by.                                      *)

(* What a lookup returned no more than age ticks ago.                       *)
Remembered(a, thresholds, age) ==
  \/ rules[a] = thresholds
  \/ \E r \in recent[a] : r.thresholds = thresholds /\ r.age <= age

(* An entry was in force when it was stored, or an answer's delay before
   that; an answer the consumer has not resumed with yet, its delay ago.     *)
Known ==
  /\ \A a \in Areas : cache[a].left > 0 =>
       Remembered(a, cache[a].thresholds, Memory - cache[a].left)
  /\ consumer = "resuming" => Remembered(AreaOf[reading.sensor], answer, delay)

(* The lifetimes are naturals, and what is in force now is remembered.      *)
LEMMA Clocks ==
  ASSUME TypeOK
  PROVE  /\ TTL \in Nat \ {0} /\ MaxDelay \in Nat /\ Memory \in Nat
         /\ Memory = TTL + MaxDelay /\ delay \in 0 .. MaxDelay
         /\ \A a \in Areas : cache[a].left \in 0 .. TTL
         /\ \A a \in Areas : \A r \in recent[a] : r \in Gone /\ r.age \in 0 .. Memory
         /\ AreaOf[reading.sensor] \in Areas
BY ThresholdAssumption, AreaOfReading DEF TypeOK, Memory, Gone

LEMMA InitKnown == Init => Known
<1> SUFFICES ASSUME Init PROVE Known
  OBVIOUS
<1>1. \A a \in Areas : cache[a] = Expired
  BY DEF Init
<1> QED
  BY <1>1 DEF Known, Init, Expired

(* Remembered and Known in the next state.                                  *)
RememberedNext(a, thresholds, age) ==
  \/ rules'[a] = thresholds
  \/ \E r \in recent'[a] : r.thresholds = thresholds /\ r.age <= age

LEMMA KnownNext ==
  ASSUME \A a \in Areas : cache'[a].left > 0 =>
           RememberedNext(a, cache'[a].thresholds, Memory - cache'[a].left),
         consumer' = "resuming" => RememberedNext(AreaOf[reading'.sensor], answer', delay')
  PROVE  Known'
BY DEF Known, Remembered, RememberedNext

LEMMA StaysRemembered ==
  ASSUME TypeOK, NEW a \in Areas, NEW t, NEW age \in Nat, Remembered(a, t, age),
         NEW b \in Areas, NEW gone \in Gone, gone.age = 0,
         recent' = [recent EXCEPT ![b] = @ \cup {gone}],
         rules'[a] # rules[a] => a = b /\ gone.thresholds = rules[a]
  PROVE  RememberedNext(a, t, age)
<1>1. recent \in [Areas -> SUBSET Gone]
  BY DEF TypeOK, Gone
<1>2. recent[a] \subseteq recent'[a] /\ gone \in recent'[b]
  BY <1>1
<1>3. gone.age <= age
  OBVIOUS
<1> QED
  BY <1>2, <1>3 DEF Remembered, RememberedNext

LEMMA UpsertKnown ==
  ASSUME TypeOK, Known, NEW a \in Areas, NEW p \in Params, NEW rule \in Rules, Upsert(a, p, rule)
  PROVE  Known'
<1> DEFINE gone == [thresholds |-> rules[a], age |-> 0]
<1>1. /\ gone \in Gone /\ gone.age = 0 /\ gone.thresholds = rules[a]
  BY Clocks DEF TypeOK, Gone
<1>2. /\ recent' = [recent EXCEPT ![a] = @ \cup {gone}]
      /\ \A c \in Areas : rules'[c] # rules[c] => c = a
      /\ UNCHANGED <<cache, consumer, reading, answer, delay>>
  BY DEF Upsert, engine, TypeOK
<1> HIDE DEF gone
<1>3. ASSUME NEW c \in Areas, NEW t, NEW age \in Nat, Remembered(c, t, age)
      PROVE  RememberedNext(c, t, age)
  <2>1. rules'[c] # rules[c] => c = a /\ gone.thresholds = rules[c]
    BY <1>1, <1>2
  <2> QED
    BY <1>1, <1>2, <1>3, <2>1, StaysRemembered
<1>4. ASSUME NEW c \in Areas, cache'[c].left > 0
      PROVE  RememberedNext(c, cache'[c].thresholds, Memory - cache'[c].left)
  <2>1. /\ Memory - cache[c].left \in Nat
        /\ Remembered(c, cache[c].thresholds, Memory - cache[c].left)
    BY <1>2, <1>4, Clocks DEF Known
  <2> QED
    BY <1>2, <1>3, <2>1
<1>5. ASSUME consumer' = "resuming"
      PROVE  RememberedNext(AreaOf[reading'.sensor], answer', delay')
  <2>1. /\ AreaOf[reading.sensor] \in Areas /\ delay \in Nat
        /\ Remembered(AreaOf[reading.sensor], answer, delay)
    BY <1>2, <1>5, Clocks DEF Known
  <2> QED
    BY <1>2, <1>3, <2>1
<1> QED
  BY <1>4, <1>5, KnownNext

LEMMA AnswerKnown ==
  ASSUME TypeOK, Known, Answer \/ FetchError
  PROVE  Known'
<1> DEFINE b == AreaOf[reading.sensor]
           gone == [thresholds |-> NoRules, age |-> 0]
<1>1. /\ b \in Areas /\ gone \in Gone /\ gone.age = 0 /\ gone.thresholds = NoRules
      /\ recent \in [Areas -> SUBSET Gone]
  BY Clocks, NoRulesType DEF Gone, TypeOK
<1>2. UNCHANGED <<rules, cache, reading>> /\ delay' = 0
  BY DEF Answer, FetchError
<1>3. \/ UNCHANGED recent /\ answer' = rules[b]
      \/ recent' = [recent EXCEPT ![b] = @ \cup {gone}] /\ answer' = NoRules
  BY DEF Answer, FetchError
<1> HIDE DEF gone, b
<1>4. ASSUME NEW c \in Areas, NEW t, NEW age \in Nat, Remembered(c, t, age)
      PROVE  RememberedNext(c, t, age)
  <2>1. CASE UNCHANGED recent
    BY <1>2, <1>4, <2>1 DEF Remembered, RememberedNext
  <2>2. CASE recent' = [recent EXCEPT ![b] = @ \cup {gone}]
    BY <1>1, <1>2, <1>4, <2>2, StaysRemembered
  <2> QED
    BY <1>3, <2>1, <2>2
<1>5. ASSUME NEW c \in Areas, cache'[c].left > 0
      PROVE  RememberedNext(c, cache'[c].thresholds, Memory - cache'[c].left)
  <2>1. /\ Memory - cache[c].left \in Nat
        /\ Remembered(c, cache[c].thresholds, Memory - cache[c].left)
    BY <1>2, <1>5, Clocks DEF Known
  <2> QED
    BY <1>2, <1>4, <2>1
<1>6. RememberedNext(b, answer', 0)
  <2>1. CASE UNCHANGED recent /\ answer' = rules[b]
    BY <1>2, <2>1 DEF RememberedNext
  <2>2. CASE recent' = [recent EXCEPT ![b] = @ \cup {gone}] /\ answer' = NoRules
    <3>1. gone \in recent'[b] /\ gone.age <= 0
      BY <1>1, <2>2
    <3> QED
      BY <1>1, <2>2, <3>1 DEF RememberedNext
  <2> QED
    BY <1>3, <2>1, <2>2
<1>7. RememberedNext(AreaOf[reading'.sensor], answer', delay')
  BY <1>2, <1>6 DEF b
<1> QED
  BY <1>5, <1>7, KnownNext

(* Storing an answer: what was true delay ago stays known for a lifetime.   *)
LEMMA ResumeKnown ==
  ASSUME TypeOK, Known, Resume
  PROVE  Known'
<1> DEFINE b == AreaOf[reading.sensor]
<1>1. b \in Areas /\ Remembered(b, answer, delay) /\ consumer' = "idle"
  BY Clocks DEF Known, Resume
<1>2. /\ cache' = [cache EXCEPT ![b] = Stored(answer)]
      /\ UNCHANGED <<rules, recent>>
      /\ cache \in [Areas -> [thresholds : Thresholds_, left : 0 .. TTL]]
  BY DEF Resume, TypeOK
<1> HIDE DEF b
<1>3. ASSUME NEW c \in Areas, cache'[c].left > 0
      PROVE  RememberedNext(c, cache'[c].thresholds, Memory - cache'[c].left)
  <2>1. CASE c = b
    <3>1. cache'[c].thresholds = answer /\ cache'[c].left = TTL
      BY <1>1, <1>2, <2>1 DEF Stored
    <3>2. /\ delay <= Memory - TTL /\ delay \in Int /\ Memory - TTL \in Int
          /\ \A r \in recent[b] : r.age \in Int
      BY <1>1, Clocks
    <3>3. \/ rules[b] = answer
          \/ \E r \in recent[b] : r.thresholds = answer /\ r.age <= Memory - TTL
      BY <1>1, <3>2 DEF Remembered
    <3> QED
      BY <1>2, <2>1, <3>1, <3>3 DEF RememberedNext
  <2>2. CASE c # b
    <3>1. cache'[c] = cache[c]
      BY <1>2, <2>2
    <3>2. Remembered(c, cache[c].thresholds, Memory - cache[c].left)
      BY <1>3, <3>1 DEF Known
    <3> QED
      BY <1>2, <3>1, <3>2 DEF Remembered, RememberedNext
  <2> QED
    BY <2>1, <2>2
<1> QED
  BY <1>1, <1>3, KnownNext

(* A tick ages entry and memory alike.                                      *)
LEMMA TickKnown ==
  ASSUME TypeOK, Known, Tick
  PROVE  Known'
<1>1. /\ recent \in [Areas -> SUBSET Gone] /\ UNCHANGED <<rules, consumer, reading, answer>>
      /\ \A a \in Areas : /\ cache'[a] = Aged(cache[a])
                          /\ recent'[a] = {[r EXCEPT !.age = @ + 1] :
                                             r \in {q \in recent[a] : q.age < Memory}}
      /\ delay < MaxDelay /\ delay' = IF consumer = "resuming" THEN delay + 1 ELSE 0
  BY DEF Tick, TypeOK, Gone
<1>2. ASSUME NEW a \in Areas, NEW t, NEW n \in Nat, n < Memory, Remembered(a, t, n)
      PROVE  RememberedNext(a, t, n + 1)
  <2>1. CASE rules[a] = t
    BY <1>1, <2>1 DEF RememberedNext
  <2>2. CASE \E r \in recent[a] : r.thresholds = t /\ r.age <= n
    <3>1. PICK r \in recent[a] : r.thresholds = t /\ r.age <= n
      BY <2>2
    <3>2. r \in Gone /\ r.age \in Nat /\ Memory \in Nat
      BY Clocks
    <3>3. r.age < Memory /\ r.age + 1 <= n + 1
      BY <1>2, <3>1, <3>2
    <3> DEFINE older == [r EXCEPT !.age = @ + 1]
    <3>4. older \in recent'[a]
      BY <1>1, <3>3
    <3>5. older.thresholds = t /\ older.age = r.age + 1
      BY <3>1, <3>2 DEF Gone
    <3> HIDE DEF older
    <3> QED
      BY <3>3, <3>4, <3>5 DEF RememberedNext
  <2> QED
    BY <1>2, <2>1, <2>2 DEF Remembered
<1>3. ASSUME NEW c \in Areas, cache'[c].left > 0
      PROVE  RememberedNext(c, cache'[c].thresholds, Memory - cache'[c].left)
  <2>1. cache[c] \in [thresholds : Thresholds_, left : 0 .. TTL]
    BY DEF TypeOK
  <2>2. /\ cache'[c].thresholds = cache[c].thresholds
        /\ cache'[c].left = IF cache[c].left > 0 THEN cache[c].left - 1 ELSE 0
    BY <1>1, <2>1 DEF Aged
  <2>3. cache[c].left > 0 /\ cache'[c].left = cache[c].left - 1
    BY <1>3, <2>1, <2>2
  <2>4. Remembered(c, cache[c].thresholds, Memory - cache[c].left)
    BY <2>3 DEF Known
  <2>5. /\ Memory - cache[c].left \in Nat /\ Memory - cache[c].left < Memory
        /\ Memory - cache'[c].left = (Memory - cache[c].left) + 1
    BY <2>3, Clocks
  <2>6. RememberedNext(c, cache[c].thresholds, (Memory - cache[c].left) + 1)
    BY <1>2, <2>4, <2>5
  <2> QED
    BY <2>2, <2>5, <2>6
<1>4. ASSUME consumer' = "resuming"
      PROVE  RememberedNext(AreaOf[reading'.sensor], answer', delay')
  <2>1. /\ AreaOf[reading.sensor] \in Areas /\ Remembered(AreaOf[reading.sensor], answer, delay)
        /\ delay' = delay + 1 /\ delay \in Nat /\ delay < Memory
    BY <1>1, <1>4, Clocks DEF Known
  <2> QED
    BY <1>1, <1>2, <2>1
<1> QED
  BY <1>3, <1>4, KnownNext

LEMMA StepKnown == TypeOK /\ Known /\ [Next]_vars => Known'
<1> SUFFICES ASSUME TypeOK, Known, [Next]_vars PROVE Known'
  OBVIOUS
<1>1. CASE UNCHANGED <<rules, cache, recent, consumer, reading, answer, delay>>
  BY <1>1 DEF Known, Remembered
<1>2. CASE \E a \in Areas, p \in Params, rule \in Rules : Upsert(a, p, rule)
  BY <1>2, UpsertKnown
<1>3. CASE \E r \in Reading : Process(r)
  <2>1. UNCHANGED <<rules, cache, recent>> /\ consumer' # "resuming"
    BY <1>3 DEF Process
  <2> QED
    BY <2>1 DEF Known, Remembered
<1>4. CASE Answer \/ FetchError
  BY <1>4, AnswerKnown
<1>5. CASE Resume
  BY <1>5, ResumeKnown
<1>6. CASE Restart
  <2>1. consumer' = "idle" /\ \A a \in Areas : ~(cache'[a].left > 0)
    BY <1>6 DEF Restart, Expired
  <2> QED
    BY <2>1, KnownNext
<1>7. CASE Tick
  BY <1>7, TickKnown
<1> QED
  BY <1>1, <1>2, <1>3, <1>4, <1>5, <1>6, <1>7 DEF Next, vars, engine

Judged(t) == Judges(t, reading'.values, alerts')

LEMMA EvaluateJudges ==
  ASSUME TypeOK, NEW r \in Reading, NEW t \in Thresholds_, Evaluate(r, t), reading' = r
  PROVE  Judged(t)
<1> DEFINE past == [p \in DOMAIN r.values |-> Front(history'[r.sensor][p])]
<1>1. PICK ps \in SUBSET Params : r.values \in [ps -> Values]
  BY DEF Reading
<1>2. alerts' = EvaluateThresholds(r.values, t, past)
  BY EvaluateStep
<1> HIDE DEF past
<1>3. RightAlerts(alerts', r.values, t, past)
  BY <1>1, <1>2, EvaluationFacts
<1> QED
  BY <1>3 DEF RightAlerts, Judged

LEMMA RememberedIsRecent ==
  ASSUME NEW a, NEW t, NEW age \in Int, age < Memory, TypeOK, a \in Areas, Remembered(a, t, age)
  PROVE  t \in RecentRules(a)
<1>1. CASE rules[a] = t
  BY <1>1 DEF RecentRules
<1>2. CASE \E r \in recent[a] : r.thresholds = t /\ r.age <= age
  <2>1. PICK r \in recent[a] : r.thresholds = t /\ r.age <= age
    BY <1>2
  <2>2. r.age < Memory
    BY <2>1, Clocks
  <2> QED
    BY <2>1, <2>2 DEF RecentRules
<1> QED
  BY <1>1, <1>2 DEF Remembered

LEMMA StepJudged ==
  ASSUME TypeOK, Known, Next, Consumes
  PROVE  \E t \in RecentRules(AreaOf[reading'.sensor]) : Judged(t)
<1>1. ~ UNCHANGED consumed
  <2>1. PICK s \in Sensors, p \in Params : Len(consumed'[s][p]) > Len(consumed[s][p])
    BY DEF Consumes
  <2>2. Len(consumed[s][p]) \in Nat
    BY LenProperties DEF TypeOK, History
  <2> QED
    BY <2>1, <2>2
<1>2. CASE \E r \in Reading : Process(r)
  <2>1. PICK r \in Reading : Process(r)
    BY <1>2
  <2> DEFINE a == AreaOf[r.sensor]
  <2>2. /\ reading' = r /\ a \in Areas /\ Fresh(cache[a])
        /\ Evaluate(r, cache[a].thresholds) /\ cache[a].thresholds \in Thresholds_
    BY <1>1, <2>1, AreaOfReading DEF Process, TypeOK
  <2>3. /\ Remembered(a, cache[a].thresholds, Memory - cache[a].left)
        /\ Memory - cache[a].left \in Int /\ Memory - cache[a].left < Memory
    BY <2>2, Clocks DEF Known, Fresh
  <2>4. cache[a].thresholds \in RecentRules(a)
    BY <2>2, <2>3, RememberedIsRecent
  <2>5. Judged(cache[a].thresholds)
    BY <2>2, EvaluateJudges
  <2> QED
    BY <2>2, <2>4, <2>5
<1>3. CASE Resume
  <2>1. /\ Evaluate(reading, answer) /\ reading' = reading /\ reading \in Reading
        /\ answer \in Thresholds_ /\ AreaOf[reading.sensor] \in Areas
        /\ Remembered(AreaOf[reading.sensor], answer, delay)
    BY <1>3, Clocks DEF Resume, TypeOK, Known
  <2>2. delay \in Int /\ delay < Memory
    BY Clocks
  <2>3. answer \in RecentRules(AreaOf[reading.sensor])
    BY <2>1, <2>2, RememberedIsRecent
  <2>4. Judged(answer)
    BY <2>1, EvaluateJudges
  <2> QED
    BY <2>1, <2>3, <2>4
<1>4. CASE Restart
  <2>1. PICK s \in Sensors, p \in Params : Len(consumed'[s][p]) > Len(consumed[s][p])
    BY DEF Consumes
  <2>2. Len(consumed[s][p]) \in Nat /\ Len(consumed'[s][p]) = 0
    <3>1. consumed[s][p] \in Seq(Values) /\ consumed'[s][p] = <<>> /\ <<>> \in Seq(Values)
      BY <1>4, EmptySeq DEF TypeOK, History, Restart
    <3> QED
      BY <3>1, LenProperties, EmptySeq
  <2> QED
    BY <2>1, <2>2
<1> QED
  BY <1>1, <1>2, <1>3, <1>4 DEF Next, Upsert, Answer, FetchError, Tick, engine

(* Every reading is judged by rules in force, or not to be had, less ago than a
   cache lifetime and an answer's delay: an alert for each value past a bound
   and for no other, of the worst severity if no lower bound lies above an upper
   one.                                                                      *)
THEOREM JudgedByRecentRulesAlways == Spec => JudgedByRecentRules
<1>1. TypeOK /\ Known /\ [Next]_vars =>
        [Consumes => \E t \in RecentRules(AreaOf[reading'.sensor]) :
                       Judges(t, reading'.values, alerts')]_vars
  BY StepJudged DEF Judged
<1>2. TypeOK /\ Known /\ [Next]_vars => TypeOK' /\ Known'
  BY StepType, StepKnown
<1> QED
  BY InitType, InitKnown, <1>1, <1>2, PTL DEF Spec, JudgedByRecentRules
=============================================================================
