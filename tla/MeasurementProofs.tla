-------------------------- MODULE MeasurementProofs -------------------------
(***************************************************************************)
(* For every window length, error threshold, range and set of readings:    *)
(* the averages are plausible, the advice needs full windows, lasting      *)
(* errors show as a fault, the fire alarm moves only on a reading.         *)
(***************************************************************************)
EXTENDS Measurement, SequenceTheorems, WellFoundedInduction, TLAPS

\* What may stand in a window: a plausible temperature or the mark for none.
Sampled == ValidMin .. ValidMax \cup {Invalid}

SamplesPlausible == avg \in [Sensors -> Seq(Sampled)]

\* Both windows are pushed to in every cycle, so they fill up together.
InStep == Len(avg["inner"]) = Len(avg["outer"])

MeasurementInv ==
    /\ TypeOK /\ SamplesPlausible /\ InStep
    /\ AdviceNeedsFullWindows /\ AveragesArePlausible /\ ErrorsShowAsFault

-----------------------------------------------------------------------------
(* Operators *)

LEMMA SampledInt == Sampled \subseteq Int /\ Invalid \in Sampled
  BY MeasurementAssumption DEF Sampled, Invalid

LEMMA SampledSeq == ASSUME NEW w \in Seq(Sampled) PROVE w \in Seq(Int)
  BY SampledInt, SeqMonotonic

LEMMA PushType ==
    ASSUME NEW w \in Seq(Sampled), Len(w) <= Window, NEW x \in Sampled
    PROVE  /\ Push(w, x) \in Seq(Sampled)
           /\ Len(Push(w, x)) = IF Len(w) < Window THEN Len(w) + 1 ELSE Window
<1>1. CASE Len(w) < Window
  BY <1>1 DEF Push
<1>2. CASE ~(Len(w) < Window)
  <2>1. Len(w) = Window /\ Window \in Nat \ {0}
    BY <1>2, MeasurementAssumption
  <2>2. w # <<>>
    BY <2>1
  <2>3. Tail(w) \in Seq(Sampled) /\ Len(Tail(w)) = Len(w) - 1
    BY <2>2
  <2> QED
    BY <1>2, <2>1, <2>3 DEF Push
<1> QED
  BY <1>1, <1>2

\* What a bus returns is a number; what enters a window is filtered.
LEMMA SampleType ==
    ASSUME NEW s \in Sensors, NEW l \in Lines(s)
    PROVE  /\ Instant(ReadCentiC(s, l)) \in Int
           /\ Sample(ReadCentiC(s, l)) \in Sampled
<1>1. l.temp \in Int
  <2>1. CASE l \in [bus : {"absent", "corrupt"}, temp : {Invalid}]
    BY <2>1 DEF Invalid
  <2>2. CASE l \in [bus : {"device"}, temp : Readable(s)]
    <3>1. l.temp \in Readable(s)
      BY <2>2
    <3>2. Readable(s) \subseteq Int
      BY MeasurementAssumption DEF Readable
    <3> QED
      BY <3>1, <3>2
  <2> QED
    BY <2>1, <2>2 DEF Lines
<1> DEFINE r == ReadCentiC(s, l)
<1>2. r.value \in Int
  BY <1>1 DEF ReadCentiC, Ok, Err, Invalid
<1> HIDE DEF r
<1>3. Sample(r) \in Sampled
  BY <1>2, MeasurementAssumption DEF Sample, IsWeird, Sampled
<1> QED
  BY <1>2, <1>3 DEF r, Instant

LEMMA ErrorsType ==
    ASSUME TypeOK, NEW s \in Sensors, NEW r
    PROVE  /\ ErrorsAfter(s, r) \in 0 .. ErrThreshold
           /\ ErrorsAfter(s, r) = ErrThreshold => IsFaulty(s, r)
<1>1. errors[s] \in 0 .. ErrThreshold /\ ErrThreshold \in Nat \ {0}
  BY MeasurementAssumption DEF TypeOK, AnomalyDetector
<1>2. CASE r.status = "Ok"
  BY <1>1, <1>2 DEF ErrorsAfter
<1>3. CASE r.status # "Ok"
  BY <1>1, <1>3 DEF ErrorsAfter, IsFaulty
<1> QED
  BY <1>2, <1>3

\* quiet_hours.h:9-14: whichever of its three cases applies, the window is the
\* minutes reached from `from' strictly before `to', going forward round the
\* clock face.
Ahead(a, b) == IF b >= a THEN b - a ELSE b - a + Minutes

THEOREM QuietWindowIsCyclic ==
    ASSUME NEW now \in 0 .. Minutes - 1, NEW from \in 0 .. Minutes - 1,
           NEW to \in 0 .. Minutes - 1
    PROVE  InQuietWindow(now, from, to) <=> Ahead(from, now) < Ahead(from, to)
  BY MeasurementAssumption DEF InQuietWindow, Ahead

-----------------------------------------------------------------------------
(* Induction over the natural numbers, for sets *)

LEMMA LeastNatural ==
    ASSUME NEW T \in SUBSET Nat, T # {}
    PROVE  \E n \in T : \A m \in T : n <= m
<1> DEFINE R == OpToRel(<, Nat)
<1>1. IsWellFoundedOn(R, Nat)
  BY NatLessThanWellFounded
<1>2. \A x, y \in Nat : x < y => <<x, y>> \in R
  BY DEF OpToRel
<1> HIDE DEF R
<1>3. PICK n \in T : \A m \in T : ~ (<<m, n>> \in R)
  BY <1>1, WFMin
<1>4. \A m \in T : ~ (m < n)
  BY <1>2, <1>3
<1> QED
  BY <1>4

LEMMA SetInduction ==
    ASSUME NEW S \in SUBSET Nat, 0 \in S, \A n \in S : n + 1 \in S
    PROVE  S = Nat
<1> DEFINE T == Nat \ S
<1> SUFFICES ASSUME T # {} PROVE FALSE
  OBVIOUS
<1>1. PICK n \in T : \A m \in T : n <= m
  BY LeastNatural
<1>2. n # 0 /\ n - 1 \in Nat
  OBVIOUS
<1>3. n - 1 \in S
  BY <1>1, <1>2
<1> QED
  BY <1>1, <1>3

-----------------------------------------------------------------------------
(* The average *)

NoTotal == [sum |-> 0, valid |-> 0]

\* f is what the loop of average() computes in its first n turns.
Loop(w, f, n) ==
    f = [i \in 0 .. n |-> IF i = 0 THEN NoTotal ELSE Counted(f[i - 1], w[i])]

LEMMA LoopRuns == ASSUME NEW w, NEW n \in Nat PROVE \E f : Loop(w, f, n)
<1> DEFINE S == {m \in Nat : \E f : Loop(w, f, m)}
<1>1. 0 \in S
  <2>1. Loop(w, [i \in 0 .. 0 |-> NoTotal], 0)
    BY DEF Loop
  <2> QED
    BY <2>1
<1>2. \A m \in S : m + 1 \in S
  <2> SUFFICES ASSUME NEW m \in Nat, NEW f, Loop(w, f, m)
               PROVE  \E g : Loop(w, g, m + 1)
    OBVIOUS
  <2> DEFINE g == [i \in 0 .. m + 1 |->
                       IF i <= m THEN f[i] ELSE Counted(f[m], w[m + 1])]
  <2>1. \A i \in 0 .. m : f[i] = IF i = 0 THEN NoTotal ELSE Counted(f[i - 1], w[i])
    BY DEF Loop
  <2>2. \A i \in 0 .. m : g[i] = f[i]
    OBVIOUS
  <2>3. g[m + 1] = Counted(f[m], w[m + 1])
    OBVIOUS
  <2>4. ASSUME NEW i \in 0 .. m + 1
        PROVE  g[i] = IF i = 0 THEN NoTotal ELSE Counted(g[i - 1], w[i])
    <3>1. CASE i \in 0 .. m
      <4>1. i # 0 => i - 1 \in 0 .. m
        BY <3>1
      <4> HIDE DEF g
      <4> QED
        BY <2>1, <2>2, <3>1, <4>1
    <3>2. CASE i = m + 1
      <4>1. i # 0 /\ i - 1 = m /\ m \in 0 .. m
        BY <3>2
      <4> HIDE DEF g
      <4> QED
        BY <2>2, <2>3, <3>2, <4>1
    <3> QED
      BY <3>1, <3>2
  <2>5. DOMAIN g = 0 .. m + 1 /\ g = [i \in 0 .. m + 1 |-> g[i]]
    OBVIOUS
  <2> HIDE DEF g
  <2>6. Loop(w, g, m + 1)
    BY <2>4, <2>5 DEF Loop
  <2> QED
    BY <2>6
<1> HIDE DEF S
<1>3. S = Nat
  <2>1. S \in SUBSET Nat
    BY DEF S
  <2> QED
    BY <1>1, <1>2, <2>1, SetInduction
<1> QED
  BY <1>3 DEF S

\* average() goes through the samples one by one.
LEMMA TotalsLoop == ASSUME NEW w \in Seq(Int) PROVE Loop(w, Totals(w), Len(w))
<1>1. Len(w) \in Nat
  OBVIOUS
<1>2. \E f : Loop(w, f, Len(w))
  BY <1>1, LoopRuns
<1>3. Totals(w) = CHOOSE f : Loop(w, f, Len(w))
  BY DEF Totals, Loop, NoTotal
<1> QED
  BY <1>2, <1>3

LEMMA Products ==
    ASSUME NEW a \in Int, NEW b \in Int, NEW v \in Int
    PROVE  /\ v * a \in Int
           /\ (v + 1) * a = v * a + a
           /\ 0 <= v /\ a <= b => v * a <= v * b
           /\ 0 < v /\ a < b => v * a < v * b
<1>1. v * a \in Int /\ (v + 1) * a = v * a + a
  OBVIOUS
<1>2. v * b = v * a + v * (b - a)
  OBVIOUS
<1>3. 0 <= v /\ a <= b => v * (b - a) >= 0
  OBVIOUS
<1>4. 0 < v /\ a < b => v * (b - a) > 0
  OBVIOUS
<1>5. v * b \in Int /\ v * (b - a) \in Int
  OBVIOUS
<1> QED
  BY <1>1, <1>2, <1>3, <1>4, <1>5

\* The sum is never further out than as many times the bounds as were counted.
LEMMA TotalsBounded ==
    ASSUME NEW w \in Seq(Sampled), NEW k \in 0 .. Len(w)
    PROVE  LET total == Totals(w)[k]
           IN  /\ total.sum \in Int /\ total.valid \in 0 .. k
               /\ total.valid * ValidMin <= total.sum
               /\ total.sum <= total.valid * ValidMax
<1> DEFINE f == Totals(w)
           n == Len(w)
           Bounded(i) == /\ f[i].sum \in Int /\ f[i].valid \in 0 .. i
                         /\ f[i].valid * ValidMin <= f[i].sum
                         /\ f[i].sum <= f[i].valid * ValidMax
           S == {m \in Nat : m <= n => Bounded(m)}
<1>1. /\ ValidMin \in Int /\ ValidMax \in Int /\ Invalid \in Int
      /\ Sampled \subseteq Int /\ w \in Seq(Int) /\ n \in Nat
      /\ \A i \in 1 .. n : w[i] \in Sampled
  BY MeasurementAssumption DEF Sampled, Invalid
<1>2. /\ \A i \in 0 .. n : f[i] = IF i = 0 THEN NoTotal
                                  ELSE Counted(f[i - 1], w[i])
  BY <1>1, TotalsLoop DEF Loop
<1> HIDE DEF f, n
<1>3. 0 \in S
  <2>1. f[0] = NoTotal
    BY <1>1, <1>2
  <2>2. 0 * ValidMin = 0 /\ 0 * ValidMax = 0
    BY <1>1
  <2> QED
    BY <2>1, <2>2 DEF NoTotal
<1>4. \A m \in S : m + 1 \in S
  <2> SUFFICES ASSUME NEW m \in Nat, m + 1 <= n, Bounded(m) PROVE Bounded(m + 1)
    BY <1>1
  <2>1. m + 1 \in 0 .. n /\ m + 1 \in 1 .. n /\ m + 1 # 0 /\ (m + 1) - 1 = m
    BY <1>1
  <2>2. f[m + 1] = Counted(f[m], w[m + 1]) /\ w[m + 1] \in Sampled
    BY <1>1, <1>2, <2>1
  <2>3. CASE w[m + 1] = Invalid
    BY <2>2, <2>3 DEF Counted
  <2>4. CASE w[m + 1] # Invalid
    <3> DEFINE x == w[m + 1]
               s == f[m].sum
               v == f[m].valid
    <3>1. x \in Int /\ ValidMin <= x /\ x <= ValidMax
      BY <1>1, <2>2, <2>4 DEF Sampled
    <3>2. f[m + 1].sum = s + x /\ f[m + 1].valid = v + 1
      BY <2>2, <2>4 DEF Counted
    <3>3. s \in Int /\ v \in 0 .. m /\ v * ValidMin <= s /\ s <= v * ValidMax
      OBVIOUS
    <3> HIDE DEF x, s, v
    <3>4. /\ (v + 1) * ValidMin = v * ValidMin + ValidMin
          /\ (v + 1) * ValidMax = v * ValidMax + ValidMax
          /\ v * ValidMin \in Int /\ v * ValidMax \in Int
      BY <1>1, <3>3, Products
    <3>5. (v + 1) * ValidMin <= s + x /\ s + x <= (v + 1) * ValidMax
      BY <1>1, <3>1, <3>3, <3>4
    <3> QED
      BY <3>1, <3>2, <3>3, <3>5
  <2> QED
    BY <2>3, <2>4
<1> HIDE DEF S
<1>5. S = Nat
  <2>1. S \in SUBSET Nat
    BY DEF S
  <2> QED
    BY <1>3, <1>4, <2>1, SetInduction
<1>6. Bounded(k)
  <2>1. k \in Nat /\ k <= n
    BY <1>1 DEF n
  <2> QED
    BY <1>5, <2>1 DEF S
<1> QED
  BY <1>6 DEF f

\* A truncating division stays between integer bounds.
LEMMA QuotientBounded ==
    ASSUME NEW s \in Int, NEW v \in Int, v > 0, NEW a \in Int, NEW b \in Int,
           v * a <= s, s <= v * b
    PROVE  Quotient(s, v) \in a .. b
<1>1. CASE s >= 0
  <2> DEFINE q == s \div v
  <2>1. q \in Int /\ q >= 0 /\ v * q <= s /\ s < v * (q + 1)
    BY <1>1
  <2> HIDE DEF q
  <2>2. v * q <= v * b /\ v * a < v * (q + 1)
    BY <2>1, Products
  <2>3. ~(b < q) /\ ~(q + 1 <= a)
    BY <2>1, <2>2, Products
  <2> QED
    BY <1>1, <2>1, <2>3 DEF q, Quotient
<1>2. CASE s < 0
  <2> DEFINE q == (-s) \div v
  <2>1. q \in Int /\ q >= 0 /\ v * q <= -s /\ -s < v * (q + 1)
    BY <1>2
  <2> HIDE DEF q
  <2>2. v * (-q) = -(v * q) /\ v * (-q - 1) = -(v * (q + 1))
    BY <2>1
  <2>3. v * (-q - 1) < s /\ s <= v * (-q)
    BY <2>1, <2>2
  <2>4. v * a <= v * (-q) /\ v * (-q - 1) < v * b
    BY <2>1, <2>3, Products
  <2>5. ~(-q < a) /\ ~(b <= -q - 1)
    BY <2>1, <2>4, Products
  <2> QED
    BY <1>2, <2>1, <2>5 DEF q, Quotient
<1> QED
  BY <1>1, <1>2

\* The average of plausible samples is plausible.
LEMMA AveragePlausible ==
    ASSUME NEW w \in Seq(Sampled)
    PROVE  Average(w) \in Sampled
<1> DEFINE total == Totals(w)[Len(w)]
<1>1. /\ total.sum \in Int /\ total.valid \in 0 .. Len(w)
      /\ total.valid * ValidMin <= total.sum
      /\ total.sum <= total.valid * ValidMax
  BY TotalsBounded
<1>2. Average(w) = IF total.valid = 0 THEN Invalid
                   ELSE Quotient(total.sum, total.valid)
  BY DEF Average
<1> HIDE DEF total
<1>3. CASE total.valid = 0
  BY <1>2, <1>3 DEF Sampled
<1>4. CASE total.valid # 0
  <2>1. total.valid \in Int /\ total.valid > 0
    BY <1>1, <1>4
  <2>2. ValidMin \in Int /\ ValidMax \in Int
    BY MeasurementAssumption
  <2>3. Quotient(total.sum, total.valid) \in ValidMin .. ValidMax
    BY <1>1, <2>1, <2>2, QuotientBounded
  <2> QED
    BY <1>2, <1>4, <2>3 DEF Sampled
<1> QED
  BY <1>3, <1>4

-----------------------------------------------------------------------------

LEMMA MeasurementInit == Init => MeasurementInv
<1> SUFFICES ASSUME Init PROVE MeasurementInv
  OBVIOUS
<1>1. /\ ErrThreshold \in Nat /\ Window \in Nat \ {0}
      /\ Invalid \in Sampled /\ Invalid \in Int
  BY MeasurementAssumption, SampledInt
<1>2. TypeOK
  <2>1. /\ errors \in [Sensors -> 0 .. ErrThreshold]
        /\ convStarted \in [Sensors -> BOOLEAN]
    BY <1>1 DEF Init
  <2>2. avg \in [Sensors -> Seq(Int)] /\ \A s \in Sensors : Len(avg[s]) <= Window
    BY <1>1 DEF Init
  <2>3. /\ fire \in BOOLEAN /\ sensorFault \in BOOLEAN /\ diffOpen \in BOOLEAN
        /\ ventOpen \in BOOLEAN /\ windowOpen \in BOOLEAN
        /\ melody \in {"none", "open", "close"}
    BY DEF Init
  <2>4. snapshot \in [inner : Int, outer : Int, open : BOOLEAN, fire : BOOLEAN,
                      sensorFault : BOOLEAN, diffAlarm : BOOLEAN]
    BY <1>1 DEF Init
  <2> QED
    BY <2>1, <2>2, <2>3, <2>4 DEF Init, TypeOK, AnomalyDetector
<1>3. SamplesPlausible /\ InStep
  BY DEF Init, SamplesPlausible, InStep, Sensors
<1>4. AdviceNeedsFullWindows /\ AveragesArePlausible
  BY DEF Init, AdviceNeedsFullWindows, AveragesArePlausible
<1>5. ErrorsShowAsFault
  BY MeasurementAssumption DEF Init, ErrorsShowAsFault
<1> QED
  BY <1>2, <1>3, <1>4, <1>5 DEF MeasurementInv

LEMMA CycleKeepsInv ==
    ASSUME MeasurementInv,
           NEW line, \A s \in Sensors : line[s] \in Lines(s),
           NEW tod, MeasurementCycle(line, tod)
    PROVE  MeasurementInv'
<1> DEFINE r     == [s \in Sensors |-> ReadCentiC(s, line[s])]
           w     == [s \in Sensors |-> Push(avg[s], Sample(r[s]))]
           mean  == [s \in Sensors |-> Average(w[s])]
           gated == Gated(w, mean)
<1>1. TypeOK /\ SamplesPlausible /\ InStep
  BY DEF MeasurementInv
<1>2. /\ convStarted' \in [Sensors -> BOOLEAN]
      /\ errors' = [s \in Sensors |-> ErrorsAfter(s, r[s])]
      /\ avg' = w
      /\ fire' = FireAfter(webConfig, Instant(r["inner"]))
      /\ sensorFault' = \E s \in Sensors : IsFaulty(s, r[s])
      /\ diffOpen' = DiffAfter(gated["inner"], gated["outer"],
                               webConfig.diffThr)
      /\ ventOpen' = VentAfter(gated["outer"])
      /\ windowOpen' = (diffOpen' \/ ventOpen')
      /\ melody' \in {"none", "open", "close"}
      /\ snapshot' = [inner |-> mean["inner"], outer |-> mean["outer"],
                      open |-> windowOpen', fire |-> fire',
                      sensorFault |-> sensorFault', diffAlarm |-> diffOpen']
      /\ webConfig' = webConfig
  BY DEF MeasurementCycle
<1>3. \A s \in Sensors : Sample(r[s]) \in Sampled
  BY SampleType
<1>4. \A s \in Sensors :
          /\ w[s] \in Seq(Sampled)
          /\ Len(w[s]) = IF Len(avg[s]) < Window THEN Len(avg[s]) + 1
                         ELSE Window
  <2> SUFFICES ASSUME NEW s \in Sensors
               PROVE  /\ w[s] \in Seq(Sampled)
                      /\ Len(w[s]) = IF Len(avg[s]) < Window
                                     THEN Len(avg[s]) + 1 ELSE Window
    OBVIOUS
  <2>1. w[s] = Push(avg[s], Sample(r[s]))
    OBVIOUS
  <2>2. avg[s] \in Seq(Sampled) /\ Len(avg[s]) <= Window
    BY <1>1 DEF TypeOK, SamplesPlausible
  <2>3. Sample(r[s]) \in Sampled
    BY <1>3
  <2> HIDE DEF r, w
  <2> QED
    BY <2>1, <2>2, <2>3, PushType
<1>5. \A s \in Sensors : /\ ErrorsAfter(s, r[s]) \in 0 .. ErrThreshold
                         /\ ErrorsAfter(s, r[s]) = ErrThreshold
                                => IsFaulty(s, r[s])
  BY <1>1, ErrorsType
<1>6. \A s \in Sensors :
          /\ mean[s] = Average(w[s])
          /\ gated[s] = IF IsFull(w[s]) THEN mean[s] ELSE Invalid
  BY DEF Gated
<1>7. "inner" \in Sensors /\ "outer" \in Sensors
  BY DEF Sensors
<1>8. w = [s \in Sensors |-> w[s]]
  OBVIOUS
<1>9. Instant(r["inner"]) \in Int
  BY <1>7, SampleType
<1> HIDE DEF r, w, mean, gated
<1>10. mean["inner"] \in Sampled /\ mean["outer"] \in Sampled
  BY <1>4, <1>6, <1>7, AveragePlausible
<1>11. SamplesPlausible' /\ \A s \in Sensors : Len(avg'[s]) <= Window
  <2>1. avg' \in [Sensors -> Seq(Sampled)]
    BY <1>2, <1>4, <1>8
  <2> SUFFICES ASSUME NEW s \in Sensors PROVE Len(w[s]) <= Window
    BY <1>2, <2>1 DEF SamplesPlausible
  <2>2. avg[s] \in Seq(Int) /\ Window \in Nat
    BY <1>1, MeasurementAssumption DEF TypeOK
  <2> QED
    BY <2>2, <1>4
<1>12. TypeOK'
  <2>1. errors' \in [Sensors -> 0 .. ErrThreshold]
    BY <1>2, <1>5
  <2>2. avg' \in [Sensors -> Seq(Int)]
    <3>1. \A s \in Sensors : w[s] \in Seq(Int)
      <4> SUFFICES ASSUME NEW s \in Sensors PROVE w[s] \in Seq(Int)
        OBVIOUS
      <4> QED
        BY <1>4, SampledSeq
    <3> QED
      BY <1>2, <1>8, <3>1
  <2>3. fire' \in BOOLEAN
    <3> DEFINE t == Instant(r["inner"])
               thr == webConfig.fireThr
               low == webConfig.fireThr - webConfig.fireHyst
    <3>1. fire \in BOOLEAN
      BY <1>1 DEF TypeOK
    <3>2. (t >= thr) \in BOOLEAN /\ (t >= low) \in BOOLEAN
      OBVIOUS
    <3>3. fire' = IF t = Invalid THEN fire
                  ELSE IF fire THEN t >= low ELSE t >= thr
      BY <1>2, Zenon DEF FireAfter
    <3> HIDE DEF t, thr, low
    <3> QED
      BY <3>1, <3>2, <3>3, Zenon
  <2>4. diffOpen' \in BOOLEAN /\ ventOpen' \in BOOLEAN
    <3>1. diffOpen \in BOOLEAN /\ ventOpen \in BOOLEAN
      BY <1>1 DEF TypeOK
    <3> QED
      BY <1>2, <3>1 DEF DiffAfter, VentAfter
  <2>5. sensorFault' \in BOOLEAN
    BY <1>2, Zenon
  <2>6. windowOpen' \in BOOLEAN
    BY <1>2, Zenon
  <2>7. snapshot' \in [inner : Int, outer : Int, open : BOOLEAN, fire : BOOLEAN,
                       sensorFault : BOOLEAN, diffAlarm : BOOLEAN]
    BY <1>2, <1>10, <2>3, <2>4, <2>5, <2>6, SampledInt
  <2>8. webConfig' \in ConfigModel
    BY <1>1, <1>2 DEF TypeOK
  <2> QED
    BY <1>2, <1>11, <2>1, <2>2, <2>3, <2>4, <2>5, <2>6, <2>7, <2>8 DEF TypeOK, AnomalyDetector
<1>13. InStep'
  BY <1>1, <1>2, <1>4, <1>7 DEF InStep
<1>14. AdviceNeedsFullWindows'
  <2> SUFFICES ASSUME snapshot'.open
               PROVE  /\ \A s \in Sensors : IsFull(avg'[s])
                      /\ snapshot'.outer # Invalid
    BY DEF AdviceNeedsFullWindows, IsFull
  <2>1. snapshot'.open = windowOpen' /\ snapshot'.outer = mean["outer"]
    BY <1>2
  <2>2. diffOpen' \/ ventOpen'
    BY <2>1, <1>2
  <2>3. gated["outer"] # Invalid
    BY <2>2, <1>2 DEF DiffAfter, VentAfter
  <2>4. IsFull(w["outer"]) /\ mean["outer"] # Invalid
    BY <2>3, <1>6, <1>7
  <2>5. Len(avg'["inner"]) = Len(avg'["outer"])
    BY <1>13 DEF InStep
  <2> QED
    BY <1>2, <2>1, <2>4, <2>5 DEF IsFull, Sensors
<1>15. AveragesArePlausible'
  <2>1. snapshot'.inner = mean["inner"] /\ snapshot'.outer = mean["outer"]
    BY <1>2
  <2> QED
    BY <1>10, <2>1 DEF AveragesArePlausible, Sampled
<1>16. ErrorsShowAsFault'
  <2> SUFFICES ASSUME NEW s \in Sensors, errors'[s] = ErrThreshold
               PROVE  snapshot'.sensorFault
    BY DEF ErrorsShowAsFault
  <2>1. snapshot'.sensorFault = sensorFault'
    BY <1>2
  <2>2. errors'[s] = ErrorsAfter(s, r[s])
    BY <1>2
  <2>3. IsFaulty(s, r[s])
    BY <2>2, <1>5
  <2> QED
    BY <2>1, <2>3, <1>2
<1> QED
  BY <1>11, <1>12, <1>13, <1>14, <1>15, <1>16 DEF MeasurementInv

\* A cycle's lines as Cycle chooses them.
LEMMA CycleLines ==
    ASSUME Cycle
    PROVE  \E line, tod : /\ \A s \in Sensors : line[s] \in Lines(s)
                          /\ MeasurementCycle(line, tod)
<1>1. PICK in \in Lines("inner"), out \in Lines("outer"),
           tod \in 0 .. Minutes - 1 \cup {NotSynced} :
        MeasurementCycle([s \in Sensors |-> IF s = "inner" THEN in ELSE out],
                         tod)
  BY DEF Cycle
<1> DEFINE line == [s \in Sensors |-> IF s = "inner" THEN in ELSE out]
<1>2. \A s \in Sensors : line[s] \in Lines(s)
  BY DEF Sensors
<1> QED
  BY <1>1, <1>2

LEMMA MeasurementStep == MeasurementInv /\ [Next]_vars => MeasurementInv'
<1> SUFFICES ASSUME MeasurementInv, [Next]_vars PROVE MeasurementInv'
  OBVIOUS
<1>1. CASE WebConfig
  BY <1>1 DEF WebConfig, alarmVars, adviceVars, MeasurementInv, TypeOK,
              SamplesPlausible, InStep, AdviceNeedsFullWindows,
              AveragesArePlausible, ErrorsShowAsFault, IsFull
<1>2. CASE Cycle
  BY <1>2, CycleLines, CycleKeepsInv
<1>3. CASE UNCHANGED vars
  BY <1>3 DEF vars, alarmVars, adviceVars, MeasurementInv, TypeOK,
              SamplesPlausible, InStep, AdviceNeedsFullWindows,
              AveragesArePlausible, ErrorsShowAsFault, IsFull
<1> QED
  BY <1>1, <1>2, <1>3 DEF Next

LEMMA MeasurementInvariant == Spec => []MeasurementInv
  BY MeasurementInit, MeasurementStep, PTL DEF Spec

\* Buses, detectors, windows and alarms keep their types, the counter of errors
\* its range and the window its length (Measurement's TypeOK).
THEOREM MeasurementTypeOK == Spec => []TypeOK
<1>1. MeasurementInv => TypeOK
  BY DEF MeasurementInv
<1> QED
  BY <1>1, MeasurementInvariant, PTL

\* main.cpp:752-753: an open advice always goes with full windows and a known
\* outer temperature.
THEOREM AdviceAlways == Spec => []AdviceNeedsFullWindows
<1>1. MeasurementInv => AdviceNeedsFullWindows
  BY DEF MeasurementInv
<1> QED
  BY <1>1, MeasurementInvariant, PTL

\* FR-03: whatever the buses yield, an average that is published lies in the
\* valid range or is marked invalid, the truncation of the division included.
THEOREM AveragesAlwaysPlausible == Spec => []AveragesArePlausible
<1>1. MeasurementInv => AveragesArePlausible
  BY DEF MeasurementInv
<1> QED
  BY <1>1, MeasurementInvariant, PTL

\* FR-04: ErrThreshold errors in a row show as a fault, and stay one.
THEOREM ErrorsAlwaysShow == Spec => []ErrorsShowAsFault
<1>1. MeasurementInv => ErrorsShowAsFault
  BY DEF MeasurementInv
<1> QED
  BY <1>1, MeasurementInvariant, PTL

\* main.cpp:727-728: only a reading of the inner sensor moves the fire alarm.
THEOREM FireOnlyByReading == Spec => FireNeedsReading
<1>1. [Next]_vars => [fire # fire' => errors'["inner"] = 0]_vars
  <2> SUFFICES ASSUME Next, fire # fire' PROVE errors'["inner"] = 0
    OBVIOUS
  <2>1. ~WebConfig
    BY DEF WebConfig, alarmVars
  <2>2. PICK line, tod : MeasurementCycle(line, tod)
    BY <2>1, CycleLines DEF Next
  <2> DEFINE r == [s \in Sensors |-> ReadCentiC(s, line[s])]
  <2>3. /\ errors' = [s \in Sensors |-> ErrorsAfter(s, r[s])]
        /\ fire' = FireAfter(webConfig, Instant(r["inner"]))
    BY <2>2 DEF MeasurementCycle
  <2>4. Instant(r["inner"]) # Invalid
    BY <2>3 DEF FireAfter
  <2>5. r["inner"].status = "Ok"
    BY <2>4 DEF Instant, ReadCentiC, Ok, Err, Sensors
  <2> QED
    BY <2>3, <2>5 DEF ErrorsAfter, Sensors
<1> QED
  BY <1>1, PTL DEF Spec, FireNeedsReading
=============================================================================
