-------------------------- MODULE DetectorProofs --------------------------
(***************************************************************************)
(* Facts about the operators the picker is built from: the sample-time     *)
(* arithmetic (SampleTime), what the constructors compute (StartUp), the   *)
(* detector (Detector) and the trigger (ThresholdTrigger).                 *)
(***************************************************************************)
EXTENDS Detector, ThresholdTrigger, FiniteSetTheorems, WellFoundedInduction,
        SequenceTheorems, TLAPS

---------------------------------------------------------------------------
(* Products and quotients, the part of the arithmetic that is not linear.  *)

LEMMA ProductIsNat ==
  ASSUME NEW a \in Nat, NEW b \in Nat
  PROVE  a * b \in Nat
BY SMT

LEMMA ProductsAreOrdered ==
  ASSUME NEW a \in Int, NEW b \in Int, NEW c \in Nat, a <= b
  PROVE  a * c <= b * c
BY SMT

LEMMA FactorsAreOrdered ==
  ASSUME NEW a \in Int, NEW b \in Int, NEW c \in Nat \ {0}, a * c < b * c
  PROVE  a < b
BY SMT

LEMMA Distribute ==
  ASSUME NEW a \in Int, NEW b \in Int, NEW c \in Int
  PROVE  (a + b) * c = a * c + b * c
BY SMT

LEMMA Quotient ==
  ASSUME NEW a \in Int, NEW b \in Nat \ {0}
  PROVE  /\ a \div b \in Int
         /\ (a \div b) * b <= a
         /\ a < (a \div b) * b + b
BY SMT

---------------------------------------------------------------------------
(* The end of a packet and the rounded quotients (SampleTime).             *)

LEMMA EndTime ==
  ASSUME NEW start \in Int, NEW n \in Nat \ {0}
  PROVE  /\ GetEndTime(start, n) \in Int
         /\ GetEndTime(start, n) >= start
<1>1. n - 1 \in Nat
  OBVIOUS
<1>2. (n - 1) * Period \in Nat
  BY <1>1, ProductIsNat, PeriodAssumption
<1>. QED
  BY <1>2 DEF GetEndTime

\* The rounded quotient is within half a period of the exact one.
LEMMA RoundedQuotient ==
  ASSUME NEW delta \in Nat
  PROVE  /\ RoundDiv(delta) \in Nat
         /\ 2 * delta < 2 * (RoundDiv(delta) * Period) + Period
         /\ 2 * (RoundDiv(delta) * Period) <= 2 * delta + Period
<1>. DEFINE r == RoundDiv(delta)
<1>1. /\ r \in Int
      /\ r * (2 * Period) <= 2 * delta + Period
      /\ 2 * delta + Period < r * (2 * Period) + 2 * Period
  <2>1. 2 * delta + Period \in Int /\ 2 * Period \in Nat \ {0}
    BY PeriodAssumption
  <2>. QED
    BY <2>1, Quotient DEF RoundDiv
<1>2. r * (2 * Period) = 2 * (r * Period)
  BY <1>1, PeriodAssumption, SMT
<1>3. 0 * Period < (r + 1) * Period
  <2>1. (r + 1) * Period = r * Period + 1 * Period
    BY <1>1, Distribute, PeriodAssumption
  <2>. QED
    BY <1>1, <1>2, <2>1, PeriodAssumption, SMT
<1>4. 0 < r + 1
  BY <1>1, <1>3, FactorsAreOrdered, PeriodAssumption
<1>. QED
  BY <1>1, <1>2, <1>4, PeriodAssumption, SMT

LEMMA CeiledQuotient ==
  ASSUME NEW delta \in Nat
  PROVE  /\ CeilDiv(delta) \in Nat
         /\ delta <= CeilDiv(delta) * Period
         /\ CeilDiv(delta) * Period < delta + Period
<1>. DEFINE c == CeilDiv(delta)
<1>1. /\ c \in Int
      /\ c * Period <= delta + Period - 1
      /\ delta + Period - 1 < c * Period + Period
  BY Quotient, PeriodAssumption DEF CeilDiv
<1>2. (c + 1) * Period = c * Period + 1 * Period
  BY <1>1, Distribute, PeriodAssumption
<1>3. 0 * Period < (c + 1) * Period
  BY <1>1, <1>2, PeriodAssumption, SMT
<1>4. 0 < c + 1
  BY <1>1, <1>3, FactorsAreOrdered, PeriodAssumption
<1>. QED
  BY <1>1, <1>4, PeriodAssumption, SMT

\* What a quotient stays below when its dividend lies inside n - 1 periods.
LEMMA QuotientsInsidePacket ==
  ASSUME NEW delta \in Nat, NEW n \in Nat \ {0}, delta <= (n - 1) * Period
  PROVE  /\ RoundDiv(delta) < n
         /\ CeilDiv(delta) < n
<1>. DEFINE r == RoundDiv(delta)
             c == CeilDiv(delta)
<1>1. /\ n * Period \in Int
      /\ (n - 1) * Period = n * Period - Period
  BY PeriodAssumption, SMT
<1>2. /\ r \in Nat
      /\ r * Period \in Int
      /\ 2 * (r * Period) <= 2 * delta + Period
  BY RoundedQuotient, PeriodAssumption
<1>3. r * Period < n * Period
  BY <1>1, <1>2, PeriodAssumption, SMT
<1>4. r < n
  BY <1>2, <1>3, FactorsAreOrdered, PeriodAssumption
<1>5. /\ c \in Nat
      /\ c * Period \in Int
      /\ c * Period < delta + Period
  BY CeiledQuotient, PeriodAssumption
<1>6. c * Period < n * Period
  BY <1>1, <1>5, PeriodAssumption, SMT
<1>7. c < n
  BY <1>5, <1>6, FactorsAreOrdered, PeriodAssumption
<1>. QED
  BY <1>4, <1>7

---------------------------------------------------------------------------
(* leftTrim: when the packet reaches the desired time, the trim keeps a    *)
(* tail of the packet, and its time is neither before the desired time nor *)
(* after the samples it kept.                                              *)

\* t is a tail of the packet (data, start) that begins at or after desired.
IsTailFrom(t, desired, data, start, S) ==
    /\ t.data \in Seq(S)
    /\ Len(t.data) \in 1 .. Len(data)
    /\ t.time \in Int
    /\ t.time >= desired
    /\ t.time >= start
    /\ GetEndTime(t.time, Len(t.data)) <= GetEndTime(start, Len(data))
    /\ \A i \in 1 .. Len(t.data) :
           t.data[i] = data[i + (Len(data) - Len(t.data))]

LEMMA TrimmedFields ==
  ASSUME NEW data, NEW time
  PROVE  Trimmed(data, time).data = data /\ Trimmed(data, time).time = time
BY DEF Trimmed

LEMMA TrimKeepsTail ==
  ASSUME NEW S, NEW data \in Seq(S), data # <<>>,
         NEW desired \in Int, NEW start \in Int,
         desired <= GetEndTime(start, Len(data))
  PROVE  IsTailFrom(LeftTrim(desired, data, start), desired, data, start, S)
<1>. DEFINE n     == Len(data)
             end   == GetEndTime(start, n)
             delta == desired - start
             t     == LeftTrim(desired, data, start)
<1>. SUFFICES IsTailFrom(t, desired, data, start, S)
  OBVIOUS
<1>1. n \in Nat \ {0} /\ end \in Int /\ end >= start
  BY EndTime
<1>2. CASE delta <= 0
  <2>1. t = Trimmed(data, start)
    BY <1>2 DEF LeftTrim
  <2>2. t.data = data /\ t.time = start
    BY <2>1, TrimmedFields
  <2>. HIDE DEF t
  <2>. QED
    BY <2>2, <1>1, <1>2 DEF IsTailFrom
<1>3. CASE /\ delta > 0
           /\ \/ Abs(end - desired) < Half
              \/ RoundDiv(delta) = 0
              \/ delta < Period
  <2>1. t = Trimmed(LastOf(data), desired)
    BY <1>1, <1>3 DEF LeftTrim
  <2>2. /\ LastOf(data) \in Seq(S)
        /\ Len(LastOf(data)) = 1
        /\ LastOf(data)[1] = data[n]
    BY <1>1 DEF LastOf
  <2>3. GetEndTime(desired, 1) = desired
    BY PeriodAssumption DEF GetEndTime
  <2>4. t.data = LastOf(data) /\ t.time = desired
    BY <2>1, TrimmedFields
  <2>5. \A i \in 1 .. 1 : LastOf(data)[i] = data[i + (n - 1)]
    BY <2>2, <1>1
  <2>. HIDE DEF t, n, end
  <2>6. /\ Len(t.data) = 1
        /\ \A i \in 1 .. Len(t.data) : t.data[i] = data[i + (n - Len(t.data))]
    BY <2>2, <2>4, <2>5
  <2>7. desired > start /\ desired <= end /\ 1 \in 1 .. n
    BY <1>1, <1>3 DEF end, n
  <2>8. GetEndTime(t.time, Len(t.data)) <= end
    BY <2>3, <2>4, <2>6, <2>7, <1>1
  <2>9. /\ t.data \in Seq(S)
        /\ t.time \in Int
        /\ t.time >= desired
        /\ t.time >= start
    BY <2>2, <2>4, <2>7
  <2>10. /\ Len(t.data) \in 1 .. Len(data)
         /\ GetEndTime(t.time, Len(t.data)) <= GetEndTime(start, Len(data))
         /\ \A i \in 1 .. Len(t.data) :
                t.data[i] = data[i + (Len(data) - Len(t.data))]
    <3>1. n = Len(data) /\ end = GetEndTime(start, Len(data))
      BY DEF n, end
    <3>. QED
      BY <2>6, <2>7, <2>8, <3>1
  <2>. QED
    BY <2>9, <2>10 DEF IsTailFrom
<1>4. CASE /\ delta > 0
           /\ ~ (Abs(end - desired) < Half)
           /\ RoundDiv(delta) # 0
           /\ ~ (delta < Period)
  <2>. DEFINE c == CeilDiv(delta)
  <2>1. delta \in Nat /\ delta <= (n - 1) * Period
    BY <1>1, <1>4, PeriodAssumption DEF GetEndTime
  <2>2. /\ RoundDiv(delta) < n
        /\ c < n
    BY <2>1, <1>1, QuotientsInsidePacket
  <2>3. /\ c \in Nat
        /\ delta <= c * Period
        /\ c * Period \in Nat
    BY <2>1, CeiledQuotient, ProductIsNat, PeriodAssumption
  <2>4. t = Trimmed(SubSeq(data, c + 1, n), start + c * Period)
    <3>1. RoundDiv(delta) \in Nat
      BY <2>1, RoundedQuotient
    <3>. QED
      BY <1>1, <1>4, <2>2, <3>1 DEF LeftTrim
  <2>5. /\ SubSeq(data, c + 1, n) \in Seq(S)
        /\ Len(SubSeq(data, c + 1, n)) = n - c
        /\ \A i \in 1 .. n - c : SubSeq(data, c + 1, n)[i] = data[i + c]
    BY <1>1, <2>2, <2>3
  <2>6. GetEndTime(start + c * Period, n - c) = end
    <3>1. /\ ((n - c - 1) + c) * Period = (n - c - 1) * Period + c * Period
          /\ (n - c - 1) * Period \in Int
      BY <1>1, <2>3, Distribute, PeriodAssumption, SMT
    <3>2. (n - c - 1) + c = n - 1
      BY <1>1, <2>3
    <3>. QED
      BY <3>1, <3>2, <2>3 DEF GetEndTime
  <2>7. /\ t.data = SubSeq(data, c + 1, n)
        /\ t.time = start + c * Period
    <3>. HIDE DEF t, c
    <3>. QED
      BY <2>4, TrimmedFields
  <2>8. t.time \in Int /\ t.time >= desired /\ t.time >= start
    <3>. HIDE DEF t, c
    <3>. QED
      BY <2>3, <2>7
  <2>9. Len(t.data) = n - c /\ n - (n - c) = c /\ n - c \in 1 .. n
    BY <2>2, <2>3, <2>5, <2>7, <1>1
  <2>10. \A i \in 1 .. Len(t.data) : t.data[i] = data[i + (n - Len(t.data))]
    <3>. HIDE DEF t, c, n
    <3>. QED
      BY <2>5, <2>7, <2>9
  <2>11. /\ t.data \in Seq(S)
         /\ GetEndTime(t.time, Len(t.data)) = end
    <3>. HIDE DEF t, c, n, end
    <3>. QED
      BY <2>5, <2>6, <2>7, <2>9
  <2>. HIDE DEF t, c
  <2>. QED
    BY <1>1, <2>8, <2>9, <2>10, <2>11 DEF IsTailFrom
<1>. QED
  BY <1>1, <1>2, <1>3, <1>4

LEMMA IntervalSize ==
  ASSUME NEW a \in Nat, NEW n \in Nat, a <= n
  PROVE  Cardinality(a + 1 .. n) = n - a
<1>1. Cardinality(a + 1 .. n) = IF a + 1 > n THEN 0 ELSE n - (a + 1) + 1
  BY FS_Interval
<1>. QED
  BY <1>1

\* Two samples of a packet are at least a period apart.
LEMMA SamplesArePeriodsApart ==
  ASSUME NEW start \in Int, NEW i \in Int, NEW j \in Int, i < j
  PROVE  /\ GetEndTime(start, i) \in Int
         /\ GetEndTime(start, j) \in Int
         /\ GetEndTime(start, i) + Period <= GetEndTime(start, j)
<1>1. i * Period <= (j - 1) * Period
  BY ProductsAreOrdered, PeriodAssumption
<1>2. /\ (i - 1) * Period = i * Period - Period
      /\ i * Period \in Int
      /\ (j - 1) * Period \in Int
  BY PeriodAssumption, SMT
<1>. QED
  BY <1>1, <1>2, PeriodAssumption DEF GetEndTime

\* Wherever the desired time falls, leftTrim keeps the samples from the first
\* one at or after it on, or the last one within half a period of it, unless
\* it falls into the packet's first period (utilities.cpp: leftTrim).
THEOREM TrimKeepsWhatItShould ==
  ASSUME NEW S, NEW data \in Seq(S), data # <<>>,
         NEW desired \in Int, NEW start \in Int
  PROVE  TrimsToTail(desired, data, start)
<1>. DEFINE n     == Len(data)
            end   == GetEndTime(start, n)
            delta == desired - start
            t     == LeftTrim(desired, data, start)
            early == InFirstPeriod(desired, n, start)
            \* what the trim of the samples behind the first a is
            after(a) == /\ Kept(desired, n, start) = a + 1 .. n
                        /\ Len(t.data) = n - a
                        /\ \A i \in 1 .. n - a : t.data[i] = data[a + i]
<1>1. n \in Nat \ {0} /\ end \in Int /\ end >= start
  <2>1. n \in Nat \ {0}
    OBVIOUS
  <2>. HIDE DEF n
  <2>. QED
    BY <2>1, EndTime
<1>2. ASSUME NEW a \in 0 .. n, after(a)
      PROVE  /\ Len(t.data) = Cardinality(Kept(desired, n, start))
             /\ \A i \in 1 .. Len(t.data) : t.data[i] = data[n - Len(t.data) + i]
  <2>. HIDE DEF n, t
  <2>1. Cardinality(a + 1 .. n) = n - a
    BY <1>1, IntervalSize
  <2>2. n - (n - a) = a
    BY <1>1
  <2>. QED
    BY <1>2, <2>1, <2>2
<1>3. ASSUME early \/ \E a \in 0 .. n : after(a),
             t.time >= desired,
             desired >= start => t.time < desired + Period
      PROVE  TrimsToTail(desired, data, start)
  BY <1>2, <1>3, Zenon DEF TrimsToTail
<1>4. CASE delta <= 0
  <2>1. t.data = data /\ t.time = start
    BY <1>4, TrimmedFields DEF LeftTrim
  <2>2. Kept(desired, n, start) = 0 + 1 .. n
    <3>1. ASSUME NEW i \in 1 .. n
          PROVE  GetEndTime(start, i) \in Int /\ GetEndTime(start, i) >= start
      <4>1. i \in Nat \ {0}
        BY <1>1
      <4>. QED
        BY <4>1, EndTime
    <3>. QED
      BY <1>4, <3>1 DEF Kept
  <2>3. after(0)
    <3>. HIDE DEF t
    <3>. QED
      BY <1>1, <2>1, <2>2
  <2>4. t.time >= desired /\ (desired >= start => t.time < desired + Period)
    <3>. HIDE DEF t
    <3>. QED
      BY <1>4, <2>1, PeriodAssumption
  <2>5. 0 \in 0 .. n
    BY <1>1
  <2>. HIDE DEF t, n
  <2>. QED
    BY <1>3, <2>3, <2>4, <2>5
<1>5. ASSUME t.time = desired
      PROVE  t.time >= desired /\ (desired >= start => t.time < desired + Period)
  BY <1>5, PeriodAssumption
<1>6. CASE delta > 0 /\ Abs(end - desired) < Half
  <2>1. t = Trimmed(LastOf(data), desired)
    BY <1>1, <1>6 DEF LeftTrim
  <2>2. t.data = <<data[n]>> /\ t.time = desired
    BY <2>1, TrimmedFields DEF LastOf
  <2>3. Kept(desired, n, start) = n - 1 + 1 .. n
    <3>1. ASSUME NEW i \in 1 .. n, i # n
          PROVE  ~ (GetEndTime(start, i) >= desired)
      <4>1. GetEndTime(start, i) \in Int /\ GetEndTime(start, i) + Period <= end
        BY <1>1, <3>1, SamplesArePeriodsApart
      <4>. QED
        BY <1>1, <1>6, <4>1, PeriodAssumption DEF Abs
    <3>2. GetEndTime(start, n) >= desired \/ desired - GetEndTime(start, n) < Half
      BY <1>1, <1>6, PeriodAssumption DEF Abs
    <3>. HIDE DEF n
    <3>. QED
      BY <1>1, <3>1, <3>2 DEF Kept
  <2>4. after(n - 1)
    <3>. HIDE DEF t, n
    <3>. QED
      BY <1>1, <2>2, <2>3
  <2>5. n - 1 \in 0 .. n
    BY <1>1
  <2>. HIDE DEF t, n
  <2>. QED
    BY <1>3, <1>5, <2>2, <2>4, <2>5
<1>7. CASE delta > 0 /\ ~ (Abs(end - desired) < Half) /\ desired > end
  <2>1. t = Trimmed(<<>>, desired)
    BY <1>1, <1>7 DEF LeftTrim
  <2>2. t.data = <<>> /\ t.time = desired
    BY <2>1, TrimmedFields
  <2>3. Kept(desired, n, start) = n + 1 .. n
    <3>1. ASSUME NEW i \in 1 .. n
          PROVE  ~ (GetEndTime(start, i) >= desired)
      <4>1. GetEndTime(start, i) \in Int /\ GetEndTime(start, i) <= end
        <5>1. CASE i = n
          BY <1>1, <5>1
        <5>2. CASE i # n
          <6>1. GetEndTime(start, i) \in Int /\ GetEndTime(start, i) + Period <= end
            BY <1>1, <5>2, SamplesArePeriodsApart
          <6>. QED
            BY <1>1, <6>1, PeriodAssumption
        <5>. QED
          BY <5>1, <5>2
      <4>. QED
        BY <1>1, <1>7, <4>1
    <3>2. ~ (desired - GetEndTime(start, n) < Half)
      BY <1>1, <1>7, PeriodAssumption DEF Abs
    <3>. HIDE DEF n
    <3>. QED
      BY <1>1, <3>1, <3>2 DEF Kept
  <2>4. after(n)
    <3>. HIDE DEF t, n
    <3>. QED
      BY <1>1, <2>2, <2>3
  <2>5. n \in 0 .. n
    BY <1>1
  <2>. HIDE DEF t, n
  <2>. QED
    BY <1>3, <1>5, <2>2, <2>4, <2>5
<1>8. CASE /\ delta > 0 /\ ~ (Abs(end - desired) < Half) /\ ~ (desired > end)
           /\ RoundDiv(delta) = 0 \/ delta < Period
  <2>1. t = Trimmed(LastOf(data), desired)
    BY <1>1, <1>8 DEF LeftTrim
  <2>2. t.time = desired
    BY <2>1, TrimmedFields
  <2>3. delta < Period
    <3>1. RoundDiv(delta) = 0 => 2 * delta < 2 * (0 * Period) + Period
      BY <1>8, RoundedQuotient
    <3>. QED
      BY <1>8, <3>1, PeriodAssumption
  <2>4. Abs(end - desired) >= Half
    BY <1>1, <1>8, PeriodAssumption DEF Abs
  <2>5. early
    BY <1>1, <1>8, <2>3, <2>4 DEF InFirstPeriod
  <2>. HIDE DEF t, n
  <2>. QED
    BY <1>3, <1>5, <2>2, <2>5
<1>9. CASE /\ delta > 0 /\ ~ (Abs(end - desired) < Half) /\ ~ (desired > end)
           /\ RoundDiv(delta) # 0 /\ ~ (delta < Period)
  <2>. DEFINE c == CeilDiv(delta)
  <2>1. delta \in Nat /\ delta <= (n - 1) * Period
    BY <1>1, <1>9, PeriodAssumption DEF GetEndTime
  <2>2. /\ RoundDiv(delta) \in Nat
        /\ RoundDiv(delta) < n
        /\ c < n
    BY <2>1, <1>1, QuotientsInsidePacket, RoundedQuotient
  <2>3. /\ c \in Nat
        /\ delta <= c * Period
        /\ c * Period < delta + Period
        /\ c * Period \in Nat
    BY <2>1, CeiledQuotient, ProductIsNat, PeriodAssumption
  <2>4. t = Trimmed(SubSeq(data, c + 1, n), start + c * Period)
    BY <1>1, <1>9, <2>2 DEF LeftTrim
  <2>5. t.data = SubSeq(data, c + 1, n) /\ t.time = start + c * Period
    <3>. HIDE DEF t, c
    <3>. QED
      BY <2>4, TrimmedFields
  <2>. HIDE DEF c
  <2>6. /\ Len(SubSeq(data, c + 1, n)) = n - c
        /\ \A i \in 1 .. n - c : SubSeq(data, c + 1, n)[i] = data[c + i]
    BY <1>1, <2>2, <2>3
  <2>7. Kept(desired, n, start) = c + 1 .. n
    <3>1. ASSUME NEW i \in c + 1 .. n
          PROVE  GetEndTime(start, i) >= desired
      <4>1. c * Period <= (i - 1) * Period /\ (i - 1) * Period \in Int
        BY <2>3, ProductsAreOrdered, PeriodAssumption
      <4>. QED
        BY <2>1, <2>3, <4>1 DEF GetEndTime
    <3>2. ASSUME NEW i \in 1 .. n, GetEndTime(start, i) >= desired
          PROVE  c < i
      <4>1. (i - 1) * Period \in Int /\ i * Period = (i - 1) * Period + Period
        BY PeriodAssumption, SMT
      <4>2. c * Period < i * Period
        BY <2>1, <2>3, <3>2, <4>1, PeriodAssumption DEF GetEndTime
      <4>. QED
        BY <2>3, <4>2, FactorsAreOrdered, PeriodAssumption
    <3>3. n \in c + 1 .. n /\ c + 1 .. n \subseteq 1 .. n
      BY <1>1, <2>2, <2>3
    <3>. HIDE DEF n
    <3>. QED
      BY <1>1, <2>3, <3>1, <3>2, <3>3 DEF Kept
  <2>8. after(c)
    <3>. HIDE DEF t, n
    <3>. QED
      BY <2>5, <2>6, <2>7
  <2>9. t.time >= desired /\ (desired >= start => t.time < desired + Period)
    <3>. HIDE DEF t
    <3>. QED
      BY <2>1, <2>3, <2>5, PeriodAssumption
  <2>10. c \in 0 .. n
    BY <1>1, <2>2, <2>3
  <2>. HIDE DEF t, n
  <2>. QED
    BY <1>3, <2>8, <2>9, <2>10
<1>. QED
  BY <1>1, <1>4, <1>6, <1>7, <1>8, <1>9

---------------------------------------------------------------------------
(* getGapSizeInSamples: of the three candidates one is within half a       *)
(* period, so the search "the hard way" is never needed, and a gap of k    *)
(* samples means the packet starts at most k + 1 periods and a half late.  *)

LEMMA DistanceIsNat ==
  ASSUME NEW delta \in Nat, NEW k \in Int
  PROVE  Distance(delta, k) \in Nat
<1>1. k * Period \in Int
  BY PeriodAssumption, SMT
<1>. QED
  BY <1>1 DEF Distance, Abs

\* The best candidate is the number of periods nearest to the distance, the
\* smaller one when two are equally near.
LEMMA NearestCandidate ==
  ASSUME NEW delta \in Nat
  PROVE  /\ BestCandidate(delta) \in Nat
         /\ 2 * (BestCandidate(delta) * Period) < 2 * delta + Period
         /\ 2 * delta <= 2 * (BestCandidate(delta) * Period) + Period
         /\ Distance(delta, BestCandidate(delta)) <= Half
<1>. DEFINE r   == RoundDiv(delta)
             gap == Larger(0, r - 1)
             b   == BestCandidate(delta)
             d(k) == Distance(delta, k)
             best(k) == \A j \in Candidates(delta) :
                           \/ d(k) < d(j)
                           \/ d(k) = d(j) /\ k <= j
<1>1. /\ r \in Nat
      /\ r * Period \in Nat
      /\ 2 * delta < 2 * (r * Period) + Period
      /\ 2 * (r * Period) <= 2 * delta + Period
  BY RoundedQuotient, ProductIsNat, PeriodAssumption
<1>2. gap \in Nat /\ Candidates(delta) = {gap - 1, gap, gap + 1}
  BY <1>1 DEF Candidates, Larger
<1>3. /\ r \in Candidates(delta)
      /\ r # 0 => r - 1 \in Candidates(delta)
  BY <1>1, <1>2 DEF Larger
<1>4. /\ d(gap - 1) \in Nat
      /\ d(gap) \in Nat
      /\ d(gap + 1) \in Nat
  <2>1. gap - 1 \in Int /\ gap \in Int /\ gap + 1 \in Int
    BY <1>2
  <2>. HIDE DEF gap
  <2>. QED
    BY <2>1, DistanceIsNat
<1>5. \E k \in Candidates(delta) : best(k)
  <2>. HIDE DEF gap, d
  <2>. QED
    BY <1>2, <1>4
<1>6. b \in Candidates(delta) /\ best(b)
  BY <1>5 DEF BestCandidate
<1>. HIDE DEF r, b
<1>7. b \in Int /\ b * Period \in Int
  <2>1. b \in Int
    BY <1>2, <1>6
  <2>. QED
    BY <2>1, PeriodAssumption, SMT
<1>8. 2 * d(r) <= Period
  BY <1>1, PeriodAssumption DEF Distance, Abs
<1>9. d(b) \in Nat
  BY <1>7, DistanceIsNat
<1>10. d(r) \in Nat
  <2>1. r \in Int
    BY <1>1
  <2>. QED
    BY <2>1, DistanceIsNat
<1>11. d(b) <= d(r)
  <2>. QED
    BY <1>3, <1>6, <1>9, <1>10
<1>12. /\ 2 * (b * Period) <= 2 * delta + Period
       /\ 2 * delta <= 2 * (b * Period) + Period
       /\ 2 * d(b) <= Period
  <2>2. 2 * d(b) <= Period
    BY <1>8, <1>11, <1>9, <1>10, PeriodAssumption
  <2>. QED
    BY <1>7, <2>2, PeriodAssumption DEF Distance, Abs
<1>13. b \in Nat
  <2>1. (-1) * Period < b * Period
    BY <1>7, <1>12, PeriodAssumption, SMT
  <2>2. -1 < b
    BY <1>7, <2>1, FactorsAreOrdered, PeriodAssumption
  <2>. QED
    BY <1>7, <2>2
<1>14. 2 * (b * Period) # 2 * delta + Period
  <2>. SUFFICES ASSUME 2 * (b * Period) = 2 * delta + Period
                PROVE  FALSE
    OBVIOUS
  <2>1. r = b
    <3>1. r * Period <= b * Period
      BY <1>1, <1>7, PeriodAssumption
    <3>2. b * Period < (r + 1) * Period /\ r * Period < (b + 1) * Period
      <4>1. /\ (r + 1) * Period = r * Period + Period
            /\ (b + 1) * Period = b * Period + Period
        BY <1>1, <1>7, PeriodAssumption, SMT
      <4>. QED
        BY <1>1, <1>7, <3>1, <4>1, PeriodAssumption
    <3>3. b < r + 1
      BY <1>1, <1>7, <3>2, FactorsAreOrdered, PeriodAssumption
    <3>4. r < b + 1
      BY <1>1, <1>7, <3>2, FactorsAreOrdered, PeriodAssumption
    <3>. QED
      BY <1>1, <1>7, <3>3, <3>4
  <2>2. b # 0
    BY <1>7, <1>13, PeriodAssumption, SMT
  <2>3. b - 1 \in Candidates(delta)
    BY <1>3, <2>1, <2>2
  <2>4. (b - 1) * Period = b * Period - Period
    BY <1>7, PeriodAssumption, SMT
  <2>5. d(b - 1) = d(b)
    BY <1>7, <2>4, PeriodAssumption DEF Distance, Abs
  <2>6. d(b) \in Nat
    BY <1>7, DistanceIsNat
  <2>7. \/ d(b) < d(b - 1)
        \/ d(b) = d(b - 1) /\ b <= b - 1
    BY <1>6, <2>3
  <2>. QED
    BY <1>7, <2>5, <2>6, <2>7
<1>15. d(b) <= Half
  BY <1>12, <1>9, PeriodAssumption
<1>16. 2 * (b * Period) < 2 * delta + Period
  BY <1>7, <1>12, <1>14, PeriodAssumption
<1>. QED
  BY <1>12, <1>13, <1>15, <1>16 DEF b

\* Whenever a packet starts, one of the three candidates is within half a period
\* of it: the search "the hard way" is never entered (utilities.cpp:339-379).
THEOREM OneCandidateIsNear ==
  \A start, last \in Int :
      LET delta == Abs(start - last)
      IN  Distance(delta, BestCandidate(delta)) <= Half
<1>1. ASSUME NEW start \in Int, NEW last \in Int
      PROVE  Abs(start - last) \in Nat
  BY DEF Abs
<1>. QED
  BY <1>1, NearestCandidate

LEMMA GapIsInt ==
  ASSUME NEW start \in Int, NEW last \in Int
  PROVE  GetGapSizeInSamples(start, last) \in Int
<1>1. Abs(start - last) \in Nat
  BY DEF Abs
<1>. QED
  BY <1>1, NearestCandidate DEF GetGapSizeInSamples, Larger

\* For every jitter of the packet's start: the gap is the number of sample
\* instants that have passed between the last sample and the packet, and is
\* negative when the packet starts early (utilities.cpp: getGapSizeInSamples).
THEOREM GapCountsMissingInstants ==
  \A start, last \in Int : CountsMissingSamples(start, last)
<1>. SUFFICES ASSUME NEW start \in Int, NEW last \in Int
              PROVE  CountsMissingSamples(start, last)
  OBVIOUS
<1>. DEFINE delta == Abs(start - last)
            b     == BestCandidate(delta)
            m     == Larger(0, b - 1)
<1>1. delta \in Nat
  BY DEF Abs
<1>2. /\ b \in Nat
      /\ 2 * (b * Period) < 2 * delta + Period
      /\ 2 * delta <= 2 * (b * Period) + Period
      /\ Distance(delta, b) <= Half
      /\ b * Period \in Nat
  BY <1>1, NearestCandidate, ProductIsNat, PeriodAssumption
<1>3. m \in Nat
  BY <1>2 DEF Larger
<1>4. MissingInstants(delta) = 1 .. m
  <2>. HIDE DEF b, delta
  <2>1. ASSUME NEW k \in 1 .. delta, 2 * k * Period + Period < 2 * delta
        PROVE  k <= b - 1
    <3>1. 2 * k * Period = 2 * (k * Period) /\ k * Period \in Nat
      BY <1>1, PeriodAssumption, SMT
    <3>2. k * Period < b * Period
      BY <1>1, <1>2, <2>1, <3>1, PeriodAssumption
    <3>. QED
      BY <1>1, <1>2, <3>2, FactorsAreOrdered, PeriodAssumption
  <2>2. ASSUME NEW k \in 1 .. m
        PROVE  k \in 1 .. delta /\ 2 * k * Period + Period < 2 * delta
    <3>1. k \in Nat \ {0} /\ k + 1 <= b
      BY <1>2, <1>3 DEF Larger
    <3>2. (k + 1) * Period <= b * Period
      BY <1>2, <3>1, ProductsAreOrdered, PeriodAssumption
    <3>3. /\ (k + 1) * Period = k * Period + Period
          /\ 2 * k * Period = 2 * (k * Period)
          /\ k * Period \in Nat
          /\ k <= k * Period
      BY <3>1, PeriodAssumption, SMT
    <3>4. 2 * k * Period + Period < 2 * delta
      BY <1>1, <1>2, <3>2, <3>3, PeriodAssumption
    <3>. QED
      BY <1>1, <3>1, <3>3, <3>4, PeriodAssumption
  <2>. QED
    BY <1>2, <1>3, <2>1, <2>2 DEF MissingInstants, Larger
<1>5. Cardinality(MissingInstants(delta)) = m
  <2>. HIDE DEF m
  <2>1. Cardinality(1 .. m) = IF 1 > m THEN 0 ELSE m - 1 + 1
    BY <1>3, FS_Interval
  <2>. QED
    BY <1>3, <1>4, <2>1
<1>. HIDE DEF b
<1>6. CASE start < last
  <2>1. delta = last - start /\ ~ (Abs(last + Period - start) < Half)
    BY <1>6, PeriodAssumption DEF Abs
  <2>2. GetGapSizeInSamples(start, last) = - m
    <3>1. GetGapSizeInSamples(start, last) = (-1) * m
      BY <1>2, <1>6, <2>1 DEF GetGapSizeInSamples, b
    <3>. HIDE DEF m
    <3>. QED
      BY <1>3, <3>1
  <2>3. Abs(last + Period - start) >= Half
    BY <2>1, PeriodAssumption DEF Abs
  <2>. HIDE DEF m
  <2>. QED
    BY <1>5, <1>6, <2>2, <2>3 DEF CountsMissingSamples
<1>7. CASE ~ (start < last)
  <2>1. delta = start - last
    BY <1>7 DEF Abs
  <2>2. CASE Abs(last + Period - start) < Half \/ start = last
    <3>1. GetGapSizeInSamples(start, last) = 0
      BY <2>2 DEF GetGapSizeInSamples
    <3>2. 2 * delta <= 3 * Period
      BY <2>1, <2>2, PeriodAssumption DEF Abs
    <3>3. b * Period < 2 * Period
      BY <1>1, <1>2, <3>2, PeriodAssumption
    <3>4. b < 2
      BY <1>2, <3>3, FactorsAreOrdered, PeriodAssumption
    <3>5. m = 0
      BY <1>2, <3>4 DEF Larger
    <3>. HIDE DEF m
    <3>. QED
      BY <1>5, <1>7, <3>1, <3>5 DEF CountsMissingSamples
  <2>3. CASE ~ (Abs(last + Period - start) < Half \/ start = last)
    <3>1. GetGapSizeInSamples(start, last) = 1 * m
      BY <1>2, <1>7, <2>3 DEF GetGapSizeInSamples, b
    <3>. HIDE DEF m
    <3>. QED
      BY <1>3, <1>5, <1>7, <3>1 DEF CountsMissingSamples
  <2>. QED
    BY <2>2, <2>3
<1>. QED
  BY <1>6, <1>7

LEMMA GapBoundsDelay ==
  ASSUME NEW start \in Int, NEW last \in Int, start >= last,
         NEW k \in Nat, GetGapSizeInSamples(start, last) <= k
  PROVE  start - last <= (k + 1) * Period + Half
<1>. DEFINE delta == Abs(start - last)
             b     == BestCandidate(delta)
<1>1. delta \in Nat /\ delta = start - last
  BY DEF Abs
<1>2. /\ b \in Int
      /\ Distance(delta, b) <= Half
      /\ b * Period \in Int
  BY <1>1, NearestCandidate, PeriodAssumption, SMT
<1>3. /\ (k + 1) * Period = k * Period + Period
      /\ k * Period \in Nat
  BY PeriodAssumption, ProductIsNat, SMT
<1>4. CASE Abs(last + Period - start) < Half \/ start = last
  BY <1>3, <1>4, PeriodAssumption DEF Abs
<1>5. CASE ~ (Abs(last + Period - start) < Half \/ start = last)
  <2>1. GetGapSizeInSamples(start, last) = Larger(0, b - 1)
    BY <1>1, <1>2, <1>5 DEF GetGapSizeInSamples, Larger
  <2>2. b <= k + 1
    BY <1>2, <2>1 DEF Larger
  <2>3. b * Period <= (k + 1) * Period
    BY <1>2, <2>2, ProductsAreOrdered, PeriodAssumption
  <2>4. delta <= b * Period + Half
    BY <1>1, <1>2, PeriodAssumption DEF Distance, Abs
  <2>. QED
    BY <1>1, <1>2, <1>3, <2>3, <2>4, PeriodAssumption
<1>. QED
  BY <1>4, <1>5

---------------------------------------------------------------------------
(* The largest of finitely many integers.  The induction is on the set     *)
(* they are indexed by: a smallest nonempty subset without a largest one   *)
(* would be one that has a largest one, plus an element.                   *)

LEMMA LargestExists ==
  ASSUME NEW S, IsFiniteSet(S), S # {}, NEW g \in [S -> Int]
  PROVE  \E p \in S : \A q \in S : g[q] <= g[p]
<1>. DEFINE hasLargest(T) == \E p \in T : \A q \in T : g[q] <= g[p]
             without == {T \in FiniteSubsetsOf(S) : T # {} /\ ~ hasLargest(T)}
<1>. SUFFICES ASSUME without # {} PROVE FALSE
  BY FS_Subset DEF FiniteSubsetsOf
<1>1. PICK T \in without :
          \A U \in without : ~ (<<U, T>> \in StrictSubsetOrdering(S))
  <2>1. without \subseteq FiniteSubsetsOf(S)
    OBVIOUS
  <2>. HIDE DEF without
  <2>. QED
    BY <2>1, FS_StrictSubsetOrderingWellFounded, WFMin
<1>2. /\ T \subseteq S
      /\ IsFiniteSet(T)
      /\ T # {}
      /\ ~ hasLargest(T)
  BY DEF FiniteSubsetsOf
<1>3. PICK x \in T : TRUE
  BY <1>2
<1>. DEFINE U == T \ {x}
<1>4. IsFiniteSet(U) /\ U \subseteq S
  BY <1>2, FS_RemoveElement
<1>5. <<U, T>> \in StrictSubsetOrdering(S)
  BY <1>2, <1>3 DEF StrictSubsetOrdering
<1>6. U = {} \/ hasLargest(U)
  BY <1>1, <1>4, <1>5 DEF FiniteSubsetsOf
<1>7. x \in S /\ g[x] \in Int
  BY <1>2
<1>8. CASE U = {}
  <2>1. \A q \in T : q = x
    BY <1>8
  <2>. QED
    BY <1>2, <1>3, <1>7, <2>1
<1>9. CASE hasLargest(U)
  <2>1. PICK p \in U : \A q \in U : g[q] <= g[p]
    BY <1>9
  <2>2. p \in T /\ g[p] \in Int
    BY <1>2, <2>1
  <2>3. CASE g[x] <= g[p]
    BY <1>2, <2>1, <2>2, <2>3
  <2>4. CASE ~ (g[x] <= g[p])
    <3>1. \A q \in U : g[q] \in Int
      BY <1>2
    <3>2. \A q \in T : g[q] <= g[x]
      BY <1>7, <2>1, <2>2, <2>4, <3>1
    <3>. QED
      BY <1>2, <1>3, <3>2
  <2>. QED
    BY <2>3, <2>4
<1>. QED
  BY <1>6, <1>8, <1>9

LEMMA LargestOfFinite ==
  ASSUME NEW S, IsFiniteSet(S), S # {}, NEW g \in [S -> Int]
  PROVE  /\ \E p \in S : LargestOf({g[q] : q \in S}) = g[p]
         /\ \A p \in S : g[p] <= LargestOf({g[q] : q \in S})
<1>1. \E m \in {g[q] : q \in S} : \A k \in {g[q] : q \in S} : k <= m
  BY LargestExists
<1>. QED
  BY <1>1 DEF LargestOf

---------------------------------------------------------------------------
(* What the constructors compute (StartUp) is a natural number, and the    *)
(* mask of the detector outlasts the window of each of its pipelines.      *)

LEMMA StartUpIsNat ==
  ASSUME NEW p \in Pipelines
  PROVE  /\ Window[p] \in Nat \ {0}
         /\ EnvelopeOrder(p) \in Nat \ {0}
         /\ EstimateStartUp(p) \in Nat
         /\ EstimateStartUp(p) >= Window[p] * Period
         /\ PipelineGroupDelay(p) \in Nat
<1>1. /\ Window[p] \in Nat \ {0}
      /\ EnvelopeLength[p] - 1 \in Nat \ {0}
      /\ NumberOfCascades[p] \in Nat
      /\ FilterStartUp[p] \in Nat
  BY StartUpAssumption
<1>2. EnvelopeOrder(p) \in Nat \ {0}
  <2>. DEFINE order == EnvelopeLength[p] - 1
  <2>1. order \in Nat \ {0} /\ order % 2 \in 0 .. 1
    BY <1>1
  <2>. HIDE DEF order
  <2>2. order + (order % 2) \in Nat \ {0}
    BY <2>1
  <2>. QED
    BY <2>2 DEF EnvelopeOrder, order
<1>3. /\ (EnvelopeOrder(p) + Window[p] - 1) * Period \in Nat
      /\ (EnvelopeOrder(p) + Window[p] - 1) * Period >= Window[p] * Period
  <2>1. /\ EnvelopeOrder(p) + Window[p] - 1 \in Nat
        /\ Window[p] <= EnvelopeOrder(p) + Window[p] - 1
    BY <1>1, <1>2
  <2>. QED
    BY <1>1, <2>1, ProductIsNat, ProductsAreOrdered, PeriodAssumption
<1>4. Window[p] * Period \in Nat
  BY <1>1, ProductIsNat, PeriodAssumption
<1>5. PipelineGroupDelay(p) \in Nat
  <2>1. 2 * NumberOfCascades[p] + EnvelopeOrder(p) \div 2 \in Nat
    BY <1>1, <1>2
  <2>. QED
    BY <2>1, ProductIsNat, PeriodAssumption DEF PipelineGroupDelay
<1>. QED
  BY <1>1, <1>2, <1>3, <1>4, <1>5 DEF EstimateStartUp, Larger

LEMMA GroupDelayIsNat == GroupDelay \in Nat
<1>. DEFINE g == [p \in Pipelines |-> PipelineGroupDelay(p)]
<1>1. g \in [Pipelines -> Int] /\ \A p \in Pipelines : g[p] \in Nat
  BY StartUpIsNat
<1>2. {PipelineGroupDelay(p) : p \in Pipelines} = {g[q] : q \in Pipelines}
  OBVIOUS
<1>3. \E p \in Pipelines : LargestOf({g[q] : q \in Pipelines}) = g[p]
  <2>. HIDE DEF g
  <2>. QED
    BY <1>1, LargestOfFinite, StartUpAssumption
<1>. QED
  BY <1>1, <1>2, <1>3 DEF GroupDelay

\* The samples the detector masks after a reset are at least those each of its
\* characteristic functions needs, so that no zero of an unfilled window gets
\* past the mask (pipeline.cpp: estimateStartUp; detector.cpp: the constructor).
THEOREM MaskOutlastsWindows ==
  /\ MaskFirstNSamples \in Nat
  /\ \A p \in Pipelines : Window[p] <= MaskFirstNSamples
<1>. DEFINE g == [p \in Pipelines |-> EstimateStartUp(p)]
             m == LargestOf({g[q] : q \in Pipelines})
<1>1. g \in [Pipelines -> Int] /\ \A p \in Pipelines : g[p] \in Nat
  BY StartUpIsNat
<1>2. {EstimateStartUp(p) : p \in Pipelines} = {g[q] : q \in Pipelines}
  OBVIOUS
<1>3. /\ \E p \in Pipelines : m = g[p]
      /\ \A p \in Pipelines : g[p] <= m
  <2>1. g \in [Pipelines -> Int] /\ IsFiniteSet(Pipelines) /\ Pipelines # {}
    BY <1>1, StartUpAssumption
  <2>. HIDE DEF g
  <2>. QED
    BY <2>1, LargestOfFinite
<1>4. m \in Nat
  BY <1>1, <1>3
<1>5. MaskFirstNSamples = CeilDiv(m)
  BY <1>2 DEF MaskFirstNSamples, CeilDiv
<1>6. /\ MaskFirstNSamples \in Nat
      /\ m <= MaskFirstNSamples * Period
  <2>. HIDE DEF m
  <2>. QED
    BY <1>4, <1>5, CeiledQuotient
<1>7. ASSUME NEW p \in Pipelines
      PROVE  Window[p] <= MaskFirstNSamples
  <2>1. /\ Window[p] \in Nat
        /\ Window[p] * Period \in Int
        /\ Window[p] * Period <= g[p]
        /\ g[p] \in Nat
        /\ g[p] <= m
    BY <1>1, <1>3, StartUpIsNat, ProductIsNat, PeriodAssumption
  <2>2. MaskFirstNSamples * Period \in Int
    BY <1>6, ProductIsNat, PeriodAssumption
  <2>. HIDE DEF m, g
  <2>3. Window[p] * Period < (MaskFirstNSamples + 1) * Period
    <3>1. (MaskFirstNSamples + 1) * Period = MaskFirstNSamples * Period + Period
      BY <1>6, PeriodAssumption, SMT
    <3>. QED
      BY <1>4, <1>6, <2>1, <2>2, <3>1, PeriodAssumption
  <2>4. Window[p] < MaskFirstNSamples + 1
    BY <1>6, <2>1, <2>3, FactorsAreOrdered, PeriodAssumption
  <2>. QED
    BY <1>6, <2>1, <2>4
<1>. QED
  BY <1>6, <1>7

---------------------------------------------------------------------------
(* The detector (Detector): what comes out of it, and when.                *)

LEMMA FunctionIsSequence ==
  ASSUME NEW S, NEW n \in Nat, NEW f \in [1 .. n -> S]
  PROVE  f \in Seq(S) /\ Len(f) = n
BY SMT

Packets(n) == [Pipelines -> [1 .. n -> Levels]]

LEMMA PacketSize ==
  ASSUME NEW n \in Nat, NEW x \in Packets(n)
  PROVE  /\ SizeOf(x) = n
         /\ \A p \in Pipelines : x[p] \in [1 .. n -> Levels] /\ Len(x[p]) = n
<1>1. ASSUME NEW p \in Pipelines
      PROVE  x[p] \in [1 .. n -> Levels] /\ Len(x[p]) = n
  <2>1. x[p] \in [1 .. n -> Levels]
    BY DEF Packets
  <2>. QED
    BY <2>1, FunctionIsSequence
<1>2. (CHOOSE p \in Pipelines : TRUE) \in Pipelines
  BY StartUpAssumption
<1>. QED
  BY <1>1, <1>2 DEF SizeOf

\* One pipeline's characteristic function is a level at every sample.
LEMMA CharacteristicFunctionIsLevels ==
  ASSUME NEW n \in Nat, NEW p, NEW e, NEW xs \in [1 .. n -> Levels],
         NEW i \in 1 .. n
  PROVE  CharacteristicFunction(p, e, xs)[i] \in Levels
<1>1. Len(xs) = n
  BY FunctionIsSequence
<1>. QED
  BY <1>1 DEF CharacteristicFunction, Levels

LEMMA AggregateIsLevel ==
  ASSUME NEW n \in Nat, NEW x \in Packets(n), NEW e, NEW i \in 1 .. n
  PROVE  Aggregate(e, x, i) \in Levels
<1>. DEFINE g == [p \in Pipelines |->
                    CharacteristicFunction(p, e[p], x[p])[i]]
<1>1. \A p \in Pipelines : g[p] \in Levels
  BY PacketSize, CharacteristicFunctionIsLevels
<1>2. g \in [Pipelines -> Int]
  BY <1>1 DEF Levels, Low, Between, High
<1>3. {CharacteristicFunction(p, e[p], x[p])[i] : p \in Pipelines}
        = {g[q] : q \in Pipelines}
  OBVIOUS
<1>4. \E p \in Pipelines : LargestOf({g[q] : q \in Pipelines}) = g[p]
  <2>. HIDE DEF g
  <2>. QED
    BY <1>2, LargestOfFinite, StartUpAssumption
<1>. QED
  BY <1>1, <1>3, <1>4 DEF Aggregate

\* The output has a level for every sample of the packet, and no level above
\* Low before the mask counter is past the mask.
LEMMA OutputOfDetector ==
  ASSUME NEW n \in Nat, NEW x \in Packets(n), NEW reset \in BOOLEAN
  PROVE  /\ DetectorOutput(reset, x) \in Seq(Levels)
         /\ Len(DetectorOutput(reset, x)) = n
         /\ \A i \in 1 .. n :
                DetectorOutput(reset, x)[i] # Low
                    => ~ (MaskAfter(reset) + i <= MaskFirstNSamples)
<1>. DEFINE cf == DetectorOutput(reset, x)
<1>1. cf = [i \in 1 .. n |->
              IF MaskAfter(reset) + i <= MaskFirstNSamples THEN Low
              ELSE Aggregate(ExceededAfter(reset), x, i)]
  BY PacketSize DEF DetectorOutput
<1>2. cf \in [1 .. n -> Levels]
  BY <1>1, AggregateIsLevel DEF Levels
<1>3. cf \in Seq(Levels) /\ Len(cf) = n
  <2>. HIDE DEF cf
  <2>. QED
    BY <1>2, FunctionIsSequence
<1>. QED
  BY <1>1, <1>3

LEMMA DetectorStepTypes ==
  ASSUME DetectorTypeOK, NEW n \in Nat, NEW reset \in BOOLEAN,
         DetectorStep(reset, n)
  PROVE  DetectorTypeOK'
<1>1. MaskFirstNSamples \in Nat
  BY MaskOutlastsWindows
<1>2. /\ mMaskCounter' \in 0 .. MaskFirstNSamples
      /\ delayLine' \in 0 .. MaskFirstNSamples
  BY <1>1 DEF DetectorTypeOK, DetectorStep, AtMost, MaskAfter, DelayLineAfter
<1>3. ASSUME NEW p \in Pipelines
      PROVE  /\ AtMost(Window[p], ExceededAfter(reset)[p] + n) \in Nat
             /\ AtMost(Window[p], ExceededAfter(reset)[p] + n) <= Window[p]
  <2>1. Window[p] \in Nat
    BY StartUpIsNat
  <2>2. ExceededAfter(reset)[p] \in Nat
    BY DEF DetectorTypeOK, ExceededAfter
  <2>. QED
    BY <2>1, <2>2 DEF AtMost
<1>4. /\ mExceededWindow' \in [Pipelines -> Nat]
      /\ \A p \in Pipelines : mExceededWindow'[p] <= Window[p]
  BY <1>3 DEF DetectorStep
<1>. QED
  BY <1>2, <1>4 DEF DetectorTypeOK

---------------------------------------------------------------------------
(* The trigger (ThresholdTrigger): it is locked only if it was, or if the  *)
(* data reached the on level, and a pick is a sample of the data.          *)

LEMMA LockNeedsActivation ==
  ASSUME NEW reset, NEW cf, NEW i, LockedAt(reset, cf, i)
  PROVE  LockAfter(reset) \/ \E j \in 1 .. i : cf[j] = OnLevel
BY DEF LockedAt

LEMMA PicksAreInPacket ==
  ASSUME NEW S, NEW cf \in Seq(S), NEW reset, NEW start \in Int,
         NEW pick \in PickTimes(reset, cf, start)
  PROVE  \E i \in 1 .. Len(cf) :
            /\ pick = start + (i - 1) * Period
            /\ pick \in Int
            /\ start <= pick
            /\ pick <= GetEndTime(start, Len(cf))
            /\ LockedAt(reset, cf, i)
<1>1. PICK i \in PickedSamples(reset, cf) : pick = start + (i - 1) * Period
  BY DEF PickTimes
<1>2. i \in 1 .. Len(cf) /\ TriggerSignal(reset, cf)[i] = 1
  BY DEF PickedSamples
<1>3. LockedAt(reset, cf, i)
  BY <1>2 DEF TriggerSignal
<1>4. (i - 1) * Period \in Nat /\ (i - 1) * Period <= (Len(cf) - 1) * Period
  BY <1>2, ProductIsNat, ProductsAreOrdered, PeriodAssumption
<1>5. (Len(cf) - 1) * Period \in Int
  BY PeriodAssumption, SMT
<1>. QED
  BY <1>1, <1>2, <1>3, <1>4, <1>5 DEF GetEndTime
===========================================================================
