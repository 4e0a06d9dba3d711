--------------------------- MODULE PickerProofs ---------------------------
(***************************************************************************)
(* What the picker (Picker) promises, for every bank of pipelines, every   *)
(* sampling period, tolerance, burn-in and packet.                         *)
(***************************************************************************)
EXTENDS Picker, DetectorProofs

---------------------------------------------------------------------------
(* The inductive invariant.  Beside the types:                             *)
(*  - until the first packet is processed the trigger is not locked and no *)
(*    time is recorded;                                                    *)
(*  - the detector's mask runs down with the delay lines of its filters,   *)
(*    so that what passes the mask comes from warm filters;                *)
(*  - the trigger is only locked by samples that passed mask and burn-in.  *)

BeforeFirstInv ==
    mFirstPacket => ~waterLevel /\ mLastSampleTime = 0

TimesInv == mFirstSampleTime <= mLastSampleTime

MaskInv == delayLine = mMaskCounter

LockInv ==
    waterLevel => /\ delayLine = MaskFirstNSamples
                  /\ PastBurnIn(mLastSampleTime, mFirstSampleTime)

PickerInv ==
    /\ TypeOK
    /\ BeforeFirstInv
    /\ TimesInv
    /\ MaskInv
    /\ LockInv

LEMMA BurnInTimeIsNat == BurnInTime \in Nat
BY GroupDelayIsNat, PickerAssumption, ProductIsNat DEF BurnInTime

---------------------------------------------------------------------------
(* What the trigger is given of a packet: nothing if the packet ends       *)
(* before the burn-in does, and otherwise a tail of it that begins after   *)
(* the burn-in.  The trim of the straddling packet never comes back empty. *)

LEMMA TriggerInputFacts ==
  ASSUME NEW first \in Int, NEW start \in Int,
         NEW cf \in Seq(Levels), cf # <<>>
  PROVE  IF PastBurnIn(GetEndTime(start, Len(cf)), first)
           THEN IsTailFrom(TriggerInput(first, start, cf),
                           first + BurnInTime, cf, start, Levels)
           ELSE TriggerInput(first, start, cf).data = <<>>
<1>. DEFINE end   == GetEndTime(start, Len(cf))
             input == TriggerInput(first, start, cf)
<1>1. /\ Len(cf) \in Nat \ {0}
      /\ end \in Int
      /\ end >= start
      /\ BurnInTime \in Nat
      /\ first + BurnInTime \in Int
  <2>1. Len(cf) \in Nat \ {0}
    OBVIOUS
  <2>2. end \in Int /\ end >= start
    BY <2>1, EndTime
  <2>. QED
    BY <2>1, <2>2, BurnInTimeIsNat
<1>2. CASE PastBurnIn(start, first)
  <2>1. input = Trimmed(cf, start)
    BY <1>2 DEF TriggerInput
  <2>2. input.data = cf /\ input.time = start
    BY <2>1, TrimmedFields
  <2>3. start >= first + BurnInTime /\ PastBurnIn(end, first)
    BY <1>1, <1>2 DEF PastBurnIn
  <2>4. IsTailFrom(input, first + BurnInTime, cf, start, Levels)
    <3>. HIDE DEF input
    <3>. QED
      BY <1>1, <2>2, <2>3 DEF IsTailFrom
  <2>. QED
    BY <2>3, <2>4
<1>3. CASE ~ PastBurnIn(start, first) /\ PastBurnIn(end, first)
  <2>1. input = LeftTrim(first + BurnInTime, cf, start)
    BY <1>3 DEF TriggerInput
  <2>2. first + BurnInTime <= end
    BY <1>1, <1>3 DEF PastBurnIn
  <2>3. IsTailFrom(input, first + BurnInTime, cf, start, Levels)
    BY <1>1, <2>1, <2>2, TrimKeepsTail
  <2>. QED
    BY <1>3, <2>3
<1>4. CASE ~ PastBurnIn(end, first)
  <2>1. ~ PastBurnIn(start, first)
    BY <1>1, <1>4 DEF PastBurnIn
  <2>2. input = Trimmed(<<>>, start)
    BY <1>4, <2>1 DEF TriggerInput
  <2>. QED
    BY <1>4, <2>2, TrimmedFields
<1>. QED
  BY <1>2, <1>3, <1>4

\* The times of the picks of a packet, group delay apart, lie in the tail the
\* trigger was given.
LEMMA PicksAreInTail ==
  ASSUME NEW desired \in Int, NEW start \in Int, NEW reset,
         NEW cf \in Seq(Levels), NEW input,
         IsTailFrom(input, desired, cf, start, Levels),
         NEW pick \in PickTimes(reset, input.data, input.time - GroupDelay)
  PROVE  /\ pick \in Int
         /\ pick + GroupDelay >= desired
         /\ pick + GroupDelay >= start
         /\ pick + GroupDelay <= GetEndTime(start, Len(cf))
<1>1. /\ input.data \in Seq(Levels)
      /\ Len(input.data) \in Nat \ {0}
      /\ input.time \in Int
      /\ input.time >= desired
      /\ input.time >= start
      /\ GetEndTime(input.time, Len(input.data)) <= GetEndTime(start, Len(cf))
  BY DEF IsTailFrom
<1>2. GroupDelay \in Nat
  BY GroupDelayIsNat
<1>3. input.time - GroupDelay \in Int
  BY <1>1, <1>2
<1>4. PICK i \in 1 .. Len(input.data) :
          /\ pick \in Int
          /\ input.time - GroupDelay <= pick
          /\ pick <= GetEndTime(input.time - GroupDelay, Len(input.data))
          /\ LockedAt(reset, input.data, i)
  BY <1>1, <1>3, PicksAreInPacket
<1>5. Len(cf) \in Nat \ {0}
  BY DEF IsTailFrom
<1>6. /\ GetEndTime(start, Len(cf)) \in Int
      /\ GetEndTime(input.time, Len(input.data)) \in Int
      /\ GetEndTime(input.time - GroupDelay, Len(input.data)) \in Int
  BY <1>1, <1>3, <1>5, EndTime
<1>7. GetEndTime(input.time - GroupDelay, Len(input.data))
        = GetEndTime(input.time, Len(input.data)) - GroupDelay
  <2>1. (Len(input.data) - 1) * Period \in Int
    BY <1>1, PeriodAssumption, SMT
  <2>. QED
    BY <1>1, <1>2, <2>1 DEF GetEndTime
<1>. QED
  BY <1>1, <1>2, <1>4, <1>6, <1>7

\* An on level in the tail the trigger was given, or a lock it already had,
\* means that the filters were warm when the locked sample came in, and so
\* that they are once the packet is through them.
LEMMA LockedMeansWarm ==
  ASSUME TypeOK, MaskInv, LockInv,
         NEW n \in Nat \ {0}, NEW x \in Packets(n), NEW reset \in BOOLEAN,
         NEW desired, NEW start, NEW input,
         IsTailFrom(input, desired, DetectorOutput(reset, x), start, Levels),
         NEW i \in 1 .. Len(input.data), LockedAt(reset, input.data, i)
  PROVE  /\ DelayLineAfter(reset) + n - Len(input.data) + i > MaskFirstNSamples
         /\ AtMost(MaskFirstNSamples, DelayLineAfter(reset) + n) = MaskFirstNSamples
<1>. DEFINE cf == DetectorOutput(reset, x)
<1>1. /\ MaskFirstNSamples \in Nat
      /\ delayLine \in 0 .. MaskFirstNSamples
      /\ DelayLineAfter(reset) = MaskAfter(reset)
      /\ DelayLineAfter(reset) \in Nat
  BY MaskOutlastsWindows DEF TypeOK, DetectorTypeOK, MaskInv, DelayLineAfter, MaskAfter
<1>2. Len(cf) = n /\ Len(input.data) \in 1 .. n
  BY OutputOfDetector DEF IsTailFrom
<1>3. SUFFICES DelayLineAfter(reset) + n - Len(input.data) + i > MaskFirstNSamples
  BY <1>1, <1>2 DEF AtMost
<1>4. CASE LockAfter(reset)
  <2>1. DelayLineAfter(reset) = MaskFirstNSamples
    BY <1>4 DEF LockAfter, LockInv, DelayLineAfter
  <2>. DEFINE held == DelayLineAfter(reset)
               size == Len(input.data)
  <2>2. held = MaskFirstNSamples /\ held \in Nat /\ size \in 1 .. n /\ i \in 1 .. size
    BY <1>1, <1>2, <2>1
  <2>3. held + n - size + i > MaskFirstNSamples
    <3>. HIDE DEF held, size
    <3>. QED
      BY <2>2
  <2>. QED
    BY <2>3
<1>5. CASE \E j \in 1 .. i : input.data[j] = OnLevel
  <2>1. PICK j \in 1 .. i : input.data[j] = OnLevel
    BY <1>5
  <2>. DEFINE k == j + (n - Len(input.data))
  <2>2. k \in 1 .. n /\ j \in 1 .. Len(input.data)
    BY <1>2
  <2>3. cf[k] = OnLevel
    BY <1>2, <2>1, <2>2 DEF IsTailFrom
  <2>4. ~ (MaskAfter(reset) + k <= MaskFirstNSamples)
    <3>. HIDE DEF k
    <3>1. cf[k] # Low
      BY <2>3 DEF OnLevel, Low
    <3>. QED
      BY <2>2, <3>1, OutputOfDetector
  <2>. DEFINE held == DelayLineAfter(reset)
               size == Len(input.data)
  <2>5. /\ held \in Nat /\ MaskFirstNSamples \in Nat
        /\ size \in 1 .. n /\ i \in 1 .. size /\ j \in 1 .. i
        /\ ~ (held + (j + (n - size)) <= MaskFirstNSamples)
    BY <1>1, <1>2, <2>4
  <2>6. held + n - size + i > MaskFirstNSamples
    <3>. HIDE DEF held, size, k
    <3>. QED
      BY <2>5
  <2>. QED
    BY <2>6
<1>. QED
  BY <1>4, <1>5, LockNeedsActivation

\* A picked sample is a locked one: it came into warm filters.
LEMMA PickedFromWarmFilters ==
  ASSUME TypeOK, MaskInv, LockInv,
         NEW n \in Nat \ {0}, NEW x \in Packets(n), NEW reset \in BOOLEAN,
         NEW desired, NEW start, NEW input,
         IsTailFrom(input, desired, DetectorOutput(reset, x), start, Levels),
         NEW held \in SamplesHeld(reset, n, input.data)
  PROVE  held \in Int /\ held > MaskFirstNSamples
<1>1. PICK i \in PickedSamples(reset, input.data) :
          held = DelayLineAfter(reset) + n - Len(input.data) + i
  BY DEF SamplesHeld
<1>2. i \in 1 .. Len(input.data) /\ LockedAt(reset, input.data, i)
  BY DEF PickedSamples, TriggerSignal
<1>3. Len(input.data) \in Nat /\ DelayLineAfter(reset) \in Int
  BY MaskOutlastsWindows DEF IsTailFrom, TypeOK, DetectorTypeOK, DelayLineAfter
<1>. QED
  BY <1>1, <1>2, <1>3, LockedMeansWarm

---------------------------------------------------------------------------
(* Picker::apply: what processing a packet does.                           *)

LEMMA PacketIsTyped ==
  ASSUME NEW start \in PacketStarts, NEW n \in 1 .. MaxSamples
  PROVE  /\ start \in Nat
         /\ n \in Nat \ {0}
         /\ Inputs(n) \subseteq Packets(n)
BY PickerAssumption DEF PacketStarts, Inputs, Packets

ProcessEffect(start, n) ==
    /\ now' = now
    /\ mFirstPacket' = FALSE
    /\ mFirstSampleTime' = FirstSampleTimeFor(start)
    /\ mLastSampleTime' = GetEndTime(start, n)
    /\ start >= mLastSampleTime
    /\ lastApply' = IF PastBurnIn(mLastSampleTime', mFirstSampleTime')
                      THEN "triggered" ELSE "burningIn"
    /\ lastApply' = "burningIn" =>
           /\ mOutputPicks' = mOutputPicks
           /\ waterLevel' = LockAfter(GapResets(start))
    /\ lastApply' = "triggered" =>
           \A pick \in mOutputPicks' :
               /\ pick \in Int
               /\ pick + GroupDelay >= mFirstSampleTime' + BurnInTime
               /\ pick + GroupDelay >= start
               /\ pick + GroupDelay <= mLastSampleTime'
    /\ \A held \in pickedWith' :
           held \in pickedWith \/ (held \in Int /\ held > MaskFirstNSamples)
    /\ lastApply' = "triggered" /\ waterLevel' => delayLine' = MaskFirstNSamples

LEMMA ProcessTakesInOrder ==
  ASSUME TypeOK, BeforeFirstInv,
         NEW start \in PacketStarts, NEW n \in 1 .. MaxSamples,
         Process(start, n)
  PROVE  /\ start >= mLastSampleTime
         /\ GetEndTime(start, n) \in Nat
         /\ GetEndTime(start, n) >= start
         /\ FirstSampleTimeFor(start) \in Nat
         /\ GapResets(start) \in BOOLEAN
<1>1. start \in Nat /\ n \in Nat \ {0}
  BY PacketIsTyped
<1>2. GetEndTime(start, n) \in Int /\ GetEndTime(start, n) >= start
  BY <1>1, EndTime
<1>3. start >= mLastSampleTime
  BY <1>1 DEF Process, IsExpired, BeforeFirstInv, TypeOK
<1>. QED
  BY <1>1, <1>2, <1>3 DEF FirstSampleTimeFor, GapResets, TypeOK

LEMMA ProcessDoes ==
  ASSUME TypeOK, BeforeFirstInv, MaskInv, LockInv,
         NEW start \in PacketStarts, NEW n \in 1 .. MaxSamples,
         Process(start, n)
  PROVE  ProcessEffect(start, n)
<1>. DEFINE reset == GapResets(start)
             first == FirstSampleTimeFor(start)
             end   == GetEndTime(start, n)
<1>1. /\ start \in Nat
      /\ n \in Nat \ {0}
      /\ Inputs(n) \subseteq Packets(n)
  BY PacketIsTyped
<1>2. /\ start >= mLastSampleTime
      /\ end \in Nat
      /\ first \in Nat
      /\ reset \in BOOLEAN
  BY ProcessTakesInOrder
<1>3. /\ now' = now
      /\ mFirstPacket' = FALSE
      /\ mFirstSampleTime' = first
      /\ mLastSampleTime' = end
      /\ DetectorStep(reset, n)
  BY DEF Process
<1>. DEFINE input(x) == TriggerInput(first, start, DetectorOutput(reset, x))
             run(x)   == input(x).data # <<>>
<1>4. PICK x \in Inputs(n) :
          /\ TriggerStep(reset, input(x).data)
          /\ mOutputPicks' =
                 IF run(x)
                   THEN PickTimes(reset, input(x).data, input(x).time - GroupDelay)
                   ELSE mOutputPicks
          /\ pickedWith' = IF run(x) THEN SamplesHeld(reset, n, input(x).data)
                           ELSE pickedWith
          /\ lastApply' = IF run(x) THEN "triggered" ELSE "burningIn"
  BY DEF Process
<1>. DEFINE cf == DetectorOutput(reset, x)
             in == input(x)
             desired == first + BurnInTime
<1>5. x \in Packets(n)
  BY <1>1
<1>6. cf \in Seq(Levels) /\ Len(cf) = n /\ cf # <<>>
  <2>1. cf \in Seq(Levels) /\ Len(cf) = n
    BY <1>1, <1>2, <1>5, OutputOfDetector
  <2>. QED
    BY <1>1, <2>1
<1>7. IF PastBurnIn(end, first)
        THEN IsTailFrom(in, desired, cf, start, Levels)
        ELSE in.data = <<>>
  BY <1>1, <1>2, <1>6, TriggerInputFacts
<1>8. CASE ~ PastBurnIn(end, first)
  <2>1. in.data = <<>>
    BY <1>7, <1>8
  <2>2. /\ lastApply' = "burningIn"
        /\ mOutputPicks' = mOutputPicks
        /\ pickedWith' = pickedWith
        /\ waterLevel' = LockAfter(reset)
    BY <1>4, <2>1 DEF TriggerStep
  <2>3. \A held \in pickedWith' :
            held \in pickedWith \/ (held \in Int /\ held > MaskFirstNSamples)
    BY <2>2
  <2>4. /\ ~ PastBurnIn(mLastSampleTime', mFirstSampleTime')
        /\ lastApply' = "burningIn"
        /\ start >= mLastSampleTime
    BY <1>2, <1>3, <1>8, <2>2
  <2>. QED
    BY <1>3, <2>2, <2>3, <2>4, Zenon DEF ProcessEffect
<1>9. CASE PastBurnIn(end, first)
  <2>1. IsTailFrom(in, desired, cf, start, Levels)
    BY <1>7, <1>9
  <2>2. in.data # <<>> /\ Len(in.data) \in 1 .. Len(in.data)
    BY <1>6, <2>1 DEF IsTailFrom
  <2>3. /\ lastApply' = "triggered"
        /\ mOutputPicks' = PickTimes(reset, in.data, in.time - GroupDelay)
        /\ pickedWith' = SamplesHeld(reset, n, in.data)
        /\ waterLevel' = LockedAt(reset, in.data, Len(in.data))
    BY <1>4, <2>2 DEF TriggerStep
  <2>4. desired \in Int /\ start \in Int
    BY <1>1, <1>2, BurnInTimeIsNat
  <2>5. ASSUME NEW i \in 1 .. Len(in.data), LockedAt(reset, in.data, i)
        PROVE  delayLine' = MaskFirstNSamples
    <3>1. AtMost(MaskFirstNSamples, DelayLineAfter(reset) + n) = MaskFirstNSamples
      BY <1>1, <1>2, <1>5, <2>1, <2>5, LockedMeansWarm
    <3>. QED
      BY <1>3, <3>1 DEF DetectorStep
  <2>6. waterLevel' => delayLine' = MaskFirstNSamples
    BY <2>2, <2>3, <2>5
  <2>7. ASSUME NEW pick \in mOutputPicks'
        PROVE  /\ pick \in Int
               /\ pick + GroupDelay >= desired
               /\ pick + GroupDelay >= start
               /\ pick + GroupDelay <= end
    <3>. HIDE DEF in, cf, desired
    <3>1. pick \in PickTimes(reset, in.data, in.time - GroupDelay)
      BY <2>3
    <3>2. /\ pick \in Int
          /\ pick + GroupDelay >= desired
          /\ pick + GroupDelay >= start
          /\ pick + GroupDelay <= GetEndTime(start, Len(cf))
      BY <1>6, <2>1, <2>4, <3>1, PicksAreInTail
    <3>. QED
      BY <1>6, <3>2
  <2>8. \A held \in pickedWith' : held \in Int /\ held > MaskFirstNSamples
    BY <1>1, <1>2, <1>5, <2>1, <2>3, PickedFromWarmFilters
  <2>. QED
    BY <1>2, <1>3, <1>9, <2>3, <2>6, <2>7, <2>8 DEF ProcessEffect
<1>. QED
  BY <1>8, <1>9

---------------------------------------------------------------------------
(* Every step keeps the invariant.                                         *)

\* Nothing a picker promises depends on the clock or on how an apply that
\* assigned nothing ended.
LEMMA KeptByOthers ==
  ASSUME PickerInv, KeepState \/ TimePasses, TypeOK'
  PROVE  PickerInv'
<1>1. UNCHANGED <<detectorVars, triggerVars, mFirstPacket, mFirstSampleTime,
                  mLastSampleTime>>
  BY DEF KeepState, TimePasses
<1>2. /\ BeforeFirstInv' = BeforeFirstInv
      /\ TimesInv' = TimesInv
      /\ MaskInv' = MaskInv
      /\ LockInv' = LockInv
  BY <1>1 DEF BeforeFirstInv, TimesInv, MaskInv, LockInv, PastBurnIn,
              detectorVars, triggerVars
<1>. QED
  BY <1>2 DEF PickerInv

LEMMA TypesWithoutPacket ==
  ASSUME TypeOK, Throw \/ Skip \/ TimePasses
  PROVE  TypeOK'
<1>1. CASE Throw \/ Skip
  <2>1. /\ UNCHANGED <<detectorVars, triggerVars, now, mFirstPacket,
                       mFirstSampleTime, mLastSampleTime, mOutputPicks, pickedWith>>
        /\ lastApply' \in {"threw", "skipped"}
    BY <1>1 DEF Throw, Skip, KeepState
  <2>. QED
    BY <2>1 DEF TypeOK, DetectorTypeOK, TriggerTypeOK, detectorVars, triggerVars
<1>2. CASE TimePasses
  <2>1. now' \in 0 .. MaxTime
    BY <1>2, PickerAssumption DEF TimePasses, TypeOK
  <2>2. UNCHANGED <<detectorVars, triggerVars, mFirstPacket, mFirstSampleTime,
                    mLastSampleTime, mOutputPicks, lastApply, pickedWith>>
    BY <1>2 DEF TimePasses
  <2>. QED
    BY <2>1, <2>2 DEF TypeOK, DetectorTypeOK, TriggerTypeOK, detectorVars, triggerVars
<1>. QED
  BY <1>1, <1>2

LEMMA TypesOfTrigger ==
  ASSUME TriggerTypeOK, NEW reset \in BOOLEAN, NEW cf, TriggerStep(reset, cf)
  PROVE  TriggerTypeOK'
<1>1. mLastThresholdSample' \in {0, 1}
  BY DEF TriggerTypeOK, TriggerStep, LastAfter
<1>2. LockAfter(reset) \in BOOLEAN /\ LockedAt(reset, cf, Len(cf)) \in BOOLEAN
  BY DEF TriggerTypeOK, LockAfter, LockedAt
<1>3. waterLevel' \in BOOLEAN
  BY <1>2 DEF TriggerStep
<1>. QED
  BY <1>1, <1>3 DEF TriggerTypeOK

LEMMA TypesOfProcess ==
  ASSUME TypeOK, BeforeFirstInv, MaskInv, LockInv,
         NEW start \in PacketStarts, NEW n \in 1 .. MaxSamples,
         Process(start, n)
  PROVE  TypeOK'
<1>1. ProcessEffect(start, n)
  BY ProcessDoes
<1>2. /\ GetEndTime(start, n) \in Nat
      /\ FirstSampleTimeFor(start) \in Nat
      /\ GapResets(start) \in BOOLEAN
  BY ProcessTakesInOrder
<1>3. DetectorTypeOK'
  BY <1>2, PacketIsTyped, DetectorStepTypes DEF Process, TypeOK
<1>4. TriggerTypeOK'
  <2>1. PICK input : TriggerStep(GapResets(start), input.data)
    BY DEF Process
  <2>. QED
    BY <1>2, <2>1, TypesOfTrigger DEF TypeOK
<1>5. mOutputPicks' \subseteq Int /\ pickedWith' \subseteq Int
  BY <1>1 DEF ProcessEffect, TypeOK
<1>6. lastApply' \in {"triggered", "burningIn"}
  BY <1>1 DEF ProcessEffect
<1>7. /\ now' \in 0 .. MaxTime
      /\ mFirstPacket' \in BOOLEAN
      /\ mFirstSampleTime' \in Nat
      /\ mLastSampleTime' \in Nat
  BY <1>1, <1>2 DEF ProcessEffect, TypeOK
<1>. QED
  BY <1>3, <1>4, <1>5, <1>6, <1>7 DEF TypeOK

LEMMA KeptByProcess ==
  ASSUME PickerInv,
         NEW start \in PacketStarts, NEW n \in 1 .. MaxSamples,
         Process(start, n)
  PROVE  PickerInv'
<1>. USE DEF PickerInv
<1>1. ProcessEffect(start, n)
  BY ProcessDoes
<1>2. /\ GetEndTime(start, n) \in Nat
      /\ GetEndTime(start, n) >= start
      /\ start >= mLastSampleTime
      /\ start \in Nat
      /\ GapResets(start) \in BOOLEAN
  BY ProcessTakesInOrder, PacketIsTyped
<1>3. TypeOK'
  BY TypesOfProcess
<1>4. BeforeFirstInv'
  BY <1>1 DEF BeforeFirstInv, ProcessEffect
<1>5. TimesInv'
  BY <1>1, <1>2 DEF TimesInv, ProcessEffect, FirstSampleTimeFor, TypeOK
<1>6. MaskInv'
  BY DEF MaskInv, Process, DetectorStep, DelayLineAfter, MaskAfter
<1>7. LockInv'
  <2>1. SUFFICES ASSUME waterLevel'
                 PROVE  /\ delayLine' = MaskFirstNSamples
                        /\ PastBurnIn(mLastSampleTime', mFirstSampleTime')
    BY DEF LockInv, PastBurnIn
  <2>2. CASE PastBurnIn(mLastSampleTime', mFirstSampleTime')
    <3>1. CASE lastApply' = "triggered"
      BY <1>1, <2>1, <2>2, <3>1 DEF ProcessEffect
    <3>. QED
      BY <1>1, <2>2, <3>1 DEF ProcessEffect
  <2>3. CASE ~ PastBurnIn(mLastSampleTime', mFirstSampleTime')
    \* The trigger kept its lock, without a reset: the burn-in was over before.
    <3>1. LockAfter(GapResets(start))
      BY <1>1, <2>1, <2>3 DEF ProcessEffect
    <3>2. ~ GapResets(start) /\ waterLevel /\ ~ mFirstPacket
      BY <1>2, <3>1 DEF LockAfter, BeforeFirstInv
    <3>3. mFirstSampleTime' = mFirstSampleTime
      BY <1>1, <3>2 DEF ProcessEffect, FirstSampleTimeFor
    <3>4. PastBurnIn(mLastSampleTime, mFirstSampleTime)
      BY <3>2 DEF LockInv
    <3>5. PastBurnIn(mLastSampleTime', mFirstSampleTime')
      BY <1>1, <1>2, <3>3, <3>4, BurnInTimeIsNat DEF ProcessEffect, PastBurnIn, TypeOK
    <3>. QED
      BY <2>3, <3>5
  <2>. QED
    BY <2>2, <2>3
<1>. QED
  BY <1>3, <1>4, <1>5, <1>6, <1>7

LEMMA PickerInit == Init => PickerInv
<1>. SUFFICES ASSUME Init PROVE PickerInv
  OBVIOUS
<1>1. TypeOK
  <2>1. DetectorTypeOK
    <3>1. \A p \in Pipelines : Window[p] \in Nat /\ 0 <= Window[p]
      BY StartUpIsNat
    <3>. QED
      BY <3>1, MaskOutlastsWindows DEF Init, DetectorInit, DetectorTypeOK
  <2>2. TriggerTypeOK
    BY DEF Init, TriggerInit, TriggerTypeOK
  <2>. QED
    BY <2>1, <2>2, PickerAssumption DEF Init, TypeOK
<1>2. ~ waterLevel /\ BeforeFirstInv /\ LockInv
  BY DEF Init, TriggerInit, BeforeFirstInv, LockInv
<1>3. TimesInv /\ MaskInv
  BY DEF Init, DetectorInit, TimesInv, MaskInv
<1>. QED
  BY <1>1, <1>2, <1>3 DEF PickerInv

\* A step lets time pass, rejects or skips a packet, or processes one.
LEMMA StepsOfPicker ==
  ASSUME Next
  PROVE  \/ Throw \/ Skip \/ TimePasses
         \/ \E start \in PacketStarts, n \in 1 .. MaxSamples : Process(start, n)
<1>1. CASE TimePasses \/ RejectMalformed
  BY <1>1 DEF RejectMalformed
<1>2. CASE \E start \in PacketStarts, n \in 1 .. MaxSamples : Apply(start, n)
  <2>1. PICK start \in PacketStarts, n \in 1 .. MaxSamples : Apply(start, n)
    BY <1>2
  <2>2. CASE SkipLatent(start) \/ SkipExpired(start, n)
    BY <2>2 DEF SkipLatent, SkipExpired
  <2>3. CASE RejectFuture(start, n) \/ RejectUnknownGap(start, n)
    BY <2>3 DEF RejectFuture, RejectUnknownGap
  <2>. QED
    BY <2>1, <2>2, <2>3 DEF Apply
<1>. QED
  BY <1>1, <1>2 DEF Next

LEMMA PickerNext == PickerInv /\ [Next]_vars => PickerInv'
<1>. SUFFICES ASSUME PickerInv, [Next]_vars
              PROVE  PickerInv'
  OBVIOUS
<1>1. CASE Throw \/ Skip \/ TimePasses
  BY <1>1, TypesWithoutPacket, KeptByOthers DEF PickerInv, Throw, Skip
<1>2. CASE \E start \in PacketStarts, n \in 1 .. MaxSamples : Process(start, n)
  BY <1>2, KeptByProcess
<1>3. CASE UNCHANGED vars
  BY <1>3 DEF vars, PickerInv, TypeOK, DetectorTypeOK, TriggerTypeOK,
              BeforeFirstInv, TimesInv, MaskInv, LockInv, PastBurnIn,
              detectorVars, triggerVars
<1>. QED
  BY <1>1, <1>2, <1>3, StepsOfPicker

LEMMA PickerAlways == Spec => []PickerInv
BY PickerInit, PickerNext, PTL DEF Spec

---------------------------------------------------------------------------
(* The theorems.                                                           *)

\* Whatever packets arrive and whenever, the counters of the detector stay
\* below their limits and every time a picker keeps is one it can keep
\* (picker.cpp:80-303).
THEOREM TypeCorrect == Spec => []TypeOK
<1>1. PickerInv => TypeOK
  BY DEF PickerInv
<1>. QED
  BY <1>1, PickerAlways, PTL

\* No pick is earlier than the end of the burn-in of the samples it was
\* computed from: the straddling packet is trimmed to it (picker.cpp:245-276).
THEOREM NoPickDuringBurnIn == Spec => []PicksAfterBurnIn
<1>1. Init => PicksAfterBurnIn
  BY DEF Init, PicksAfterBurnIn
<1>2. PickerInv /\ PicksAfterBurnIn /\ [Next]_vars => PicksAfterBurnIn'
  <2>. SUFFICES ASSUME PickerInv, PicksAfterBurnIn, [Next]_vars
                PROVE  PicksAfterBurnIn'
    OBVIOUS
  <2>1. CASE Throw \/ Skip
    BY <2>1 DEF Throw, Skip, PicksAfterBurnIn
  <2>2. CASE TimePasses \/ UNCHANGED vars
    BY <2>2 DEF TimePasses, vars, PicksAfterBurnIn
  <2>3. CASE \E start \in PacketStarts, n \in 1 .. MaxSamples : Process(start, n)
    <3>1. PICK start \in PacketStarts, n \in 1 .. MaxSamples : Process(start, n)
      BY <2>3
    <3>2. ProcessEffect(start, n)
      BY <3>1, ProcessDoes DEF PickerInv
    <3>. QED
      BY <3>2 DEF ProcessEffect, PicksAfterBurnIn
  <2>. QED
    BY <2>1, <2>2, <2>3, StepsOfPicker
<1>. QED
  BY <1>1, <1>2, PickerAlways, PTL DEF Spec

\* Every picked sample came into filters whose delay lines were full: more
\* samples than the mask is long went into them since the last reset
\* (detector.cpp, picker.cpp:209-233).
THEOREM NoPickFromColdFilters == Spec => []PicksFromWarmFilters
<1>1. Init => PicksFromWarmFilters
  BY DEF Init, PicksFromWarmFilters
<1>2. PickerInv /\ PicksFromWarmFilters /\ [Next]_vars => PicksFromWarmFilters'
  <2>. SUFFICES ASSUME PickerInv, PicksFromWarmFilters, [Next]_vars
                PROVE  PicksFromWarmFilters'
    OBVIOUS
  <2>1. CASE Throw \/ Skip
    BY <2>1 DEF Throw, Skip, KeepState, PicksFromWarmFilters
  <2>2. CASE TimePasses \/ UNCHANGED vars
    BY <2>2 DEF TimePasses, vars, PicksFromWarmFilters
  <2>3. CASE \E start \in PacketStarts, n \in 1 .. MaxSamples : Process(start, n)
    <3>1. PICK start \in PacketStarts, n \in 1 .. MaxSamples : Process(start, n)
      BY <2>3
    <3>2. ProcessEffect(start, n)
      BY <3>1, ProcessDoes DEF PickerInv
    <3>. QED
      BY <3>2 DEF ProcessEffect, PicksFromWarmFilters
  <2>. QED
    BY <2>1, <2>2, <2>3, StepsOfPicker
<1>. QED
  BY <1>1, <1>2, PickerAlways, PTL DEF Spec

\* The trigger sees every sample after the burn-in, and until then is not
\* locked by what came before the reset (picker.cpp:218-276).
THEOREM NothingHeldBackAfterBurnIn == Spec => []BurnInEndsOnTime
<1>1. Init => BurnInEndsOnTime
  BY DEF Init, TriggerInit, BurnInEndsOnTime
<1>2. PickerInv /\ BurnInEndsOnTime /\ [Next]_vars => BurnInEndsOnTime'
  <2>. SUFFICES ASSUME PickerInv, BurnInEndsOnTime, [Next]_vars
                PROVE  BurnInEndsOnTime'
    OBVIOUS
  <2>1. LockInv'
    BY PickerNext DEF PickerInv
  <2>2. CASE Throw \/ Skip
    BY <2>1, <2>2 DEF Throw, Skip, BurnInEndsOnTime, LockInv, PastBurnIn
  <2>3. CASE TimePasses \/ UNCHANGED vars
    BY <2>3 DEF TimePasses, vars, BurnInEndsOnTime, PastBurnIn, triggerVars
  <2>4. CASE \E start \in PacketStarts, n \in 1 .. MaxSamples : Process(start, n)
    <3>1. PICK start \in PacketStarts, n \in 1 .. MaxSamples : Process(start, n)
      BY <2>4
    <3>2. ProcessEffect(start, n)
      BY <3>1, ProcessDoes DEF PickerInv
    <3>. QED
      BY <2>1, <3>2 DEF ProcessEffect, BurnInEndsOnTime, LockInv, PastBurnIn
  <2>. QED
    BY <2>2, <2>3, <2>4, StepsOfPicker
<1>. QED
  BY <1>1, <1>2, PickerAlways, PTL DEF Spec

\* A packet never yields a pick in time that was already processed, nor
\* beyond its own end.
THEOREM PicksMoveForward == Spec => PicksAdvance
<1>1. PickerInv /\ [Next]_vars
        => [ now' = now /\ lastApply' = "triggered" =>
               \A pick \in mOutputPicks' :
                   /\ pick + GroupDelay >= mLastSampleTime
                   /\ pick + GroupDelay <= mLastSampleTime' ]_vars
  <2>. SUFFICES ASSUME PickerInv, Next, now' = now, lastApply' = "triggered",
                       NEW pick \in mOutputPicks'
                PROVE  /\ pick + GroupDelay >= mLastSampleTime
                       /\ pick + GroupDelay <= mLastSampleTime'
    OBVIOUS
  <2>1. CASE Throw \/ Skip
    BY <2>1 DEF Throw, Skip
  <2>2. CASE TimePasses
    BY <2>2 DEF TimePasses, PickerInv, TypeOK
  <2>3. CASE \E start \in PacketStarts, n \in 1 .. MaxSamples : Process(start, n)
    <3>1. PICK start \in PacketStarts, n \in 1 .. MaxSamples : Process(start, n)
      BY <2>3
    <3>2. /\ start >= mLastSampleTime
          /\ start \in Nat
          /\ mLastSampleTime \in Nat
      BY <3>1, ProcessTakesInOrder, PacketIsTyped DEF PickerInv, TypeOK
    <3>3. ProcessEffect(start, n)
      BY <3>1, ProcessDoes DEF PickerInv
    <3>. QED
      BY <3>2, <3>3, GroupDelayIsNat DEF ProcessEffect
  <2>. QED
    BY <2>1, <2>2, <2>3, StepsOfPicker
<1>. QED
  BY <1>1, PickerAlways, PTL DEF Spec, PicksAdvance

\* How far a packet that continues the samples before it ends after them.
LEMMA ContinuedPacket ==
  ASSUME PickerInv, NEW start \in PacketStarts, NEW n \in 1 .. MaxSamples,
         Process(start, n), ~ mFirstPacket, mFirstSampleTime' = mFirstSampleTime
  PROVE  GetEndTime(start, n) - mLastSampleTime
           <= (GapTolerance + MaxSamples) * Period + Half
<1>. USE DEF PickerInv
<1>1. /\ start >= mLastSampleTime
      /\ start \in Nat
      /\ mLastSampleTime \in Nat
      /\ mFirstSampleTime \in Nat
      /\ n \in Nat \ {0}
  BY ProcessTakesInOrder, PacketIsTyped DEF TypeOK
<1>2. ~ GapResets(start)
  <2>1. SUFFICES ASSUME GapResets(start) PROVE FALSE
    OBVIOUS
  <2>2. start = mLastSampleTime
    <3>1. ProcessEffect(start, n)
      BY ProcessDoes
    <3>2. mFirstSampleTime = start
      BY <2>1, <3>1 DEF ProcessEffect, FirstSampleTimeFor
    <3>. QED
      BY <1>1, <3>2 DEF TimesInv
  <2>3. GetGapSizeInSamples(start, mLastSampleTime) = 0
    BY <2>2 DEF GetGapSizeInSamples
  <2>. QED
    BY <2>1, <2>3, PickerAssumption DEF GapResets
<1>3. GetGapSizeInSamples(start, mLastSampleTime) <= GapTolerance
  <2>1. GetGapSizeInSamples(start, mLastSampleTime) \in Int
    BY <1>1, GapIsInt
  <2>. QED
    BY <1>2, <2>1, PickerAssumption DEF GapResets
<1>4. start - mLastSampleTime <= (GapTolerance + 1) * Period + Half
  BY <1>1, <1>3, GapBoundsDelay, PickerAssumption
<1>5. (n - 1) * Period <= (MaxSamples - 1) * Period
  BY <1>1, ProductsAreOrdered, PeriodAssumption, PickerAssumption
<1>6. /\ (GapTolerance + 1) * Period + (MaxSamples - 1) * Period
           = (GapTolerance + MaxSamples) * Period
      /\ (GapTolerance + 1) * Period \in Int
      /\ (MaxSamples - 1) * Period \in Int
      /\ (n - 1) * Period \in Int
  <2>1. (GapTolerance + 1) + (MaxSamples - 1) = GapTolerance + MaxSamples
    BY PickerAssumption
  <2>. QED
    BY <1>1, <2>1, Distribute, ProductIsNat, PickerAssumption, PeriodAssumption
<1>. QED
  BY <1>1, <1>4, <1>5, <1>6, PeriodAssumption DEF GetEndTime

\* Samples are fed in the order of their times; between resets no more than
\* the tolerated gap is skipped (picker.cpp:187-233).
THEOREM SamplesAreFedInOrder == Spec => FedInOrder
<1>. DEFINE inOrder ==
              /\ mLastSampleTime' >= mLastSampleTime
              /\ mFirstSampleTime' # mFirstSampleTime
                     => mFirstSampleTime' >= mLastSampleTime
              /\ mFirstSampleTime' = mFirstSampleTime /\ ~mFirstPacket
                     => mLastSampleTime' - mLastSampleTime
                          <= (GapTolerance + MaxSamples) * Period + Half
<1>1. PickerInv /\ [Next]_vars => [inOrder]_vars
  <2>. SUFFICES ASSUME PickerInv, Next PROVE inOrder
    OBVIOUS
  <2>1. CASE Throw \/ Skip \/ TimePasses
    <3>1. /\ UNCHANGED <<mFirstSampleTime, mLastSampleTime>>
          /\ mLastSampleTime \in Nat
      BY <2>1 DEF Throw, Skip, KeepState, TimePasses, PickerInv, TypeOK
    <3>2. (GapTolerance + MaxSamples) * Period \in Nat
      BY PickerAssumption, PeriodAssumption, ProductIsNat
    <3>. QED
      BY <3>1, <3>2, PeriodAssumption
  <2>2. CASE \E start \in PacketStarts, n \in 1 .. MaxSamples : Process(start, n)
    <3>1. PICK start \in PacketStarts, n \in 1 .. MaxSamples : Process(start, n)
      BY <2>2
    <3>2. /\ start >= mLastSampleTime
          /\ GetEndTime(start, n) >= start
          /\ GetEndTime(start, n) \in Nat
          /\ start \in Nat
          /\ mLastSampleTime \in Nat
      BY <3>1, ProcessTakesInOrder, PacketIsTyped DEF PickerInv, TypeOK
    <3>3. ProcessEffect(start, n)
      BY <3>1, ProcessDoes DEF PickerInv
    <3>4. mFirstSampleTime' = mFirstSampleTime /\ ~mFirstPacket
            => mLastSampleTime' - mLastSampleTime
                 <= (GapTolerance + MaxSamples) * Period + Half
      BY <3>1, <3>3, ContinuedPacket DEF ProcessEffect
    <3>. QED
      BY <3>2, <3>3, <3>4 DEF ProcessEffect, FirstSampleTimeFor
  <2>. QED
    BY <2>1, <2>2, StepsOfPicker
<1>. QED
  BY <1>1, PickerAlways, PTL DEF Spec, FedInOrder
===========================================================================
