-------------------------- MODULE AlgorithmProofs --------------------------
(***************************************************************************)
(* What the algorithms of the application compute: the detector and the    *)
(* trigger it feeds (MCDetection), for every bank of pipelines and every   *)
(* way to cut a stream into packets, and the sample times and the pickers  *)
(* of an ini file (MCAlgorithms), for every argument.                      *)
(***************************************************************************)
EXTENDS MCComputation, DetectorProofs, SequenceTheorems

---------------------------------------------------------------------------
(* The inductive invariant: the counters of the detector are in step with  *)
(* the delay lines, and the trigger's copy of the last sample is 0, for    *)
(* nothing but the reset ever assigns it.                                  *)

DetectionInv ==
    /\ DetectorTypeOK
    /\ CountersInStep
    /\ mLastThresholdSample = 0

LEMMA InputIsPacket ==
  ASSUME NEW n \in 1 .. MaxSamples
  PROVE  n \in Nat \ {0} /\ Inputs(n) \subseteq Packets(n)
BY MaxSamplesAssumption DEF Inputs, Packets

\* Whether a reset came first or not, the counters a packet meets are in step.
LEMMA CountersMet ==
  ASSUME DetectionInv, NEW reset \in BOOLEAN
  PROVE  /\ DelayLineAfter(reset) \in 0 .. MaskFirstNSamples
         /\ MaskAfter(reset) = DelayLineAfter(reset)
         /\ \A p \in Pipelines :
                ExceededAfter(reset)[p] = AtMost(Window[p], DelayLineAfter(reset))
<1>1. MaskFirstNSamples \in Nat /\ \A p \in Pipelines : Window[p] \in Nat \ {0}
  BY MaskOutlastsWindows, StartUpIsNat
<1>2. CASE reset
  BY <1>1, <1>2 DEF DelayLineAfter, MaskAfter, ExceededAfter, AtMost
<1>3. CASE ~ reset
  BY <1>3 DEF DelayLineAfter, MaskAfter, ExceededAfter, DetectionInv,
              DetectorTypeOK, CountersInStep
<1>. QED
  BY <1>2, <1>3

LEMMA CountersKept ==
  ASSUME DetectionInv, NEW reset \in BOOLEAN, NEW n \in Nat,
         DetectorStep(reset, n)
  PROVE  CountersInStep'
<1>1. MaskFirstNSamples \in Nat
  BY MaskOutlastsWindows
<1>2. mMaskCounter' = delayLine'
  BY CountersMet DEF DetectorStep
<1>3. ASSUME NEW p \in Pipelines
      PROVE  mExceededWindow'[p] = AtMost(Window[p], delayLine')
  <2>. DEFINE d == DelayLineAfter(reset)
  <2>1. /\ Window[p] \in Nat
        /\ Window[p] <= MaskFirstNSamples
        /\ d \in 0 .. MaskFirstNSamples
        /\ ExceededAfter(reset)[p] = AtMost(Window[p], d)
    BY StartUpIsNat, MaskOutlastsWindows, CountersMet
  <2>2. AtMost(Window[p], AtMost(Window[p], d) + n)
          = AtMost(Window[p], AtMost(MaskFirstNSamples, d + n))
    <3>. HIDE DEF d
    <3>. QED
      BY <1>1, <2>1 DEF AtMost
  <2>. QED
    BY <2>1, <2>2 DEF DetectorStep
<1>. QED
  BY <1>2, <1>3 DEF CountersInStep

LEMMA DetectionStarts == Init => DetectionInv
<1>. SUFFICES ASSUME Init PROVE DetectionInv
  OBVIOUS
<1>1. /\ MaskFirstNSamples \in Nat
      /\ \A p \in Pipelines : Window[p] \in Nat \ {0}
  BY MaskOutlastsWindows, StartUpIsNat
<1>. QED
  BY <1>1 DEF Init, DetectorInit, TriggerInit, DetectionInv, DetectorTypeOK,
              CountersInStep, AtMost

LEMMA DetectionNext == DetectionInv /\ [Next]_vars => DetectionInv'
<1>. SUFFICES ASSUME DetectionInv, [Next]_vars
              PROVE  DetectionInv'
  OBVIOUS
<1>1. CASE Next
  <2>1. PICK reset \in BOOLEAN, n \in 1 .. MaxSamples :
            \E x \in Inputs(n) : Apply(reset, n, x)
    BY <1>1 DEF Next
  <2>2. PICK x \in Inputs(n) : Apply(reset, n, x)
    BY <2>1
  <2>3. n \in Nat
    BY InputIsPacket
  <2>4. DetectorTypeOK'
    BY <2>2, <2>3, DetectorStepTypes DEF Apply, DetectionInv
  <2>5. CountersInStep'
    BY <2>2, <2>3, CountersKept DEF Apply
  <2>6. mLastThresholdSample' = 0
    BY <2>2 DEF Apply, TriggerStep, LastAfter, DetectionInv
  <2>. QED
    BY <2>4, <2>5, <2>6 DEF DetectionInv
<1>2. CASE UNCHANGED vars
  BY <1>2 DEF vars, detectorVars, triggerVars, DetectionInv, DetectorTypeOK,
              CountersInStep
<1>. QED
  BY <1>1, <1>2

LEMMA DetectionAlways == Spec => []DetectionInv
BY DetectionStarts, DetectionNext, PTL DEF Spec

---------------------------------------------------------------------------
(* The theorems.                                                           *)

\* The mask counter, the warm-up counters of the characteristic functions and
\* the filters are never out of step, after any mix of packets and gaps
\* (detector.cpp:173-243, characteristicFunction.cpp:92-135).
THEOREM CountersStayInStep == Spec => []CountersInStep
<1>1. DetectionInv => CountersInStep
  BY DEF DetectionInv
<1>. QED
  BY <1>1, DetectionAlways, PTL

\* A sample beyond the mask of the detector is beyond the mask of every
\* characteristic function, also in the last sample of a packet.
LEMMA BeyondMaskIsWarm ==
  ASSUME NEW p \in Pipelines, NEW n \in Nat, NEW xs \in [1 .. n -> Levels],
         NEW d \in 0 .. MaskFirstNSamples, NEW i \in 1 .. n,
         ~ (d + i <= MaskFirstNSamples)
  PROVE  CharacteristicFunction(p, AtMost(Window[p], d), xs)[i] = xs[i]
<1>1. Len(xs) = n
  BY FunctionIsSequence
<1>2. /\ Window[p] \in Nat \ {0}
      /\ Window[p] <= MaskFirstNSamples
      /\ MaskFirstNSamples \in Nat
  BY StartUpIsNat, MaskOutlastsWindows
<1>3. ~ (i - 1 < StartMask(Window[p], AtMost(Window[p], d), n))
  BY <1>2 DEF StartMask, AtMost
<1>. QED
  BY <1>1, <1>3 DEF CharacteristicFunction

LEMMA OutputOfPacket ==
  ASSUME DetectionInv, NEW reset \in BOOLEAN,
         NEW n \in Nat, NEW x \in Packets(n), NEW i \in 1 .. n
  PROVE  DetectorOutput(reset, x)[i] =
             IF DelayLineAfter(reset) + i <= MaskFirstNSamples THEN Low
             ELSE LargestOf({x[p][i] : p \in Pipelines})
<1>. DEFINE d == DelayLineAfter(reset)
<1>1. /\ d \in 0 .. MaskFirstNSamples
      /\ MaskAfter(reset) = d
      /\ \A p \in Pipelines : ExceededAfter(reset)[p] = AtMost(Window[p], d)
  BY CountersMet
<1>2. DetectorOutput(reset, x)[i] =
          IF d + i <= MaskFirstNSamples THEN Low
          ELSE Aggregate(ExceededAfter(reset), x, i)
  BY <1>1, PacketSize DEF DetectorOutput
<1>3. ASSUME ~ (d + i <= MaskFirstNSamples), NEW p \in Pipelines
      PROVE  CharacteristicFunction(p, ExceededAfter(reset)[p], x[p])[i] = x[p][i]
  <2>1. x[p] \in [1 .. n -> Levels]
    BY PacketSize
  <2>. HIDE DEF d
  <2>. QED
    BY <1>1, <1>3, <2>1, BeyondMaskIsWarm
<1>4. ASSUME ~ (d + i <= MaskFirstNSamples)
      PROVE  Aggregate(ExceededAfter(reset), x, i)
               = LargestOf({x[p][i] : p \in Pipelines})
  <2>1. {CharacteristicFunction(p, ExceededAfter(reset)[p], x[p])[i] : p \in Pipelines}
          = {x[p][i] : p \in Pipelines}
    BY <1>3, <1>4
  <2>. QED
    BY <2>1 DEF Aggregate
<1>. QED
  BY <1>2, <1>4

\* However the stream is cut into packets, a sample comes out as zero if it is
\* one of the first MaskFirstNSamples since the reset, and as the largest value
\* of the bank if not (detector.cpp:173-243).
THEOREM CutsDoNotMatter == Spec => []OutputIndependentOfPackets
<1>1. Init => OutputIndependentOfPackets
  BY DEF Init, OutputIndependentOfPackets
<1>2. DetectionInv /\ OutputIndependentOfPackets /\ [Next]_vars
        => OutputIndependentOfPackets'
  <2>. SUFFICES ASSUME DetectionInv, OutputIndependentOfPackets, [Next]_vars
                PROVE  OutputIndependentOfPackets'
    OBVIOUS
  <2>1. CASE Next
    <3>1. PICK reset \in BOOLEAN, n \in 1 .. MaxSamples :
              \E x \in Inputs(n) : Apply(reset, n, x)
      BY <2>1 DEF Next
    <3>2. PICK x \in Inputs(n) : Apply(reset, n, x)
      BY <3>1
    <3>3. n \in Nat /\ x \in Packets(n)
      BY InputIsPacket
    <3>4. /\ input' = x
          /\ output' = DetectorOutput(reset, x)
          /\ before' = DelayLineAfter(reset)
      BY <3>2 DEF Apply
    <3>5. Len(output') = n
      BY <3>3, <3>4, OutputOfDetector
    <3>6. \A i \in 1 .. n :
              output'[i] = IF before' + i <= MaskFirstNSamples THEN Low
                           ELSE LargestOf({input'[p][i] : p \in Pipelines})
      <4>1. \A i \in 1 .. n :
                DetectorOutput(reset, x)[i] =
                    IF DelayLineAfter(reset) + i <= MaskFirstNSamples THEN Low
                    ELSE LargestOf({x[p][i] : p \in Pipelines})
        BY <3>3, OutputOfPacket
      <4>. QED
        BY <3>4, <4>1
    <3>. QED
      BY <3>5, <3>6 DEF OutputIndependentOfPackets
  <2>2. CASE UNCHANGED vars
    BY <2>2 DEF vars, OutputIndependentOfPackets
  <2>. QED
    BY <2>1, <2>2
<1>. QED
  BY <1>1, <1>2, DetectionAlways, PTL DEF Spec

\* Every activation of the trigger is picked, and inside a packet nothing else
\* is (thresholdTrigger.cpp:182-193).
THEOREM ActivationsArePicked == Spec => []EveryActivationPicked
<1>1. Init => EveryActivationPicked
  BY DEF Init, EveryActivationPicked, Activations
<1>2. DetectionInv /\ EveryActivationPicked /\ [Next]_vars => EveryActivationPicked'
  <2>. SUFFICES ASSUME DetectionInv, EveryActivationPicked, [Next]_vars
                PROVE  EveryActivationPicked'
    OBVIOUS
  <2>1. CASE Next
    <3>1. PICK reset \in BOOLEAN, n \in 1 .. MaxSamples :
              \E x \in Inputs(n) : Apply(reset, n, x)
      BY <2>1 DEF Next
    <3>2. PICK x \in Inputs(n) : Apply(reset, n, x)
      BY <3>1
    <3>. DEFINE cf == DetectorOutput(reset, x)
    <3>3. /\ signal' = TriggerSignal(reset, cf)
          /\ picks' = PickTimes(reset, cf, 0)
          /\ LastAfter(reset) = 0
      BY <3>2 DEF Apply, LastAfter, DetectionInv
    <3>4. /\ cf \in Seq(Levels)
          /\ Len(cf) \in Nat
          /\ Len(signal') = Len(cf)
          /\ \A i \in 1 .. Len(cf) : signal'[i] \in {0, 1}
      <4>1. cf \in Seq(Levels) /\ Len(cf) \in Nat
        BY <3>2, InputIsPacket, OutputOfDetector
      <4>. QED
        BY <3>3, <4>1 DEF TriggerSignal
    <3>. HIDE DEF cf
    <3>5. \A i \in 1 .. Len(cf) : TimeOf(i) = 0 + (i - 1) * Period
      <4>1. \A i \in 1 .. Len(cf) : (i - 1) * Period \in Int
        BY <3>4, PeriodAssumption, SMT
      <4>. QED
        BY <4>1 DEF TimeOf
    <3>6. ASSUME NEW i \in Activations'
          PROVE  TimeOf(i) \in picks'
      <4>1. i \in 1 .. Len(cf) /\ signal'[i] = 1
        BY <3>4 DEF Activations
      <4>2. i # 1 => i - 1 \in 1 .. Len(cf) /\ signal'[i - 1] # 1
        BY <3>4, <4>1 DEF Activations, LockedBefore
      <4>3. LastThresholdSample(reset, cf, i) = 0
        BY <3>3, <3>4, <4>2 DEF LastThresholdSample
      <4>4. i \in PickedSamples(reset, cf)
        BY <3>3, <4>1, <4>3 DEF PickedSamples
      <4>. QED
        BY <3>3, <3>5, <4>1, <4>4 DEF PickTimes
    <3>7. ASSUME NEW pick \in picks' \ {TimeOf(1)}
          PROVE  pick \in {TimeOf(i) : i \in Activations'}
      <4>1. PICK i \in PickedSamples(reset, cf) : pick = 0 + (i - 1) * Period
        BY <3>3 DEF PickTimes
      <4>2. i \in 1 .. Len(cf) /\ signal'[i] = 1
        BY <3>3, <4>1 DEF PickedSamples
      <4>3. pick = TimeOf(i) /\ i # 1
        BY <3>5, <4>1, <4>2
      <4>4. signal'[i - 1] = 0
        BY <3>3, <4>1, <4>3 DEF PickedSamples, LastThresholdSample
      <4>5. i \in Activations'
        BY <3>4, <4>2, <4>3, <4>4 DEF Activations, LockedBefore
      <4>. QED
        BY <4>3, <4>5
    <3>. QED
      BY <3>6, <3>7 DEF EveryActivationPicked, TimeOf
  <2>2. CASE UNCHANGED vars
    BY <2>2 DEF vars, EveryActivationPicked, Activations, LockedBefore, TimeOf
  <2>. QED
    BY <2>1, <2>2
<1>. QED
  BY <1>1, <1>2, DetectionAlways, PTL DEF Spec

---------------------------------------------------------------------------
(* The pickers of an ini file.                                             *)

\* What the definitions read of an ini file, over any set of words.
IniFile(ini, Words) ==
    /\ ini.streams \in Seq([words : Seq(Words)])
    /\ DOMAIN ini.models \subseteq [words : Seq(Words), upper : BOOLEAN]

LEMMA SmallestExists ==
  ASSUME NEW n \in Nat, NEW S \in SUBSET (1 .. n), S # {}
  PROVE  \E k \in S : \A j \in S : k <= j
<1>. DEFINE g == [k \in S |-> - k]
<1>1. IsFiniteSet(S)
  <2>1. IsFiniteSet(1 .. n)
    BY FS_Interval
  <2>. QED
    BY <2>1, FS_Subset
<1>2. g \in [S -> Int]
  OBVIOUS
<1>3. \E k \in S : \A j \in S : g[j] <= g[k]
  <2>. HIDE DEF g
  <2>. QED
    BY <1>1, <1>2, LargestExists
<1>4. PICK k \in S : \A j \in S : g[j] <= g[k]
  BY <1>3
<1>5. \A j \in S : k <= j
  BY <1>4
<1>. QED
  BY <1>5

\* The entries read are those before the first missing number.
LEMMA EntriesArePresent ==
  ASSUME NEW Words, NEW ini, IniFile(ini, Words)
  PROVE  \E k \in 0 .. Len(ini.streams) :
            /\ Present(ini) = 1 .. k
            /\ Entries(ini) \in Seq([words : Seq(Words)])
            /\ Len(Entries(ini)) = k
            /\ \A i \in 1 .. k : Entries(ini)[i] = ini.streams[i]
<1>. DEFINE n == Len(ini.streams)
            isLast(k) == /\ \A i \in 1 .. k : ini.streams[i].words # <<>>
                         /\ k < n => ini.streams[k + 1].words = <<>>
            holes == {i \in 1 .. n : ini.streams[i].words = <<>>}
<1>1. n \in Nat
  BY DEF IniFile
<1>. HIDE DEF n
<1>2. \E k \in 0 .. n : isLast(k)
  <2>1. CASE holes = {}
    <3>1. isLast(n)
      BY <1>1, <2>1
    <3>. QED
      BY <1>1, <3>1
  <2>2. CASE holes # {}
    <3>1. PICK m \in holes : \A j \in holes : m <= j
      BY <1>1, <2>2, SmallestExists
    <3>2. m \in 1 .. n /\ ini.streams[m].words = <<>>
      OBVIOUS
    <3>3. m - 1 \in 0 .. n /\ (m - 1) + 1 = m
      BY <1>1, <3>2
    <3>4. ASSUME NEW i \in 1 .. m - 1
          PROVE  ini.streams[i].words # <<>>
      <4>1. i \in 1 .. n /\ ~ (m <= i)
        BY <1>1, <3>2
      <4>. QED
        BY <3>1, <4>1
    <3>5. isLast(m - 1)
      BY <3>2, <3>3, <3>4
    <3>. QED
      BY <3>3, <3>5
  <2>. QED
    BY <2>1, <2>2
<1>. DEFINE k == CHOOSE l \in 0 .. n : isLast(l)
<1>3. k \in 0 .. n /\ isLast(k)
  BY <1>2
<1>4. Entries(ini) = SubSeq(ini.streams, 1, k)
  BY DEF Entries, n
<1>. HIDE DEF k
<1>5. /\ Entries(ini) \in Seq([words : Seq(Words)])
      /\ Len(Entries(ini)) = k
      /\ \A i \in 1 .. k : Entries(ini)[i] = ini.streams[i]
  <2>1. ini.streams \in Seq([words : Seq(Words)])
    BY DEF IniFile
  <2>2. /\ 1 \in Int /\ k \in Int
        /\ \A i \in 1 .. k : ini.streams[i] \in [words : Seq(Words)]
    <3>1. ASSUME NEW i \in 1 .. k
          PROVE  i \in 1 .. Len(ini.streams)
      BY <1>1, <1>3 DEF n
    <3>2. \A i \in 1 .. Len(ini.streams) : ini.streams[i] \in [words : Seq(Words)]
      BY <2>1, ElementOfSeq
    <3>. QED
      BY <1>1, <1>3, <3>1, <3>2
  <2>3. /\ SubSeq(ini.streams, 1, k) \in Seq([words : Seq(Words)])
        /\ Len(SubSeq(ini.streams, 1, k)) = IF 1 <= k THEN k - 1 + 1 ELSE 0
        /\ \A i \in 1 .. k - 1 + 1 :
              SubSeq(ini.streams, 1, k)[i] = ini.streams[1 + i - 1]
    BY <2>2, SubSeqProperties
  <2>. QED
    BY <1>1, <1>3, <1>4, <2>3
<1>6. Present(ini) = 1 .. k
  <2>1. ASSUME NEW i \in Present(ini)
        PROVE  i \in 1 .. k
    <3>1. i \in 1 .. n /\ \A j \in 1 .. i : ini.streams[j].words # <<>>
      BY DEF Present, n
    <3>2. CASE k < i
      <4>1. k < n /\ k + 1 \in 1 .. i
        BY <1>1, <1>3, <3>1, <3>2
      <4>. QED
        BY <1>3, <3>1, <4>1
    <3>. QED
      BY <1>1, <1>3, <3>1, <3>2
  <2>2. ASSUME NEW i \in 1 .. k
        PROVE  i \in Present(ini)
    <3>1. i \in 1 .. n /\ \A j \in 1 .. i : j \in 1 .. k
      BY <1>1, <1>3
    <3>. QED
      BY <1>3, <3>1 DEF Present, n
  <2>. QED
    BY <2>1, <2>2
<1>. QED
  BY <1>3, <1>5, <1>6 DEF n

\* An entry that is accepted is read as the stream it names.
LEMMA IdentifierIsNamed ==
  ASSUME NEW Words, NEW entry \in [words : Seq(Words)], ValidEntry(entry)
  PROVE  Identifier(entry) = NamedBy(entry)
<1>. DEFINE words == entry.words
            W     == Words \cup {"--"}
<1>1. words \in Seq(W) /\ "--" \in W /\ Len(words) \in {3, 4}
  BY DEF ValidEntry
<1>2. NamedBy(entry) = SubSeq(words \o <<"--">>, 1, 4)
  BY DEF NamedBy
<1>3. Identifier(entry) = IF Len(words) = 3 THEN Append(words, "--") ELSE words
  BY DEF Identifier
<1>. HIDE DEF words, W
<1>4. /\ Append(words, "--") = words \o <<"--">>
      /\ words \o <<"--">> \in Seq(W)
      /\ Len(words \o <<"--">>) = Len(words) + 1
  BY <1>1, AppendIsConcat, AppendProperties
<1>5. CASE Len(words) = 3
  <2>. DEFINE all == words \o <<"--">>
  <2>1. all \in Seq(W) /\ Len(all) = 4
    BY <1>4, <1>5
  <2>2. SubSeq(all, 1, Len(all)) = all
    BY <2>1, SubSeqFull
  <2>3. Identifier(entry) = all /\ NamedBy(entry) = SubSeq(all, 1, 4)
    BY <1>2, <1>3, <1>4, <1>5
  <2>. HIDE DEF all
  <2>. QED
    BY <2>1, <2>2, <2>3
<1>6. CASE Len(words) = 4
  <2>1. <<"--">> \in Seq(W) /\ 1 \in 1 .. Len(words) /\ 4 \in 1 .. Len(words)
    BY <1>1, <1>6
  <2>2. SubSeq(words \o <<"--">>, 1, 4) = SubSeq(words, 1, 4)
    BY <1>1, <2>1, SubSeqOfConcat1
  <2>3. SubSeq(words, 1, Len(words)) = words
    BY <1>1, SubSeqFull
  <2>4. Identifier(entry) = words
    BY <1>3, <1>6
  <2>. QED
    BY <1>2, <1>6, <2>2, <2>3, <2>4
<1>. QED
  BY <1>1, <1>5, <1>6

\* Every stream that is named is read, at the first entry that names it.
LEMMA EveryEntryIsRead ==
  ASSUME NEW Words, NEW ini, IniFile(ini, Words)
  PROVE  /\ \A i \in FirstReads(ini) : \E j \in 1 .. Len(Entries(ini)) :
                StreamIdentifiers(ini)[i] = Identifier(Entries(ini)[j])
         /\ \A j \in 1 .. Len(Entries(ini)) : \E i \in FirstReads(ini) :
                StreamIdentifiers(ini)[i] = Identifier(Entries(ini)[j])
<1>. DEFINE entries == Entries(ini)
            n       == Len(entries)
            streams == StreamIdentifiers(ini)
<1>1. n \in Nat
  BY EntriesArePresent
<1>2. /\ FirstReads(ini) = {i \in 1 .. n : \A j \in 1 .. i - 1 :
                              Identifier(entries[j]) # Identifier(entries[i])}
      /\ \A i \in FirstReads(ini) : streams[i] = Identifier(entries[i])
  BY DEF FirstReads, StreamIdentifiers
<1>. HIDE DEF entries, n, streams
<1>3. ASSUME NEW i \in 1 .. n
      PROVE  \E first \in FirstReads(ini) : streams[first] = Identifier(entries[i])
  <2>. DEFINE same == {j \in 1 .. n : Identifier(entries[j]) = Identifier(entries[i])}
  <2>1. PICK first \in same : \A j \in same : first <= j
    <3>1. same # {} /\ same \in SUBSET (1 .. n)
      OBVIOUS
    <3>. HIDE DEF same
    <3>. QED
      BY <1>1, <3>1, SmallestExists
  <2>2. \A j \in 1 .. first - 1 : j \in 1 .. n /\ ~ (first <= j)
    BY <1>1
  <2>3. first \in FirstReads(ini)
    BY <1>2, <2>1, <2>2
  <2>. QED
    BY <1>2, <2>3
<1>4. \A i \in FirstReads(ini) :
          i \in 1 .. n /\ streams[i] = Identifier(entries[i])
  BY <1>2
<1>. QED
  BY <1>3, <1>4 DEF n, entries, streams

\* No stream is read twice, so that neither setStreamIdentifiers nor the map of
\* the pickers ever refuses an ini file that names one twice
\* (filterPickerOptions.cppm:508-519, subscriberOptions.cpp:85-103).
THEOREM RepeatsAreSkipped ==
  ASSUME NEW Words, NEW ini, IniFile(ini, Words)
  PROVE  NamedOnce(StreamIdentifiers(ini))
<1>. DEFINE streams == StreamIdentifiers(ini)
<1>1. Len(Entries(ini)) \in Nat
  BY EntriesArePresent
<1>2. ASSUME NEW i \in DOMAIN streams, NEW j \in DOMAIN streams, i < j
      PROVE  streams[i] # streams[j]
  <2>1. /\ i \in 1 .. Len(Entries(ini)) /\ j \in 1 .. Len(Entries(ini))
        /\ \A k \in 1 .. j - 1 :
              Identifier(Entries(ini)[k]) # Identifier(Entries(ini)[j])
        /\ streams[i] = Identifier(Entries(ini)[i])
        /\ streams[j] = Identifier(Entries(ini)[j])
    BY DEF StreamIdentifiers, FirstReads
  <2>2. i \in 1 .. j - 1
    BY <1>1, <1>2, <2>1
  <2>. QED
    BY <2>1, <2>2
<1>3. \A i \in DOMAIN streams : i \in Int
  BY <1>1 DEF StreamIdentifiers, FirstReads
<1>. HIDE DEF streams
<1>4. \A i, j \in DOMAIN streams : streams[i] = streams[j] => i = j
  BY <1>2, <1>3
<1>. QED
  BY <1>4 DEF NamedOnce, streams

\* The line that is found for a stream is the only one meant for it.
LEMMA LineIsFound ==
  ASSUME NEW Words, NEW ini, IniFile(ini, Words), NEW stream
  PROVE  LinesFor(ini, stream) =
             IF HasModel(ini, stream) THEN {ToModelKey(stream)} ELSE {}
<1>1. ASSUME NEW key \in LinesFor(ini, stream)
      PROVE  key = ToModelKey(stream) /\ HasModel(ini, stream)
  <2>1. /\ key \in [words : Seq(Words), upper : BOOLEAN]
        /\ key \in DOMAIN ini.models
        /\ key.upper /\ key.words = stream /\ ini.models[key].words = 3
    BY DEF LinesFor, IniFile
  <2>2. key = [words |-> stream, upper |-> TRUE]
    BY <2>1
  <2>. QED
    BY <2>1, <2>2 DEF ToModelKey, HasModel
<1>2. ASSUME HasModel(ini, stream)
      PROVE  ToModelKey(stream) \in LinesFor(ini, stream)
  BY <1>2 DEF HasModel, LinesFor, ToModelKey
<1>. QED
  BY <1>1, <1>2

LEMMA ModelIsOfLine ==
  ASSUME NEW Words, NEW ini, IniFile(ini, Words), NEW stream
  PROVE  /\ LinesFor(ini, stream) = {} => ModelOf(ini, stream) = Model(6, 5, 100)
         /\ \A key \in LinesFor(ini, stream) :
                ModelOf(ini, stream) =
                    Model(ini.models[key].on, ini.models[key].off, ini.models[key].rate)
<1>1. CASE HasModel(ini, stream)
  <2>1. LinesFor(ini, stream) = {ToModelKey(stream)}
    BY <1>1, LineIsFound
  <2>. QED
    BY <1>1, <2>1 DEF ModelOf
<1>2. CASE ~ HasModel(ini, stream)
  <2>1. LinesFor(ini, stream) = {}
    BY <1>2, LineIsFound
  <2>. QED
    BY <1>2, <2>1 DEF ModelOf, DefaultModel
<1>. QED
  BY <1>1, <1>2

\* Whatever the ini file, when the application starts every entry up to the
\* first missing number has a picker, and each picker has the thresholds and
\* the rate of the line meant for its stream and of no other, or the default
\* ones (filterPickerOptions.cppm:451-575, filterPicker.cpp:295-348).
THEOREM IniFileIsObeyed ==
  ASSUME NEW Words, NEW ini, IniFile(ini, Words), Constructed(ini)
  PROVE  PicksConfiguredStreams(ini)
<1>. DEFINE pickers == Pickers(ini)
            streams == StreamIdentifiers(ini)
<1>1. /\ DOMAIN pickers = {streams[i] : i \in FirstReads(ini)}
      /\ \A stream \in DOMAIN pickers : pickers[stream] = ModelOf(ini, stream)
      /\ DOMAIN streams = FirstReads(ini)
  BY DEF Pickers, StreamIdentifiers
<1>2. /\ Parsed(ini)
      /\ \A i \in DOMAIN streams : ModelOf(ini, streams[i]).on > 0
  BY DEF Constructed
<1>3. /\ GRPCAccepted(ini.publisher) /\ GRPCAccepted(ini.subscriber)
      /\ \A i \in 1 .. Len(Entries(ini)) : ValidEntry(Entries(ini)[i])
      /\ \A i \in DOMAIN streams : ModelOf(ini, streams[i]).rate > 0
  BY <1>2 DEF Parsed
<1>4. DOMAIN pickers = {NamedBy(ini.streams[i]) : i \in Present(ini)}
  <2>1. PICK k \in 0 .. Len(ini.streams) :
            /\ Present(ini) = 1 .. k
            /\ Entries(ini) \in Seq([words : Seq(Words)])
            /\ Len(Entries(ini)) = k
            /\ \A i \in 1 .. k : Entries(ini)[i] = ini.streams[i]
    BY EntriesArePresent
  <2>2. \A i \in 1 .. k : Entries(ini)[i] \in [words : Seq(Words)]
    BY <2>1, ElementOfSeq
  <2>3. ASSUME NEW i \in 1 .. k
        PROVE  Identifier(Entries(ini)[i]) = NamedBy(ini.streams[i])
    BY <1>3, <2>1, <2>2, IdentifierIsNamed
  <2>4. DOMAIN pickers = {Identifier(Entries(ini)[i]) : i \in 1 .. k}
    <3>1. /\ \A i \in FirstReads(ini) : \E j \in 1 .. k :
                streams[i] = Identifier(Entries(ini)[j])
          /\ \A j \in 1 .. k : \E i \in FirstReads(ini) :
                streams[i] = Identifier(Entries(ini)[j])
      <4>1. IniFile(ini, Words)
        OBVIOUS
      <4>2. /\ \A i \in FirstReads(ini) : \E j \in 1 .. Len(Entries(ini)) :
                  StreamIdentifiers(ini)[i] = Identifier(Entries(ini)[j])
            /\ \A j \in 1 .. Len(Entries(ini)) : \E i \in FirstReads(ini) :
                  StreamIdentifiers(ini)[i] = Identifier(Entries(ini)[j])
        BY <4>1, EveryEntryIsRead
      <4>. QED
        BY <2>1, <4>2
    <3>. HIDE DEF pickers, streams
    <3>. QED
      BY <1>1, <2>1, <3>1
  <2>. QED
    BY <2>1, <2>3, <2>4
<1>5. ASSUME NEW stream \in DOMAIN pickers
      PROVE  /\ pickers[stream].on > 0 /\ pickers[stream].rate > 0
             /\ LinesFor(ini, stream) = {} => pickers[stream] = Model(6, 5, 100)
             /\ \A key \in LinesFor(ini, stream) :
                   pickers[stream] = Model(ini.models[key].on, ini.models[key].off,
                                           ini.models[key].rate)
  <2>1. pickers[stream] = ModelOf(ini, stream)
    BY <1>1
  <2>2. PICK i \in DOMAIN streams : stream = streams[i]
    BY <1>1
  <2>3. pickers[stream].on > 0 /\ pickers[stream].rate > 0
    BY <1>2, <1>3, <2>1, <2>2
  <2>. QED
    BY <2>1, <2>3, ModelIsOfLine
<1>6. \A section \in {ini.publisher, ini.subscriber} :
        section.accessToken # "none" => section.serverCertificate = "good"
  BY <1>3 DEF GRPCAccepted
<1>. HIDE DEF pickers
<1>. QED
  BY <1>4, <1>5, <1>6 DEF PicksConfiguredStreams, pickers

---------------------------------------------------------------------------
(* The queries of MCAlgorithms.  What holds of every argument holds of the *)
(* one that is asked; the inductive invariant says what is asked.          *)

QueryInv ==
    query \in {[kind |-> "none"]} \cup PacketQueries \cup WaveformQueries \cup IniQueries

LEMMA QueryAlways == AskSpec => []QueryInv
<1>1. AskInit => QueryInv
  BY DEF AskInit, QueryInv
<1>2. QueryInv /\ [AskNext]_query => QueryInv'
  BY DEF QueryInv, AskNext, Ask
<1>. QED
  BY <1>1, <1>2, PTL DEF AskSpec

LEMMA PacketIsAsked ==
  ASSUME QueryInv, Asked("packet")
  PROVE  query.start \in Int /\ query.n \in Nat \ {0} /\ query.desired \in Int
<1>1. query \in PacketQueries
  BY DEF QueryInv, Asked, WaveformQueries, IniQueries
<1>. QED
  BY <1>1, AlgorithmsAssumption DEF PacketQueries

\* The gap between any packet and the last sample is the number of the samples
\* that should have come between them (utilities.cpp: getGapSizeInSamples).
THEOREM GapsAreCounted == AskSpec => []GapCountsMissingSamples
<1>1. QueryInv => GapCountsMissingSamples
  BY PacketIsAsked, AlgorithmsAssumption, GapCountsMissingInstants
     DEF GapCountsMissingSamples
<1>. QED
  BY <1>1, QueryAlways, PTL

\* The trim of any packet to any time is a tail of it, and no sample at or
\* after that time is lost (utilities.cpp: leftTrim).
THEOREM TrimsAreTails == AskSpec => []TrimReturnsTail
<1>1. ASSUME QueryInv, Asked("packet")
      PROVE  TrimsToTail(query.desired, Places, query.start)
  <2>1. Places \in Seq(Nat) /\ Places # <<>>
    <3>1. Places \in [1 .. query.n -> Nat] /\ query.n \in Nat \ {0}
      BY <1>1, PacketIsAsked DEF Places
    <3>2. Places \in Seq(Nat) /\ Len(Places) = query.n
      BY <3>1, FunctionIsSequence
    <3>. QED
      BY <3>1, <3>2
  <2>. QED
    BY <1>1, <2>1, PacketIsAsked, TrimKeepsWhatItShould
<1>2. QueryInv => TrimReturnsTail
  BY <1>1 DEF TrimReturnsTail
<1>. QED
  BY <1>2, QueryAlways, PTL

\* The words of the entries and lines that are asked about.
AskedWords == {"UU", "A", "B", "HHZ", "EHZ", "--", "01", ""}

LEMMA EntriesAreWords ==
  /\ EntryLists \subseteq Seq([words : Seq(AskedWords)])
  /\ OneStream \in Seq([words : Seq(AskedWords)])
<1>1. EntryWords \subseteq Seq(AskedWords)
  BY DEF EntryWords, AskedWords
<1>2. <<"UU", "A", "HHZ">> \in Seq(AskedWords)
  BY DEF AskedWords
<1>3. ASSUME NEW streams \in EntryLists
      PROVE  streams \in Seq([words : Seq(AskedWords)])
  <2>1. PICK k \in 0 .. MaxEntries : streams \in [1 .. k -> [words : EntryWords]]
    BY DEF EntryLists
  <2>2. k \in Nat
    BY AlgorithmsAssumption
  <2>3. streams \in [1 .. k -> [words : Seq(AskedWords)]]
    BY <1>1, <2>1
  <2>. QED
    BY <2>2, <2>3, FunctionIsSequence
<1>4. OneStream \in Seq([words : Seq(AskedWords)])
  <2>. DEFINE entry == [words |-> <<"UU", "A", "HHZ">>]
              E     == [words : Seq(AskedWords)]
  <2>1. entry \in E /\ OneStream = <<entry>>
    BY <1>2 DEF OneStream
  <2>. HIDE DEF entry, E
  <2>2. OneStream \in Seq(E)
    BY <2>1
  <2>. QED
    BY <2>2 DEF E
<1>. QED
  BY <1>3, <1>4

LEMMA KeysAreWords ==
  ASSUME NEW models \in Models \cup {NoModels}
  PROVE  DOMAIN models \subseteq [words : Seq(AskedWords), upper : BOOLEAN]
<1>1. LineKeys \subseteq [words : Seq(AskedWords), upper : BOOLEAN]
  BY DEF LineKeys, Key, AskedWords
<1>2. CASE models \in Models
  <2>1. PICK keys \in SUBSET LineKeys :
            models \in [keys -> UNION {LineChoices(key) : key \in keys}]
    BY <1>2 DEF Models
  <2>. QED
    BY <1>1, <2>1
<1>3. CASE models = NoModels
  BY <1>3 DEF NoModels
<1>. QED
  BY <1>2, <1>3

LEMMA IniIsAsked ==
  ASSUME QueryInv, Asked("ini")
  PROVE  IniFile(query.ini, AskedWords)
<1>1. query \in IniQueries
  BY DEF QueryInv, Asked, PacketQueries, WaveformQueries
<1>2. PICK ini : /\ query = [kind |-> "ini", ini |-> ini]
                 /\ \/ \E section \in Sections, q \in 0 .. 1, m \in 0 .. 1 :
                          ini = Ini(section, GoodSection, q, m, OneStream, NoModels)
                    \/ \E section \in Sections :
                          ini = Ini(GoodSection, section, 1, 1, OneStream, NoModels)
                    \/ \E streams \in EntryLists, models \in Models :
                          ini = Ini(GoodSection, GoodSection, 1, 1, streams, models)
  BY <1>1 DEF IniQueries
<1>3. query.ini = ini
  BY <1>2
<1>4. /\ ini.streams \in EntryLists \cup {OneStream}
      /\ ini.models \in Models \cup {NoModels}
  BY <1>2 DEF Ini
<1>. QED
  BY <1>3, <1>4, EntriesAreWords, KeysAreWords DEF IniFile

\* Every stream that is configured has a picker with its own model
\* (filterPickerOptions.cppm:451-575, filterPicker.cpp:295-348).
THEOREM ConfigurationIsObeyed == AskSpec => []ConfiguredStreamsArePicked
<1>1. QueryInv => ConfiguredStreamsArePicked
  BY IniIsAsked, RepeatsAreSkipped, IniFileIsObeyed DEF ConfiguredStreamsArePicked
<1>. QED
  BY <1>1, QueryAlways, PTL

---------------------------------------------------------------------------
\* Seen apart, the two halves of MCComputation are the two specifications the
\* theorems above are about: each steps while the other stutters.
LEMMA ComputationIsBoth == ComputeSpec => Spec /\ AskSpec
<1>1. ComputeInit => Init /\ AskInit
  BY DEF ComputeInit
<1>2. [ComputeNext]_<<vars, query>> => [Next]_vars /\ [AskNext]_query
  BY DEF ComputeNext
<1>. QED
  BY <1>1, <1>2, PTL DEF ComputeSpec, Spec, AskSpec

\* The properties of the run, of all its behaviours.
THEOREM ComputationIsSound ==
  ComputeSpec => [](/\ OutputIndependentOfPackets
                    /\ CountersInStep
                    /\ EveryActivationPicked
                    /\ GapCountsMissingSamples
                    /\ TrimReturnsTail
                    /\ ConfiguredStreamsArePicked)
  BY ComputationIsBoth, CutsDoNotMatter, CountersStayInStep, ActivationsArePicked,
     GapsAreCounted, TrimsAreTails, ConfigurationIsObeyed, PTL
===========================================================================
