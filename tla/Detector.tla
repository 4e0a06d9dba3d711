----------------------------- MODULE Detector -----------------------------
(***************************************************************************)
(* The detector of one stream (src/src/detector.cpp): a bank of pipelines, *)
(* each a narrow band filter, an envelope and a characteristic function    *)
(* (src/src/pipeline.cpp, src/src/characteristicFunction.cpp), and the     *)
(* mask the detector lays over the samples that follow a reset, as long as *)
(* StartUp computes it to be.                                              *)
(*                                                                         *)
(* The numbers the filters compute are external (the uSignal library): a   *)
(* packet gives, for each pipeline, the level its characteristic function  *)
(* would have at each sample once its window is full.  What the code       *)
(* decides, and the model keeps, is which of them come out.                *)
(***************************************************************************)
EXTENDS Sequences, StartUp

\* Levels of the characteristic function with respect to the thresholds of
\* the trigger: below both, between them, above both.  Zero, the value of a
\* masked sample, is below both.
Low == 0
Between == 1
High == 2
Levels == {Low, Between, High}

VARIABLES
    mExceededWindow,  \* per pipeline: samples counted by the warm-up loop
    mMaskCounter,     \* samples masked since the last reset
    delayLine         \* samples the filters hold since they were last reset,
                      \* counted up to MaskFirstNSamples (external)

detectorVars == <<mExceededWindow, mMaskCounter, delayLine>>

AtMost(bound, k) == IF k < bound THEN k ELSE bound

\* The number of samples in a packet x, given per pipeline.
SizeOf(x) == Len(x[CHOOSE p \in Pipelines : TRUE])

DetectorTypeOK ==
    /\ mExceededWindow \in [Pipelines -> Nat]
    /\ \A p \in Pipelines : mExceededWindow[p] <= Window[p]
    /\ mMaskCounter \in 0 .. MaskFirstNSamples
    /\ delayLine \in 0 .. MaskFirstNSamples

DetectorInit ==
    /\ mExceededWindow = [p \in Pipelines |-> 0]
    /\ mMaskCounter = 0
    /\ delayLine = 0

\* The counters a packet meets when a gap may have reset the detector first.
ExceededAfter(reset) ==
    IF reset THEN [p \in Pipelines |-> 0] ELSE mExceededWindow
\* Variant with a mistake, for the mutation runs: the mask survives a reset.
MaskKept(reset) == mMaskCounter
MaskAfter(reset) == IF reset THEN 0 ELSE mMaskCounter
DelayLineAfter(reset) == IF reset THEN 0 ELSE delayLine

\* CharacteristicFunction::transform: the first sample (from 0) of n whose
\* value is computed when the warm-up loop starts from count `exceeded`.  The
\* loop leaves its index on the last sample when the packet ends before, or
\* exactly when, the window is full.
StartMask(window, exceeded, n) ==
    IF exceeded >= window THEN 0
    ELSE IF window - exceeded < n THEN window - exceeded
    ELSE n - 1

CharacteristicFunction(p, exceeded, xs) ==
    [i \in 1 .. Len(xs) |->
        IF i - 1 < StartMask(Window[p], exceeded, Len(xs)) THEN Low ELSE xs[i]]

\* The largest characteristic function of the bank at sample i.
Aggregate(exceeded, x, i) ==
    LargestOf({CharacteristicFunction(p, exceeded[p], x[p])[i] : p \in Pipelines})

\* Variant with a mistake, for the mutation runs: one sample too few is masked.
OutputWithShortMask(reset, x) ==
    [i \in 1 .. SizeOf(x) |->
        IF MaskAfter(reset) + i < MaskFirstNSamples THEN Low
        ELSE Aggregate(ExceededAfter(reset), x, i)]

\* Detector::apply: what it returns for x, after a reset if there was a gap.
DetectorOutput(reset, x) ==
    [i \in 1 .. SizeOf(x) |->
        IF MaskAfter(reset) + i <= MaskFirstNSamples THEN Low
        ELSE Aggregate(ExceededAfter(reset), x, i)]

\* Variant with a mistake, for the mutation runs: the mask counter has no limit.
StepWithoutLimit(reset, n) ==
    /\ mExceededWindow' =
           [p \in Pipelines |-> AtMost(Window[p], ExceededAfter(reset)[p] + n)]
    /\ mMaskCounter' = MaskAfter(reset) + n
    /\ delayLine' = AtMost(MaskFirstNSamples, DelayLineAfter(reset) + n)

\* Detector::apply: what it does to the state for a packet of n samples.
\* Picker::apply is the only caller, and resets only right before it applies.
DetectorStep(reset, n) ==
    /\ mExceededWindow' =
           [p \in Pipelines |-> AtMost(Window[p], ExceededAfter(reset)[p] + n)]
    /\ mMaskCounter' = AtMost(MaskFirstNSamples, MaskAfter(reset) + n)
    /\ delayLine' = AtMost(MaskFirstNSamples, DelayLineAfter(reset) + n)
===========================================================================
