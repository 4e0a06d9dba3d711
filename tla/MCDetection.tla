---------------------------- MODULE MCDetection ----------------------------
(***************************************************************************)
(* The detector and the trigger it feeds, as Picker::apply calls them once *)
(* the burn-in is over: every sequence of small packets, cut in every way, *)
(* with a reset of both before any of them.                                *)
(***************************************************************************)
EXTENDS Detector, ThresholdTrigger, FiniteSets

CONSTANTS p1, p2,    \* the pipelines
          MaxSamples \* bound: samples of a packet

ASSUME MaxSamplesAssumption == MaxSamples \in Nat \ {0}

MCPipelines == {p1, p2}
MCWindow == [p \in MCPipelines |-> IF p = p1 THEN 3 ELSE 2]
MCEnvelopeLength == [p \in MCPipelines |-> IF p = p1 THEN 2 ELSE 3]
MCNumberOfCascades == [p \in MCPipelines |-> 1]

\* The longest window is of one pipeline, the longest start-up (5 samples) of
\* the other, and it ends between two samples.
MCFilterStartUp == [p \in MCPipelines |-> IF p = p1 THEN 0 ELSE 17]

VARIABLES
    input,   \* the last packet
    output,  \* what apply returned for it
    before,  \* samples the filters held when it came, after the reset if any
    signal,  \* mTriggerSignal
    picks,   \* the picks of the packet, whose first sample is at time 0
    carried  \* was the trigger locked when the packet came?

vars == <<detectorVars, triggerVars, input, output, before, signal, picks, carried>>

\* Two levels for each pipeline, chosen so that either may be the larger.
LevelsOf(p) == IF p = p1 THEN {Low, High} ELSE {Low, Between}
Inputs(n) == {x \in [Pipelines -> [1 .. n -> Levels]] :
                \A p \in Pipelines : \A i \in 1 .. n : x[p][i] \in LevelsOf(p)}

Init ==
    /\ DetectorInit /\ TriggerInit
    /\ input = [p \in Pipelines |-> <<>>]
    /\ output = <<>>
    /\ before = 0
    /\ signal = <<>> /\ picks = {} /\ carried = FALSE

Apply(reset, n, x) ==
    /\ DetectorStep(reset, n)
    /\ input' = x
    /\ output' = DetectorOutput(reset, x)
    /\ before' = DelayLineAfter(reset)
    /\ TriggerStep(reset, DetectorOutput(reset, x))
    /\ signal' = TriggerSignal(reset, DetectorOutput(reset, x))
    /\ picks' = PickTimes(reset, DetectorOutput(reset, x), 0)
    /\ carried' = LockAfter(reset)

Next == \E reset \in BOOLEAN, n \in 1 .. MaxSamples :
            \E x \in Inputs(n) : Apply(reset, n, x)
Spec == Init /\ [][Next]_vars

---------------------------------------------------------------------------
\* However the stream is cut into packets, a sample comes out as zero when it
\* is one of the first MaskFirstNSamples since the filters were reset, and as
\* the largest value of the bank otherwise.  In particular the sample the
\* warm-up loop of a characteristic function lets through too early, the last
\* of a packet inside the warm-up, never leaves the detector
\* (detector.cpp:209-217 over characteristicFunction.cpp:92-110).
OutputIndependentOfPackets ==
    \A i \in 1 .. Len(output) :
        output[i] = IF before + i <= MaskFirstNSamples THEN Low
                    ELSE LargestOf({input[p][i] : p \in Pipelines})

\* The counters that mask the start-up count exactly the samples that went
\* into the filters since the reset, up to where each of them saturates: the
\* three are never out of step after any mix of packets and gaps.
CountersInStep ==
    /\ mMaskCounter = delayLine
    /\ \A p \in Pipelines : mExceededWindow[p] = AtMost(Window[p], delayLine)
---------------------------------------------------------------------------
TimeOf(i) == (i - 1) * Period
LockedBefore(i) == IF i = 1 THEN carried ELSE signal[i - 1] = 1
Activations == {i \in 1 .. Len(signal) : signal[i] = 1 /\ ~LockedBefore(i)}

\* Every activation of the trigger is picked, at the time of the sample that
\* activated it, and inside a packet nothing else is: two picks of a packet
\* have an unlocked sample between them (thresholdTrigger.cpp:182-193).
EveryActivationPicked ==
    /\ {TimeOf(i) : i \in Activations} \subseteq picks
    /\ picks \ {TimeOf(1)} \subseteq {TimeOf(i) : i \in Activations}

\* thresholdTrigger.hpp:21-25 "No further picks can be made until the trigger
\* window is deactivated when the characteristic function falls below
\* onAndOffThreshold.second."
NoPickWhileActivated == Cardinality(picks) = Cardinality(Activations)
===========================================================================

