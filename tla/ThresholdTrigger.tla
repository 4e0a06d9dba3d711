------------------------- MODULE ThresholdTrigger -------------------------
(***************************************************************************)
(* The trigger of one stream (src/src/thresholdTrigger.cpp).  uSignal's    *)
(* water level trigger (external) locks when the characteristic function   *)
(* exceeds the on threshold and unlocks when it falls below the off        *)
(* threshold, and keeps its lock from packet to packet; the picks are the  *)
(* samples where the code sees the signal go from 0 to 1.                  *)
(***************************************************************************)
EXTENDS Integers, Sequences, SampleTime

VARIABLES
    waterLevel,            \* the lock of mWaterLevelThreshold (external)
    mLastThresholdSample   \* 0 or 1

triggerVars == <<waterLevel, mLastThresholdSample>>

TriggerTypeOK == waterLevel \in BOOLEAN /\ mLastThresholdSample \in {0, 1}
TriggerInit == waterLevel = FALSE /\ mLastThresholdSample = 0

\* A level above both thresholds locks, one below both unlocks (see Detector).
OnLevel == 2
OffLevel == 0

\* The state a packet meets when a gap may have reset the trigger first
\* (ThresholdTrigger::resetInitialConditions).
LockAfter(reset) == IF reset THEN FALSE ELSE waterLevel
LastAfter(reset) == IF reset THEN 0 ELSE mLastThresholdSample

\* Is the water level trigger locked at sample i of cf?
LockedAt(reset, cf, i) ==
    \/ \E j \in 1 .. i : cf[j] = OnLevel /\ \A k \in j .. i : cf[k] # OffLevel
    \/ LockAfter(reset) /\ \A k \in 1 .. i : cf[k] # OffLevel

\* The binary signal of ThresholdTrigger::getOutput.
TriggerSignal(reset, cf) ==
    [i \in 1 .. Len(cf) |-> IF LockedAt(reset, cf, i) THEN 1 ELSE 0]

\* Variant with a mistake, for the mutation runs: the loop never updates its copy.
LastThresholdSampleOfPacket(reset, cf, i) == LastAfter(reset)

\* The value the loop compares sample i with.  The loop works on a copy of
\* mLastThresholdSample, so the first sample of a packet is compared with the
\* member, which only the reset assigns.
LastThresholdSample(reset, cf, i) ==
    IF i = 1 THEN LastAfter(reset) ELSE TriggerSignal(reset, cf)[i - 1]

PickedSamples(reset, cf) ==
    {i \in 1 .. Len(cf) : /\ TriggerSignal(reset, cf)[i] = 1
                          /\ LastThresholdSample(reset, cf, i) = 0}

\* Variant with a mistake, for the mutation runs: sample i counted from 0.
PickTimesLate(reset, cf, start) ==
    {start + i * Period : i \in PickedSamples(reset, cf)}

\* The pick times of a packet whose first sample is at start.
PickTimes(reset, cf, start) ==
    {start + (i - 1) * Period : i \in PickedSamples(reset, cf)}

\* ThresholdTrigger::resetInitialConditions, if there was a gap, then
\* ThresholdTrigger::apply on cf; an empty cf stands for no apply.
TriggerStep(reset, cf) ==
    /\ waterLevel' =
           IF cf = <<>> THEN LockAfter(reset) ELSE LockedAt(reset, cf, Len(cf))
    /\ mLastThresholdSample' = LastAfter(reset)
===========================================================================
