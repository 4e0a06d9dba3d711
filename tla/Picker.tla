------------------------------ MODULE Picker ------------------------------
(***************************************************************************)
(* The picker of one stream (src/src/picker.cpp): Picker::apply checks a   *)
(* packet against the clock and against the last packet, resets its        *)
(* detector and trigger on a gap, runs the detector and, once the detector *)
(* is burned in, the trigger; Picker::getPicks returns what it kept.       *)
(*                                                                         *)
(* A packet is its start time, its number of samples and, per pipeline,    *)
(* the levels its samples reach (see Detector).  The sampling rate of a    *)
(* packet is the nominal one: the wobble consistentSamplingRate allows is  *)
(* far below half a sample over a packet.                                  *)
(***************************************************************************)
EXTENDS Detector, ThresholdTrigger

CONSTANTS
    GapTolerance,      \* mGapToleranceInSamples
    BurnInFactor,      \* PickerOptions::getBurnInFactor
    MaxLatency,        \* mMaxLatency
    MaxFutureTime,     \* mMaxFutureTime
    MaxTime,           \* bound: the clock stops here
    MaxSamples,        \* bound: samples of a packet
    InputLevels        \* bound: the levels the samples of a packet take

ASSUME PickerAssumption ==
    /\ GapTolerance \in Nat
    /\ BurnInFactor \in Nat
    /\ MaxLatency \in Nat
    /\ MaxFutureTime \in Nat
    /\ MaxTime \in Nat
    /\ MaxSamples \in Nat \ {0}
    /\ InputLevels \subseteq Levels

\* mFilterGroupDelay is the GroupDelay of the detector (StartUp).
BurnInTime == GroupDelay * BurnInFactor

VARIABLES
    now,               \* the system clock
    mFirstPacket,
    mFirstSampleTime,  \* of the samples since the last reset
    mLastSampleTime,
    mOutputPicks,      \* the times of the picks getPicks returns
    lastApply,         \* how the last apply ended
    pickedWith         \* how many samples the filters held, the picked one
                       \* included, when the samples of these picks came in

vars == <<detectorVars, triggerVars, now, mFirstPacket, mFirstSampleTime,
          mLastSampleTime, mOutputPicks, lastApply, pickedWith>>

Inputs(n) == [Pipelines -> [1 .. n -> InputLevels]]
PacketStarts == 0 .. MaxTime + MaxFutureTime

TypeOK ==
    /\ DetectorTypeOK
    /\ TriggerTypeOK
    /\ now \in 0 .. MaxTime
    /\ mFirstPacket \in BOOLEAN
    /\ mFirstSampleTime \in Nat
    /\ mLastSampleTime \in Nat
    /\ mOutputPicks \subseteq Int
    /\ pickedWith \subseteq Int
    /\ lastApply \in {"none", "threw", "skipped", "burningIn", "triggered"}

Init ==
    /\ DetectorInit
    /\ TriggerInit
    /\ now = 0
    /\ mFirstPacket = TRUE
    /\ mFirstSampleTime = 0
    /\ mLastSampleTime = 0
    /\ mOutputPicks = {}
    /\ lastApply = "none"
    /\ pickedWith = {}

---------------------------------------------------------------------------
(* Picker::apply, one action per way through it.  The checks come in this  *)
(* order, and nothing is assigned before the last of them passes.          *)

KeepState == UNCHANGED <<detectorVars, triggerVars, now, mFirstPacket,
                         mFirstSampleTime, mLastSampleTime, mOutputPicks,
                         pickedWith>>
Throw == lastApply' = "threw" /\ KeepState
Skip == lastApply' = "skipped" /\ KeepState

\* Wrong identifier, no or inconsistent sampling rate, no samples, no data.
RejectMalformed == Throw

IsLatent(start) == start < now - MaxLatency
IsFuture(end) == end > now + MaxFutureTime
\* Variant with a mistake, for the mutation runs: compared with the first sample.
IsExpiredSinceFirst(start) == ~mFirstPacket /\ start < mFirstSampleTime
IsExpired(start) == ~mFirstPacket /\ start < mLastSampleTime
GapIsEstimated(start) == mFirstPacket \/ GapFits(start, mLastSampleTime)

SkipLatent(start) == IsLatent(start) /\ Skip

RejectFuture(start, n) ==
    /\ ~IsLatent(start)
    /\ IsFuture(GetEndTime(start, n))
    /\ Throw

InTime(start, n) == ~IsLatent(start) /\ ~IsFuture(GetEndTime(start, n))

SkipExpired(start, n) == InTime(start, n) /\ IsExpired(start) /\ Skip

RejectUnknownGap(start, n) ==
    /\ InTime(start, n)
    /\ ~IsExpired(start)
    /\ ~GapIsEstimated(start)
    /\ Throw

\* A gap above the tolerance, or a packet that starts too early.
GapResets(start) ==
    LET gapSize == GetGapSizeInSamples(start, mLastSampleTime)
    IN  ~mFirstPacket /\ (gapSize > GapTolerance \/ gapSize < 0)

\* mFirstSampleTime once the packet is taken.
FirstSampleTimeFor(start) ==
    IF mFirstPacket \/ GapResets(start) THEN start ELSE mFirstSampleTime

PastBurnIn(time, first) == time - first > BurnInTime

\* Variant with a mistake, for the mutation runs: the straddling packet is not trimmed.
TriggerInputUntrimmed(first, start, cf) ==
    IF PastBurnIn(GetEndTime(start, Len(cf)), first) THEN Trimmed(cf, start)
    ELSE Trimmed(<<>>, start)

\* Variant with a mistake, for the mutation runs: the straddling packet is left out.
TriggerInputWholePackets(first, start, cf) ==
    IF PastBurnIn(start, first) THEN Trimmed(cf, start) ELSE Trimmed(<<>>, start)

\* The part of the characteristic function the trigger is applied to and the
\* time of its first sample; no data when the trigger is not run.
TriggerInput(first, start, cf) ==
    IF PastBurnIn(start, first) THEN Trimmed(cf, start)
    ELSE IF PastBurnIn(GetEndTime(start, Len(cf)), first)
      THEN LeftTrim(first + BurnInTime, cf, start)
    ELSE Trimmed(<<>>, start)

\* The samples held by the filters when each of the picked samples of a packet
\* of n, whose last ones are data, came in.
SamplesHeld(reset, n, data) ==
    {DelayLineAfter(reset) + n - Len(data) + i : i \in PickedSamples(reset, data)}

Process(start, n) ==
    LET reset == GapResets(start)
        first == FirstSampleTimeFor(start)
    IN  /\ InTime(start, n)
        /\ ~IsExpired(start)
        /\ GapIsEstimated(start)
        /\ mFirstPacket' = FALSE
        /\ mFirstSampleTime' = first
        /\ mLastSampleTime' = GetEndTime(start, n)
        /\ DetectorStep(reset, n)
        /\ \E x \in Inputs(n) :
              LET input == TriggerInput(first, start, DetectorOutput(reset, x))
                  run   == input.data # <<>>
              IN  /\ TriggerStep(reset, input.data)
                  /\ mOutputPicks' =
                         IF run THEN PickTimes(reset, input.data, input.time - GroupDelay)
                         ELSE mOutputPicks
                  /\ pickedWith' = IF run THEN SamplesHeld(reset, n, input.data)
                                   ELSE pickedWith
                  /\ lastApply' = IF run THEN "triggered" ELSE "burningIn"
        /\ UNCHANGED now

TimePasses ==
    /\ now < MaxTime
    /\ now' = now + 1
    /\ UNCHANGED <<detectorVars, triggerVars, mFirstPacket, mFirstSampleTime,
                   mLastSampleTime, mOutputPicks, lastApply, pickedWith>>

Apply(start, n) ==
    \/ SkipLatent(start)
    \/ RejectFuture(start, n)
    \/ SkipExpired(start, n)
    \/ RejectUnknownGap(start, n)
    \/ Process(start, n)

Next ==
    \/ TimePasses
    \/ RejectMalformed
    \/ \E start \in PacketStarts, n \in 1 .. MaxSamples : Apply(start, n)

Spec == Init /\ [][Next]_vars

---------------------------------------------------------------------------
(* What a picker promises.                                                 *)

\* A pick is never earlier than the end of the burn-in of the samples it was
\* computed from, however packets and gaps fall around that moment, the one
\* packet that straddles it included (picker.cpp:245-276).
PicksAfterBurnIn ==
    lastApply = "triggered" =>
        \A pick \in mOutputPicks :
            pick + GroupDelay >= mFirstSampleTime + BurnInTime

\* Every picked sample was computed from warm filters: when it came in, more
\* than MaskFirstNSamples samples had gone into them since they were last reset,
\* whether the burn-in time, the mask or a burst of tolerated gaps ran out
\* first, and wherever in the packet it was (detector.cpp:254, picker.cpp:209).
PicksFromWarmFilters == \A held \in pickedWith : held > MaskFirstNSamples

\* The burn-in ends for the trigger when it ends for the samples.  No packet
\* that reaches past it is kept from the trigger: the trim of the straddling
\* packet never comes back empty or fails, so the trigger misses no packet
\* after the first it sees (picker.cpp:250-276).  And before it ends, the
\* trigger is not locked by what came before the reset (picker.cpp:218-219).
BurnInEndsOnTime ==
    /\ lastApply = "burningIn" => ~PastBurnIn(mLastSampleTime, mFirstSampleTime)
    /\ waterLevel => PastBurnIn(mLastSampleTime, mFirstSampleTime)

\* The picks of an apply lie, group delay apart, between the last sample
\* processed before it and its own last sample: a packet never yields a pick
\* in time that was already processed, nor beyond its end.
PicksAdvance ==
    [][ now' = now /\ lastApply' = "triggered" =>
          \A pick \in mOutputPicks' :
              /\ pick + GroupDelay >= mLastSampleTime
              /\ pick + GroupDelay <= mLastSampleTime' ]_vars

\* Samples go into the detector in the order of their times, between resets
\* no more than the tolerated gap is skipped, and a reset starts at or after
\* the last sample processed before it (picker.cpp:187-233).
FedInOrder ==
    [][ /\ mLastSampleTime' >= mLastSampleTime
        /\ mFirstSampleTime' # mFirstSampleTime
               => mFirstSampleTime' >= mLastSampleTime
        /\ mFirstSampleTime' = mFirstSampleTime /\ ~mFirstPacket
               => mLastSampleTime' - mLastSampleTime
                    <= (GapTolerance + MaxSamples) * Period + Half ]_vars

\* picker.hpp:54 "The picks made in the last apply."
PicksOfLastApply ==
    lastApply \in {"skipped", "burningIn"} => mOutputPicks = {}
===========================================================================
