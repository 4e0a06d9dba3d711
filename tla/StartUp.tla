------------------------------ MODULE StartUp ------------------------------
(***************************************************************************)
(* What the constructors of Envelope, Pipeline and Detector compute from   *)
(* the lengths of the filters: how many samples the detector masks after a *)
(* reset, and by how much its output lags its input.                       *)
(*                                                                         *)
(* Durations are in the ticks of SampleTime.  A duration of whole samples  *)
(* is a multiple of Period: the rates a picker accepts (40, 100, 200, 250, *)
(* 500 and 1000 Hz) all have a whole number of microseconds for a period.  *)
(***************************************************************************)
EXTENDS SampleTime, FiniteSets

CONSTANTS
    Pipelines,         \* the bank of pipelines of the detector
    Window,            \* mWindowSize of each characteristic function
    EnvelopeLength,    \* the envelope's number of coefficients, as requested
    NumberOfCascades,  \* of each narrow band filter
    FilterStartUp      \* 5/lowCorner of each narrow band filter

ASSUME StartUpAssumption ==
    /\ Pipelines # {}
    /\ IsFiniteSet(Pipelines)
    /\ Window \in [Pipelines -> Nat \ {0}]
    /\ EnvelopeLength \in [Pipelines -> Nat \ {0, 1}]
    /\ NumberOfCascades \in [Pipelines -> Nat]
    /\ FilterStartUp \in [Pipelines -> Nat]

LargestOf(S) == CHOOSE m \in S : \A k \in S : k <= m

\* The order is one less than the length, made even.
EnvelopeOrder(p) == LET order == EnvelopeLength[p] - 1 IN order + (order % 2)

\* The narrow band filter needs a few cycles to clear out; the envelope and
\* the characteristic function after it need their delay lines filled.
EstimateStartUp(p) ==
    Larger(FilterStartUp[p], (EnvelopeOrder(p) + Window[p] - 1) * Period)

\* The delay line of the cascades and half the one of the symmetric envelope.
PipelineGroupDelay(p) ==
    (2 * NumberOfCascades[p] + EnvelopeOrder(p) \div 2) * Period

\* The detector takes the slowest of its pipelines, in whole samples.
MaskFirstNSamples ==
    (LargestOf({EstimateStartUp(p) : p \in Pipelines}) + Period - 1) \div Period
GroupDelay == LargestOf({PipelineGroupDelay(p) : p \in Pipelines})
===========================================================================
