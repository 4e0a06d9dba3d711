---------------------------- MODULE SampleTime ----------------------------
(***************************************************************************)
(* The sample-time arithmetic of src/src/utilities.cpp: the end time of a  *)
(* packet, the number of samples missing between two packets and the       *)
(* trimming of a packet to a desired start time.  Times are integers (the  *)
(* code counts microseconds, the model counts ticks); the sampling period  *)
(* and its half are the two rounded integers the code computes from the    *)
(* sampling rate, so that the half may be off the exact half by one half.  *)
(***************************************************************************)
EXTENDS Integers, Sequences, FiniteSets

CONSTANTS
    Period,  \* std::round(1000000/rate)
    Half,    \* std::round(500000/rate)
    IntMax   \* std::numeric_limits<int>::max()

\* Period = round(x) and Half = round(x/2) for one real x >= 1/2.
ASSUME PeriodAssumption ==
    /\ Period \in Nat \ {0}
    /\ Half \in Nat
    /\ 2 * Half - Period \in {-1, 0, 1}
ASSUME IntMaxAssumption == IntMax \in Nat \ {0}

Abs(x) == IF x < 0 THEN -x ELSE x
Larger(x, y) == IF x < y THEN y ELSE x
Smaller(x, y) == IF x < y THEN x ELSE y

\* std::round(delta/period) of a non-negative delta: halves round up.
RoundDiv(delta) == (2 * delta + Period) \div (2 * Period)

\* The time of the last of n samples.
GetEndTime(start, n) == start + (n - 1) * Period

---------------------------------------------------------------------------
(* getGapSizeInSamples *)

\* static_cast<int> of the rounded quotient is only defined when it fits.
\* When it does not, no candidate and no round of the search that follows
\* reaches the packet's start, and the function throws.
GapFits(start, last) == RoundDiv(Abs(start - last)) <= IntMax

\* Variant with a mistake, for the mutation runs: the upper candidate missing.
CandidatesWithoutUpper(delta) ==
    LET gap == Larger(0, RoundDiv(delta) - 1) IN {gap - 1, gap}

\* The three candidates around the first estimate of the gap.
Candidates(delta) ==
    LET gap == Larger(0, RoundDiv(delta) - 1) IN {gap - 1, gap, gap + 1}

\* How far the packet starts from k periods after the last sample.
Distance(delta, k) == Abs(delta - k * Period)

\* The candidate the sort puts first (equal keys keep their order).
BestCandidate(delta) ==
    CHOOSE k \in Candidates(delta) : \A j \in Candidates(delta) :
        \/ Distance(delta, k) < Distance(delta, j)
        \/ Distance(delta, k) = Distance(delta, j) /\ k <= j

\* The search "the hard way", taken when no candidate is within half a period.
HardWay(delta) ==
    CHOOSE k \in 0 .. delta :
        /\ Distance(delta, k) <= Half
        /\ \A j \in 0 .. k - 1 : Distance(delta, j) > Half

\* The samples skipped between the last sample and the packet's start;
\* negative when the packet starts before the last sample.
GetGapSizeInSamples(start, last) ==
    LET delta == Abs(start - last)
        sign  == IF start < last THEN -1 ELSE 1
    IN  IF Abs(last + Period - start) < Half \/ start = last
          THEN 0
        ELSE IF Distance(delta, BestCandidate(delta)) <= Half
          THEN sign * Larger(0, BestCandidate(delta) - 1)
        ELSE sign * HardWay(delta)

---------------------------------------------------------------------------
(* leftTrim *)

Trimmed(data, time) == [data |-> data, time |-> time]
LastOf(data) == <<data[Len(data)]>>

\* Variant with a mistake, for the mutation runs: rounded down.
FloorDiv(delta) == delta \div Period

\* The first sample index (from 0) whose time is at or after delta.
CeilDiv(delta) == (delta + Period - 1) \div Period

\* The samples of data from the desired time on, and the time of the first.
LeftTrim(desired, data, start) ==
    LET n     == Len(data)
        end   == GetEndTime(start, n)
        delta == desired - start
    IN  IF delta <= 0 \/ n = 0
          THEN Trimmed(data, start)
        ELSE IF Abs(end - desired) < Half
          THEN Trimmed(LastOf(data), desired)
        ELSE IF desired > end
          THEN Trimmed(<<>>, desired)
        ELSE IF RoundDiv(delta) = 0 \/ delta < Period
          THEN Trimmed(LastOf(data), desired)
        ELSE IF RoundDiv(delta) >= n
          THEN Trimmed(<<>>, desired)
        ELSE Trimmed(SubSeq(data, CeilDiv(delta) + 1, n),
                     start + CeilDiv(delta) * Period)
---------------------------------------------------------------------------
(* What the gap and the trim of a packet should be, defined on their own.  *)

\* The sample instants k = 1, 2, ... after the earlier of two times that are
\* past by more than half a period when the later one comes.
MissingInstants(delta) == {k \in 1 .. delta : 2 * k * Period + Period < 2 * delta}

\* The gap is the number of them, negative when the packet starts early.
CountsMissingSamples(start, last) ==
    LET missing == Cardinality(MissingInstants(Abs(start - last)))
    IN  GetGapSizeInSamples(start, last) =
            IF start < last /\ Abs(last + Period - start) >= Half
              THEN -missing ELSE missing

\* leftTrim is asked to cut inside the first period of the packet, the case
\* its comment calls "Only first sample".
InFirstPeriod(desired, n, start) ==
    /\ desired > start /\ desired - start < Period
    /\ Abs(GetEndTime(start, n) - desired) >= Half
    /\ desired <= GetEndTime(start, n)

\* The samples at or after the desired time, and the last one when the desired
\* time is within half a period of it.
Kept(desired, n, start) ==
    {i \in 1 .. n : \/ GetEndTime(start, i) >= desired
                    \/ i = n /\ desired - GetEndTime(start, n) < Half}

\* Away from that case the trim keeps these samples and no others, in order.
TrimsToTail(desired, data, start) ==
    LET n    == Len(data)
        trim == LeftTrim(desired, data, start)
    IN  /\ ~InFirstPeriod(desired, n, start) =>
              /\ Len(trim.data) = Cardinality(Kept(desired, n, start))
              /\ \A i \in 1 .. Len(trim.data) :
                    trim.data[i] = data[n - Len(trim.data) + i]
        /\ trim.time >= desired
        /\ desired >= start => trim.time < desired + Period
===========================================================================
