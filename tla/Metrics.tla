------------------------------ MODULE Metrics ------------------------------
(***************************************************************************)
(* The counters of the application (src/src/metrics.cpp), the threads that *)
(* move them and the threads that read them: filterPackets counts resets   *)
(* and picks through Picker::apply, the publisher counts the picks it      *)
(* sends, the main thread prints what was added since its last summary     *)
(* (NetworkDetector::printSummary) and the exporter of OpenTelemetry calls *)
(* the observers of src/src/modules/metrics.cppm.                          *)
(*                                                                         *)
(* The maps are behind one mutex, which each operation takes and releases; *)
(* what a thread does with what it read comes later.  How many picks a     *)
(* packet makes is up to Picker; here it is any number.                    *)
(***************************************************************************)
EXTENDS Integers, Sequences, FiniteSets

CONSTANTS
    Streams,      \* the identifiers: network, station, channel, location
    MaxPackets,   \* bound: packets processed
    MaxPicks,     \* bound: picks of a packet
    MaxReports    \* bound: summaries printed

ASSUME MetricsAssumption ==
    /\ \A identifier \in Streams : identifier \in Seq(STRING) /\ Len(identifier) = 4
    /\ IsFiniteSet(Streams)
    /\ MaxPackets \in Nat
    /\ MaxPicks \in Nat
    /\ MaxReports \in Nat

VARIABLES
    mResetsCounterMap, mPicksCounterMap,  \* from key names to counts
    mPicksSentCounter,
    \* the thread in filterPackets
    dataPc,          \* "pop", "reset", "detect", "count" or "enqueue"
    stream,          \* of the packet it processes
    mOutputPicks,    \* per stream, the number of picks getPicks returns
    packets,         \* the packets processed so far
    queued,          \* picks enqueued and not yet popped
    \* the main thread in printSummary
    mainPc, nPicks, nResets, mPicksLastReport, mDetectorResetsLastReport,
    reports,         \* the summaries printed so far
    \* the exporter
    exporterPc,
    counters,        \* its copy of mPicksCounterMap
    \* history
    made, resets,    \* per stream, the picks and the resets so far
    offered,         \* per stream, the picks enqueued so far
    reportedPicks, reportedResets,  \* the sums of all summaries
    observed         \* the counters observed last

counterVars == <<mResetsCounterMap, mPicksCounterMap, mPicksSentCounter>>
dataVars == <<dataPc, stream, mOutputPicks, packets, made, resets, offered>>
mainVars == <<mainPc, nPicks, nResets, mPicksLastReport, mDetectorResetsLastReport,
              reports, reportedPicks, reportedResets>>
exporterVars == <<exporterPc, counters, observed>>
vars == <<counterVars, dataVars, queued, mainVars, exporterVars>>

NoCounters == [key \in {} |-> 0]

Init ==
    /\ mResetsCounterMap = NoCounters /\ mPicksCounterMap = NoCounters
    /\ mPicksSentCounter = 0
    /\ dataPc = "pop" /\ stream \in Streams /\ packets = 0 /\ queued = 0
    /\ mOutputPicks = [s \in Streams |-> 0]
    /\ mainPc = "loop" /\ nPicks = 0 /\ nResets = 0 /\ reports = 0
    /\ mPicksLastReport = 0 /\ mDetectorResetsLastReport = 0
    /\ exporterPc = "idle" /\ counters = NoCounters /\ observed = NoCounters
    /\ made = mOutputPicks /\ resets = mOutputPicks /\ offered = mOutputPicks
    /\ reportedPicks = 0 /\ reportedResets = 0

---------------------------------------------------------------------------
(* The counters *)

\* Variant with a mistake, for the mutation runs: the location is left out.
ToKeyNameOfSensor(identifier) == SubSeq(identifier, 1, 3)

\* The names in lower case, joined by underscores, which none of them holds;
\* an empty location code is left out.
ToKeyName(identifier) ==
    IF identifier[4] = "" THEN SubSeq(identifier, 1, 3) ELSE identifier

CountOf(map, key) == IF key \in DOMAIN map THEN map[key] ELSE 0

\* A key's first count is inserted, every other added to.
Incremented(map, key, n) ==
    [k \in DOMAIN map \cup {key} |-> CountOf(map, k) + (IF k = key THEN n ELSE 0)]

IncrementDetectorResetsCounter(key) ==
    mResetsCounterMap' = Incremented(mResetsCounterMap, key, 1)
IncrementPicksCounter(key, n) ==
    mPicksCounterMap' = IF n = 0 THEN mPicksCounterMap
                        ELSE Incremented(mPicksCounterMap, key, n)

\* The sum of all counts, each of which is as many things counted.
Counted(map) == UNION {{key} \X (1 .. map[key]) : key \in DOMAIN map}
TotalOf(map) == Cardinality(Counted(map))
SumPicks == TotalOf(mPicksCounterMap)
SumDetectorResets == TotalOf(mResetsCounterMap)

---------------------------------------------------------------------------
(* filterPackets: a packet that is refused counts nothing, yet getPicks is *)
(* called after every apply that returns.                                  *)

Pop(identifier) ==
    /\ dataPc = "pop" /\ packets < MaxPackets
    /\ stream' = identifier
    /\ packets' = packets + 1
    /\ dataPc' \in {"pop", "reset", "detect", "enqueue"}
    /\ UNCHANGED <<mOutputPicks, made, resets, offered, counterVars, queued, mainVars,
                   exporterVars>>

Reset ==
    /\ dataPc = "reset"
    /\ IncrementDetectorResetsCounter(ToKeyName(stream))
    /\ resets' = [resets EXCEPT ![stream] = @ + 1]
    /\ dataPc' \in {"detect", "enqueue"}
    /\ UNCHANGED <<stream, mOutputPicks, packets, made, offered, mPicksCounterMap,
                   mPicksSentCounter, queued, mainVars, exporterVars>>

\* The trigger runs: its picks replace those of the apply before.
Detect(n) ==
    /\ dataPc = "detect"
    /\ mOutputPicks' = [mOutputPicks EXCEPT ![stream] = n]
    /\ made' = [made EXCEPT ![stream] = @ + n]
    /\ dataPc' = IF n = 0 THEN "enqueue" ELSE "count"
    /\ UNCHANGED <<stream, packets, resets, offered, counterVars, queued, mainVars,
                   exporterVars>>

Count ==
    /\ dataPc = "count"
    /\ IncrementPicksCounter(ToKeyName(stream), mOutputPicks[stream])
    /\ dataPc' = "enqueue"
    /\ UNCHANGED <<stream, mOutputPicks, packets, made, resets, offered,
                   mResetsCounterMap, mPicksSentCounter, queued, mainVars, exporterVars>>

\* getPicks, also of an apply that made none: the picks stay.
Enqueue ==
    /\ dataPc = "enqueue"
    /\ queued' = queued + mOutputPicks[stream]
    /\ offered' = [offered EXCEPT ![stream] = @ + mOutputPicks[stream]]
    /\ dataPc' = "pop"
    /\ UNCHANGED <<stream, mOutputPicks, packets, made, resets, counterVars, mainVars,
                   exporterVars>>

DataNext ==
    \/ \E identifier \in Streams : Pop(identifier)
    \/ Reset \/ Count \/ Enqueue
    \/ \E n \in 0 .. MaxPicks : Detect(n)

\* The publisher writes a pick and counts it, or loses it.
Send ==
    /\ queued > 0
    /\ queued' = queued - 1
    /\ mPicksSentCounter' \in {mPicksSentCounter, mPicksSentCounter + 1}
    /\ UNCHANGED <<mResetsCounterMap, mPicksCounterMap, dataVars, mainVars, exporterVars>>

---------------------------------------------------------------------------
(* printSummary, once the interval since the last summary is over.         *)

ReadPicks ==
    /\ mainPc = "loop" /\ reports < MaxReports
    /\ nPicks' = SumPicks
    /\ mainPc' = "resets"
    /\ UNCHANGED <<nResets, mPicksLastReport, mDetectorResetsLastReport, reports,
                   reportedPicks, reportedResets, counterVars, dataVars, queued,
                   exporterVars>>

ReadResets ==
    /\ mainPc = "resets"
    /\ nResets' = SumDetectorResets
    /\ mainPc' = "report"
    /\ UNCHANGED <<nPicks, mPicksLastReport, mDetectorResetsLastReport, reports,
                   reportedPicks, reportedResets, counterVars, dataVars, queued,
                   exporterVars>>

\* Variant with a mistake, for the mutation runs: the counters are read again.
ReportOfNow ==
    /\ mainPc = "report"
    /\ reportedPicks' = reportedPicks + nPicks - mPicksLastReport
    /\ reportedResets' = reportedResets + nResets - mDetectorResetsLastReport
    /\ mPicksLastReport' = SumPicks
    /\ mDetectorResetsLastReport' = SumDetectorResets
    /\ reports' = reports + 1
    /\ mainPc' = "loop"
    /\ UNCHANGED <<nPicks, nResets, counterVars, dataVars, queued, exporterVars>>

Report ==
    /\ mainPc = "report"
    /\ reportedPicks' = reportedPicks + nPicks - mPicksLastReport
    /\ reportedResets' = reportedResets + nResets - mDetectorResetsLastReport
    /\ mPicksLastReport' = nPicks
    /\ mDetectorResetsLastReport' = nResets
    /\ reports' = reports + 1
    /\ mainPc' = "loop"
    /\ UNCHANGED <<nPicks, nResets, counterVars, dataVars, queued, exporterVars>>

PrintSummary == ReadPicks \/ ReadResets \/ Report

---------------------------------------------------------------------------
(* observePicks: a copy of the map, then one observation per key.  The     *)
(* observer of the resets does the same with the other map.                *)

CopyCounters ==
    /\ exporterPc = "idle"
    /\ counters' = mPicksCounterMap
    /\ exporterPc' = "observe"
    /\ UNCHANGED <<observed, counterVars, dataVars, queued, mainVars>>

ObserveCounters ==
    /\ exporterPc = "observe"
    /\ observed' = counters
    /\ exporterPc' = "idle"
    /\ UNCHANGED <<counters, counterVars, dataVars, queued, mainVars>>

ObservePicks == CopyCounters \/ ObserveCounters

Next == DataNext \/ Send \/ PrintSummary \/ ObservePicks
Spec == Init /\ [][Next]_vars

---------------------------------------------------------------------------
(* What the counters promise.                                              *)

\* The picks of the packet under way that are not counted yet.
Uncounted(s) == IF dataPc = "count" /\ stream = s THEN mOutputPicks[s] ELSE 0

\* A stream's counters are its own picks and resets, to the packet under way,
\* whichever other streams there are; every counted pick is or was offered to
\* the publisher, and never more are counted as sent than were offered.  The
\* picks sent may outnumber the picks made, as getPicks returns the picks of
\* an earlier apply again (metrics.cpp:54-93, picker.cpp:217-297).
CountersMatchPicks ==
    /\ \A s \in Streams :
          /\ CountOf(mPicksCounterMap, ToKeyName(s)) = made[s] - Uncounted(s)
          /\ CountOf(mResetsCounterMap, ToKeyName(s)) = resets[s]
          /\ dataPc = "pop" => made[s] <= offered[s]
    /\ mPicksSentCounter + queued <= TotalOf(offered)

\* However the threads interleave, the summaries printed so far add up to
\* what the last of them read, no pick or reset is reported twice or missed,
\* and no report takes any back; and what the exporter is about to observe is
\* never behind what it observed before nor ahead of the counters, as a
\* cumulative counter has to be (filterPicker.cpp:550-570).
ReportsAddUp ==
    /\ reportedPicks = mPicksLastReport /\ mPicksLastReport <= nPicks
    /\ reportedResets = mDetectorResetsLastReport /\ mDetectorResetsLastReport <= nResets
    /\ nPicks <= SumPicks /\ nResets <= SumDetectorResets
    /\ \A key \in DOMAIN observed : observed[key] <= CountOf(counters, key)
    /\ \A key \in DOMAIN counters : counters[key] <= CountOf(mPicksCounterMap, key)
=============================================================================
