-------------------------- MODULE GatherWaveforms --------------------------
(***************************************************************************)
(* The training program (src/training/gatherWaveforms.cpp).  It creates    *)
(* the features database, asks the archive for the picks of each stream,   *)
(* runs a detector over the trace of one of them and writes a row when the *)
(* detector had a value near the analyst's pick.                           *)
(*                                                                         *)
(* The program is sequential: pc names the statement it is about to run.   *)
(* Any call of the archive or of the database may fail, and the process    *)
(* may be killed anywhere.  The detector is the one of Detector; what it   *)
(* computes of a packet is a choice, as there.                             *)
(***************************************************************************)
EXTENDS FeaturesDatabase, AQMS, Detector

CONSTANTS
    BurnInFactor,     \* ProgramOptions::burnInFactor
    PickWindow,       \* ProgramOptions::pickWindow
    MaxGapDuration,   \* 50 ms
    PickTime,         \* the analyst's pick of each event of the archive
    Inis,             \* bound: the stream entries of ini files
    Waveforms,        \* bound: the waveforms, as records, the archive holds
    InputLevels       \* bound: the levels the samples of a packet take

ASSUME GatherAssumption ==
    /\ BurnInFactor \in Nat
    /\ PickWindow \in Nat
    /\ MaxGapDuration \in Nat
    /\ PickTime \in [DOMAIN OriginTime -> Nat]
    /\ InputLevels \subseteq Levels
    /\ \A ini \in Inis :
          ini \in Seq([name : STRING, tokens : Nat, location : STRING])
    /\ \A records \in Waveforms :
          records \in Seq([start : Nat, data : Seq(Int), parses : BOOLEAN])

Events == DOMAIN OriginTime
BurnInTime == GroupDelay * BurnInFactor

\* No estimate yet: numeric_limits<double>::lowest().
Lowest == -1
NoTime == -1
NoEstimate == [time |-> 0, value |-> Lowest, packets |-> 0, samples |-> 0]
NoRow == NoEstimate
NothingTaken == [packets |-> 0, samples |-> 0, first |-> 0]

VARIABLES
    pc,
    exitStatus,         \* "none", "EXIT_SUCCESS", "EXIT_FAILURE", "aborted" or "killed"
    streamList,         \* the streams left, the current one first
    picked,             \* the events left of the current stream, the current one first
    packets,            \* the packets left of the current trace
    traceStartTime,
    lastPacketEndTime,
    gapDetected,
    estimate,           \* estimatePickTimeAndValue, and as history how many packets
                        \* and samples of this trace the detector had taken by then
    \* history
    taken,              \* the packets and samples of this trace the detector has
                        \* taken, and the time of the first sample
    row                 \* the last row written and printed

traceVars == <<packets, traceStartTime, lastPacketEndTime, gapDetected, estimate, taken>>
gatherVars == <<pc, exitStatus, streamList, picked, row>>
vars == <<gatherVars, traceVars, detectorVars, databaseVars>>

TraceInit ==
    /\ packets = <<>>
    /\ traceStartTime = 0
    /\ lastPacketEndTime = NoTime
    /\ gapDetected = FALSE
    /\ estimate = NoEstimate
    /\ taken = NothingTaken

Init ==
    /\ DatabaseInit
    /\ DetectorInit
    /\ TraceInit
    /\ pc = "options"
    /\ exitStatus = "none"
    /\ streamList = <<>>
    /\ picked = <<>>
    /\ row = NoRow

---------------------------------------------------------------------------
(* main up to its loop.                                                    *)

Return(status) == pc' = "gone" /\ exitStatus' = status

\* The stream of an ini entry of `tokens` words: four words do not reach the
\* location code, and a location code may be empty.
StreamOf(entry) ==
    [name |-> entry.name,
     location |-> IF entry.tokens > 4 THEN entry.location ELSE Dashes]

\* parseIniFile refuses a stream that is given twice, and no streams at all.
Accepted(ini) ==
    /\ ini # <<>>
    /\ \A i, j \in 1 .. Len(ini) : i # j => StreamOf(ini[i]) # StreamOf(ini[j])

\* A request for help, a bad command line or a bad ini file end the program.
ReadOptions ==
    /\ pc = "options"
    /\ \/ \E ini \in Inis :
             /\ Accepted(ini)
             /\ streamList' = [i \in 1 .. Len(ini) |-> StreamOf(ini[i])]
             /\ pc' = "open"
             /\ UNCHANGED exitStatus
       \/ \E status \in {"EXIT_SUCCESS", "EXIT_FAILURE"} :
             Return(status) /\ UNCHANGED streamList
    /\ UNCHANGED <<picked, row, traceVars, detectorVars, databaseVars>>

OpenDatabase ==
    /\ pc = "open"
    /\ \/ Open("Create") /\ pc' = "create" /\ UNCHANGED exitStatus
       \/ OpenFails("Create") /\ Return("EXIT_FAILURE")
    /\ UNCHANGED <<streamList, picked, row, traceVars, detectorVars>>

CreateTables ==
    /\ pc = "create"
    /\ \/ /\ Create
          /\ pc' = IF creating' = Len(Schema) THEN "connect" ELSE "create"
          /\ UNCHANGED exitStatus
       \/ Gone /\ Return("EXIT_FAILURE")
    /\ UNCHANGED <<streamList, picked, row, traceVars, detectorVars>>

\* The connection to the archive, which reads the file roots.
Connect ==
    /\ pc = "connect"
    /\ \/ pc' = "stream" /\ UNCHANGED <<exitStatus, databaseVars>>
       \/ Return("EXIT_FAILURE") /\ Gone
    /\ UNCHANGED <<streamList, picked, row, traceVars, detectorVars>>

---------------------------------------------------------------------------
(* The loop over the streams.                                              *)

\* A new detector counts from zero, like one that was reset.
NewDetector == DetectorStep(TRUE, 0)

\* The locals of the loop over the events are gone.
NoTrace ==
    /\ packets' = <<>>
    /\ traceStartTime' = 0
    /\ lastPacketEndTime' = NoTime
    /\ gapDetected' = FALSE
    /\ estimate' = NoEstimate
    /\ taken' = NothingTaken

NextStream ==
    /\ streamList' = Tail(streamList)
    /\ picked' = <<>>
    /\ pc' = "stream"
    /\ NoTrace

\* The picks of the stream; none when it is not active or the query fails.
GetPicks ==
    /\ pc = "stream" /\ streamList # <<>>
    /\ \E matching \in SUBSET Events : picked' \in PicksForStream(matching)
    /\ IF picked' = <<>>
         THEN streamList' = Tail(streamList) /\ pc' = "stream"
         ELSE pc' = "event" /\ UNCHANGED streamList
    /\ NewDetector
    /\ UNCHANGED <<exitStatus, row, traceVars, databaseVars>>

\* After the last stream.
Finish ==
    /\ pc = "stream" /\ streamList = <<>>
    /\ Return("EXIT_SUCCESS")
    /\ Gone
    /\ UNCHANGED <<streamList, picked, row, traceVars, detectorVars>>

---------------------------------------------------------------------------
(* The loop over the events of a stream.                                   *)

\* The event goes to the database first; a failure ends the program.
WriteEvent ==
    /\ pc = "event" /\ picked # <<>>
    /\ \/ AddEvent(Head(picked)) /\ pc' = "waveform" /\ UNCHANGED exitStatus
       \/ Return("EXIT_FAILURE") /\ Gone
    /\ UNCHANGED <<streamList, picked, row, traceVars, detectorVars>>

\* Variant with a mistake, for the mutation runs: the same stream comes again.
NoMoreEventsStaysOnStream ==
    /\ pc = "event" /\ picked = <<>>
    /\ pc' = "stream"
    /\ NoTrace
    /\ UNCHANGED <<exitStatus, streamList, picked, row, detectorVars, databaseVars>>

\* Every pick of the stream was too early in its trace.
NoMoreEvents ==
    /\ pc = "event" /\ picked = <<>>
    /\ NextStream
    /\ UNCHANGED <<exitStatus, row, detectorVars, databaseVars>>

TooEarly(trace) == PickTime[Head(picked)] < trace[1].start + BurnInTime

\* The trace of the event: its waveform is found and unpacked.
GetWaveform ==
    /\ pc = "waveform"
    /\ HasFileRoot(Head(picked))
    /\ \E records \in Waveforms :
          /\ UnpackEnds(records)
          /\ \E trace \in Unpack(records) :
                /\ trace # <<>>
                /\ IF TooEarly(trace)
                     THEN /\ picked' = Tail(picked)
                          /\ pc' = "event"
                          /\ UNCHANGED traceVars
                     ELSE /\ pc' = "packet"
                          /\ packets' = trace
                          /\ traceStartTime' = trace[1].start
                          /\ UNCHANGED <<picked, lastPacketEndTime, gapDetected,
                                         estimate, taken>>
    /\ UNCHANGED <<exitStatus, streamList, row, detectorVars, databaseVars>>

\* No file root, no data, a failed query or an empty trace: the exception is
\* logged, there is no estimate, and the event is the last of its stream.
GetWaveformFails ==
    /\ pc = "waveform"
    /\ NextStream
    /\ UNCHANGED <<exitStatus, row, detectorVars, databaseVars>>

\* A record that does not parse: unpack never returns.
GetWaveformHangs ==
    /\ pc = "waveform"
    /\ HasFileRoot(Head(picked))
    /\ \E records \in Waveforms : ~UnpackEnds(records)
    /\ pc' = "hung"
    /\ UNCHANGED <<exitStatus, streamList, picked, row, traceVars, detectorVars,
                   databaseVars>>

---------------------------------------------------------------------------
(* The loop over the packets of a trace.                                   *)

IsGap(packet) ==
    lastPacketEndTime # NoTime /\ Abs(packet.start - lastPacketEndTime) > MaxGapDuration

SkipEmptyPacket ==
    /\ pc = "packet" /\ packets # <<>>
    /\ Head(packets).data = <<>>
    /\ packets' = Tail(packets)
    /\ UNCHANGED <<pc, exitStatus, streamList, picked, row, traceStartTime,
                   lastPacketEndTime, gapDetected, estimate, taken, detectorVars,
                   databaseVars>>

DetectGap ==
    /\ pc = "packet" /\ packets # <<>>
    /\ Head(packets).data # <<>>
    /\ IsGap(Head(packets))
    /\ packets' = <<>>
    /\ lastPacketEndTime' = NoTime
    /\ gapDetected' = TRUE
    /\ UNCHANGED <<pc, exitStatus, streamList, picked, row, traceStartTime, estimate,
                   taken, detectorVars, databaseVars>>

TimeOfSample(start, k) == start + (k - 1) * Period

\* The samples of a packet whose time, group delay apart, is near the pick.
InPickWindow(start, n) ==
    {k \in 1 .. n :
        Abs(TimeOfSample(start, k) - GroupDelay - PickTime[Head(picked)]) <= PickWindow}

\* The detector's output, zero before the end of the burn-in.
Burned(start, cf) ==
    [k \in 1 .. Len(cf) |->
        IF TimeOfSample(start, k) - traceStartTime < BurnInTime THEN Low ELSE cf[k]]

\* The last of the largest values of the window so far.
Improved(start, cf) ==
    LET window == InPickWindow(start, Len(cf))
        best == {k \in window : /\ cf[k] >= estimate.value
                                /\ \A j \in window : cf[j] <= cf[k]}
    IN  IF best = {} THEN estimate
        ELSE [time |-> TimeOfSample(start, LastIn(best)) - GroupDelay,
              value |-> cf[LastIn(best)],
              packets |-> taken.packets + 1,
              samples |-> taken.samples + LastIn(best)]

ApplyPacket ==
    /\ pc = "packet" /\ packets # <<>>
    /\ Head(packets).data # <<>>
    /\ ~IsGap(Head(packets))
    /\ LET start == Head(packets).start
           n == Len(Head(packets).data)
       IN  /\ \E x \in [Pipelines -> [1 .. n -> InputLevels]] :
                 estimate' = Improved(start, Burned(start, DetectorOutput(FALSE, x)))
           /\ DetectorStep(FALSE, n)
           /\ lastPacketEndTime' = Larger(TimeOfSample(start, n), lastPacketEndTime)
           /\ taken' = [packets |-> taken.packets + 1,
                         samples |-> taken.samples + n,
                         first |-> IF taken.packets = 0 THEN start ELSE taken.first]
    /\ packets' = Tail(packets)
    /\ UNCHANGED <<pc, exitStatus, streamList, picked, row, traceStartTime, gapDetected,
                   databaseVars>>

\* After the last packet: there is a row only for an estimate and no gap.
EndTrace ==
    /\ pc = "packet" /\ packets = <<>>
    /\ IF estimate.value > Lowest /\ ~gapDetected
         THEN pc' = "row" /\ UNCHANGED <<streamList, picked, traceVars>>
         ELSE NextStream
    /\ UNCHANGED <<exitStatus, row, detectorVars, databaseVars>>

---------------------------------------------------------------------------
(* write(Row), outside of any try block: what it throws ends the process.  *)

\* addRow finds the event and identifies the stream.
IdentifyStream ==
    /\ pc = "row"
    /\ EventExists(Head(picked))
    /\ GetStreamIdentifier(Head(streamList))
    /\ pc' = "rowAgain"
    /\ UNCHANGED <<exitStatus, streamList, picked, row, traceVars, detectorVars>>

RowOfTrace ==
    [event |-> Head(picked), time |-> estimate.time, value |-> estimate.value,
     packets |-> estimate.packets, samples |-> estimate.samples,
     start |-> traceStartTime, first |-> taken.first]

\* Variant with a mistake, for the mutation runs: the loop goes on to the next event.
WriteRowAndGoOn ==
    /\ pc = "rowAgain"
    /\ GetStreamIdentifier(Head(streamList))
    /\ row' = RowOfTrace
    /\ picked' = Tail(picked)
    /\ pc' = "event"
    /\ NoTrace
    /\ UNCHANGED <<exitStatus, streamList, detectorVars>>

\* addRow identifies the stream again and writes no features.  The break after
\* it leaves the other events of the stream alone.
WriteRow ==
    /\ pc = "rowAgain"
    /\ GetStreamIdentifier(Head(streamList))
    /\ row' = RowOfTrace
    /\ NextStream
    /\ UNCHANGED <<exitStatus, detectorVars>>

WriteRowFails ==
    /\ pc \in {"row", "rowAgain"}
    /\ Return("aborted")
    /\ Gone
    /\ UNCHANGED <<streamList, picked, row, traceVars, detectorVars>>

---------------------------------------------------------------------------
ProgramNext ==
    \/ ReadOptions \/ OpenDatabase \/ CreateTables \/ Connect
    \/ GetPicks \/ Finish
    \/ WriteEvent \/ NoMoreEvents
    \/ GetWaveform \/ GetWaveformFails \/ GetWaveformHangs
    \/ SkipEmptyPacket \/ DetectGap \/ ApplyPacket \/ EndTrace
    \/ IdentifyStream \/ WriteRow \/ WriteRowFails

\* The process is killed before any of its statements.
Kill ==
    /\ pc \notin {"gone", "other", "otherCreate"}
    /\ Return("killed")
    /\ Gone
    /\ UNCHANGED <<streamList, picked, row, traceVars, detectorVars>>
=============================================================================
