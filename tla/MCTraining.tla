----------------------------- MODULE MCTraining -----------------------------
(***************************************************************************)
(* The training program and, after it ended in any way, one more user of   *)
(* its database: the program once more, or a client of FeaturesDatabase    *)
(* that opens the file in any mode and writes what it likes.  The filters  *)
(* are those of MCPicker: the burn-in ends after two samples, the mask     *)
(* after four.                                                             *)
(***************************************************************************)
EXTENDS GatherWaveforms

CONSTANTS
    e1, e2, e3,   \* the events of the archive
    p1,           \* the pipeline
    MaxOpens,     \* bound: users of the database, one after the other
    MaxStreams    \* bound: rows of the table streams a client adds to

MCPipelines == {p1}
MCWindow == [p \in MCPipelines |-> 2]
MCEnvelopeLength == [p \in MCPipelines |-> 2]
MCNumberOfCascades == [p \in MCPipelines |-> 0]
MCFilterStartUp == [p \in MCPipelines |-> 12]

\* The pick of e1 precedes the burn-in of every trace, the one of e2 is in the
\* middle of it, the one of e3 may be behind its end; e3 has no file root.
ArchiveEvents == {e1, e2, e3}
MCOriginTime == [e \in ArchiveEvents |-> IF e = e1 THEN 1 ELSE IF e = e2 THEN 2 ELSE 3]
MCPickTime == [e \in ArchiveEvents |-> IF e = e1 THEN 4 ELSE 8]
MCWaveRoots == <<[onTime |-> 0, offTime |-> 3], [onTime |-> 2, offTime |-> 4]>>

Entry(name, tokens, location) == [name |-> name, tokens |-> tokens, location |-> location]

\* Two streams with locations; one with none in the file and one with an empty
\* one; one that is given twice, for its location is not read; none.
MCInis ==
    {<<Entry("A", 5, "01"), Entry("B", 5, "01")>>,
     <<Entry("A", 3, ""), Entry("A", 5, "")>>,
     <<Entry("A", 4, "01"), Entry("A", 4, "02")>>,
     <<>>}

Record(start, data) == [start |-> start, data |-> data, parses |-> TRUE]

\* Waveforms of at most three packets with samples: one out of order, one with
\* jitter, an overlap and an empty record, one with a gap, one with nothing
\* but zeros behind a packet that is cut, none at all, and a broken one.
MCWaveforms ==
    {<<Record(9, <<1, 1, 1>>), Record(0, <<1, 1, 1>>), Record(18, <<0, 1, 1>>)>>,
     <<Record(0, <<0, 1>>), Record(5, <<>>), Record(7, <<1, 0, 1>>), Record(11, <<0, 0, 1>>)>>,
     <<Record(0, <<1, 1, 1>>), Record(9, <<1, 1>>), Record(15, <<0, 0>>)>>,
     <<Record(0, <<1, 1, 1>>), Record(12, <<1, 1>>)>>,
     <<>>,
     <<[start |-> 0, data |-> <<1>>, parses |-> FALSE]>>}

VARIABLE opens
allVars == <<vars, opens>>

ClientStreams == {[name |-> "A", location |-> l] : l \in {"01", Dashes, NoLocation}}

MCInit == Init /\ opens = 1

\* The program ran; somebody else comes.
NextUser ==
    /\ pc = "gone"
    /\ opens < MaxOpens
    /\ opens' = opens + 1
    /\ \/ pc' = "options" /\ UNCHANGED databaseVars
       \/ \E mode \in Modes :
             \/ Open(mode) /\ pc' = IF InCreate' THEN "otherCreate" ELSE "other"
             \/ OpenFails(mode) /\ pc' = "gone"
    /\ exitStatus' = "none"
    /\ row' = NoRow
    /\ streamList' = <<>> /\ picked' = <<>>
    /\ NoTrace /\ NewDetector

ClientCreates ==
    /\ pc = "otherCreate"
    /\ \/ Create /\ pc' = IF creating' = Len(Schema) THEN "other" ELSE "otherCreate"
       \/ Gone /\ pc' = "gone"
    /\ UNCHANGED <<exitStatus, streamList, picked, row, traceVars, detectorVars, opens>>

ClientWrites ==
    /\ pc = "other"
    /\ \/ \E e \in Events : AddEvent(e)
       \/ /\ Len(streams) < MaxStreams
          /\ \E e \in Events, s \in ClientStreams : EventExists(e) /\ GetStreamIdentifier(s)
    /\ UNCHANGED <<gatherVars, traceVars, detectorVars, opens>>

ClientCloses ==
    /\ pc = "other"
    /\ Gone
    /\ pc' = "gone"
    /\ UNCHANGED <<exitStatus, streamList, picked, row, traceVars, detectorVars, opens>>

MCNext ==
    \/ ProgramNext /\ UNCHANGED opens
    \/ Kill /\ UNCHANGED opens
    \/ NextUser \/ ClientCreates \/ ClientWrites \/ ClientCloses

\* The program runs unless it is killed.
MCSpec == MCInit /\ [][MCNext]_allVars /\ WF_allVars(ProgramNext /\ UNCHANGED opens)

---------------------------------------------------------------------------
\* The n packets between the times first and time hold so many samples, and
\* follow each other but for the tolerated misfit from packet to packet.
Follows(time, first, samples, n) ==
    LET misfit == time - first - (samples - 1) * Period
    IN  /\ misfit >= -((n - 1) * (MaxGapDuration + Period))
        /\ misfit <= (n - 1) * (MaxGapDuration - Period)

IsSound(r) ==
    /\ r.event \in events
    /\ Abs(r.time - PickTime[r.event]) <= PickWindow
    /\ r.value # Low => /\ r.samples > MaskFirstNSamples
                       /\ r.time + GroupDelay - r.start >= BurnInTime
    /\ Follows(r.time + GroupDelay, r.first, r.samples, r.packets)

\* A row the program writes is of an event the database has, of a sample near
\* the analyst's pick; a value that is not zero comes from filters that took a
\* whole start-up of that same trace, past its burn-in; and the samples from
\* the first the detector took to the one of the row follow each other, but
\* for the tolerated misfit from packet to packet.  A detector that was used
\* for another event, and packets that do not follow each other, would put
\* wrong values in the training set.
RowsAreSound == row # NoRow => IsSound(row)

\* However often a file is opened and whoever writes, a stream that has a
\* location code gets one row of the table of streams, with one identifier.
OneRowPerNamedStream ==
    \A i, j \in 1 .. Len(streams) :
        streams[i] = streams[j] /\ i # j => streams[i].location = NoLocation

\* Whoever has opened the database, after any ends of its earlier users, works
\* on the complete schema, unless the creation of this very file was broken
\* off; the program itself always does.
CompleteUnlessBrokenOff ==
    /\ mIsOpen /\ mTablesInitialized => tables = AllTables \/ brokenOff
    /\ pc \in {"connect", "stream", "event", "waveform", "packet", "row", "rowAgain"} =>
          tables = AllTables /\ ~brokenOff

\* The program ends, whatever the archive answers and whichever calls fail,
\* except over a waveform with a record that does not parse.
EndsUnlessCorrupt == pc = "options" ~> pc \in {"gone", "hung"}
=============================================================================
