--------------------------- MODULE MCAlgorithms ---------------------------
(***************************************************************************)
(* Checks the pure algorithms against independent definitions of what they *)
(* compute: the sample times of a packet (SampleTime), the packets of a    *)
(* waveform (AQMS) and the pickers of an ini file (Options).  The state is *)
(* one query, which is asked once.                                         *)
(***************************************************************************)
EXTENDS SampleTime, AQMS, Options

CONSTANTS
    LastTime,    \* time of the last sample already processed
    MaxTime,     \* bound: no packet starts, and no trim is asked for, later
    MaxLength,   \* bound: samples of a packet
    MaxRecords,  \* bound: records of a waveform
    MaxEntries   \* bound: entries of an ini file

ASSUME AlgorithmsAssumption ==
    /\ LastTime \in Int
    /\ MaxTime \in Int
    /\ MaxLength \in Nat
    /\ MaxRecords \in Nat
    /\ MaxEntries \in Nat

\* The archive is not asked for events here.
NoEvents == <<>>

VARIABLE query

Asked(kind) == query.kind = kind

---------------------------------------------------------------------------
\* A packet that starts at start after the last sample, and is then to be
\* trimmed to a desired time.
PacketQueries ==
    [kind : {"packet"}, start : 0 .. MaxTime, n : 1 .. MaxLength,
     desired : 0 .. MaxTime]

\* The records of a waveform, in any order of their times.
Data == UNION {[1 .. k -> {0, 1}] : k \in 1 .. 3}
Records == [start : 0 .. 1, data : Data, parses : {TRUE}]
WaveformQueries ==
    [kind : {"waveform"}, records : UNION {[1 .. k -> Records] : k \in 1 .. MaxRecords}]

\* The sections of a client: one whose values are all good, and every other.
GoodSection ==
    [host |-> "given", port |-> 1, serverCertificate |-> "none",
     accessToken |-> "none", clientKey |-> "none", clientCertificate |-> "none"]
Files == {"none", "missing", "empty", "good"}
Sections ==
    [host : {"absent", "blank", "given"}, port : 0 .. 1, serverCertificate : Files,
     accessToken : {"none", "empty", "good"}, clientKey : Files,
     clientCertificate : Files]

\* Entries: one stream named twice, its other location, a stream of another
\* channel, one without a station, one that is cut short, a missing key.
EntryWords ==
    {<<"UU", "A", "HHZ">>, <<"UU", "A", "HHZ", "--">>, <<"UU", "A", "HHZ", "01">>,
     <<"UU", "B", "EHZ">>, <<"UU", "", "HHZ">>, <<"UU", "A">>, <<>>}
EntryLists ==
    UNION {[1 .. k -> [words : EntryWords]] : k \in 0 .. MaxEntries}

\* The lines of the two locations of that stream, in upper and lower case: no
\* two good lines are the same.
Key(location, upper) == [words |-> <<"UU", "A", "HHZ", location>>, upper |-> upper]
Line(words, on, rate) == [words |-> words, on |-> on, off |-> 2, rate |-> rate]
LineKeys == {Key("--", TRUE), Key("01", TRUE), Key("--", FALSE)}
LineChoices(key) ==
    IF ~key.upper THEN {Line(3, 5, 80)}
    ELSE IF key.words[4] = "01" THEN {Line(3, 4, 50), Line(3, 4, 0)}
    ELSE {Line(3, 3, 40), Line(2, 3, 40), Line(3, 0, 40)}
Models ==
    UNION {{models \in [keys -> UNION {LineChoices(key) : key \in keys}] :
               \A key \in keys : models[key] \in LineChoices(key)} :
               keys \in SUBSET LineKeys}

Ini(publisher, subscriber, queueSize, maximumImportQueueSize, streams, models) ==
    [publisher |-> publisher, subscriber |-> subscriber, queueSize |-> queueSize,
     maximumImportQueueSize |-> maximumImportQueueSize, streams |-> streams,
     models |-> models]
NoModels == [key \in {} |-> 0]
OneStream == << [words |-> <<"UU", "A", "HHZ">>] >>

IniQueries ==
    {[kind |-> "ini", ini |-> ini] :
        ini \in {Ini(section, GoodSection, q, m, OneStream, NoModels) :
                    section \in Sections, q \in 0 .. 1, m \in 0 .. 1}
                \cup {Ini(GoodSection, section, 1, 1, OneStream, NoModels) :
                         section \in Sections}
                \cup {Ini(GoodSection, GoodSection, 1, 1, streams, models) :
                        streams \in EntryLists, models \in Models}}

AskInit == query = [kind |-> "none"]
Ask(queries) == Asked("none") /\ query' \in queries
AskNext == Ask(PacketQueries) \/ Ask(WaveformQueries) \/ Ask(IniQueries)
AskSpec == AskInit /\ [][AskNext]_query

---------------------------------------------------------------------------
\* getGapSizeInSamples counts the samples that should have arrived between
\* the last one and the packet's start, whatever the jitter of the start, and
\* is negative exactly when the packet starts that many samples too early
\* (utilities.cpp:287-379: the three candidates and the early exits agree).
GapCountsMissingSamples ==
    Asked("packet") => CountsMissingSamples(query.start, LastTime)

\* Samples that are named by their places.
Places == [i \in 1 .. query.n |-> i]

\* Away from its first period leftTrim returns nothing but a tail of the
\* packet, in order, whose first sample is the first one at or after the
\* desired time, or the last sample when that is within half a period of it:
\* no later sample is lost, and none before the desired time is kept.  What
\* it returns never starts before the desired time, and starts less than a
\* period after it unless the packet itself starts later (utilities.hpp:69-70).
TrimReturnsTail ==
    Asked("packet") => TrimsToTail(query.desired, Places, query.start)

\* utilities.hpp:68-69 "result.first is the trimmed data adn result.second is
\* the corresponding start time of the data": the first sample returned is
\* a sample of the packet less than a period away from the time returned.
TrimmedTimeIsOfFirstSample ==
    LET trim == LeftTrim(query.desired, Places, query.start)
    IN  Asked("packet") /\ trim.data # <<>> =>
            Abs(GetEndTime(query.start, trim.data[1]) - trim.time) < Period

---------------------------------------------------------------------------
\* Whatever the order of the records, unpack loses no packet, returns them in
\* the order of their times, and shortens none but the last one that is not
\* silent: no packet is cut before the one at which the trace ends, and of that
\* one exactly the samples after its first one that is not zero are lost
\* (aqms.hpp:298-323, where the loop over the packets leaves with what the loop
\* over the samples found, and that loop goes on to the packet's start).
OnlyLastPacketIsCut ==
    Asked("waveform") =>
        \A packets \in Unpack(query.records) : CutsOnePacket(packets, query.records)

\* aqms.hpp:304 "Purge trailing zeros": what unpack cuts off is zeros.
PurgesOnlyZeros ==
    Asked("waveform") =>
        \A packets \in Unpack(query.records) : CutsOnlyZeros(packets, query.records)

---------------------------------------------------------------------------
\* An ini file that names a stream twice is not refused for that.  When the
\* application starts, every entry up to the first missing number has a
\* picker, no stream has two, and the line of the section Models that
\* names a stream is the model of that stream's picker and of no other: not
\* of another location, nor of a line in lower case, nor of one left over
\* (filterPickerOptions.cppm:451-575 writes the models under the key that
\* filterPicker.cpp:295-316 looks them up by).  No token is sent over a
\* channel without a certificate, the publisher's or the subscriber's.
ConfiguredStreamsArePicked ==
    Asked("ini") =>
        /\ NamedOnce(StreamIdentifiers(query.ini))
        /\ Constructed(query.ini) => PicksConfiguredStreams(query.ini)
===========================================================================
