------------------------------ MODULE Options ------------------------------
(***************************************************************************)
(* How the ini file of the application becomes its pickers: parseIniFile   *)
(* of src/src/modules/filterPickerOptions.cppm, the setters it calls and   *)
(* the constructor of NetworkDetector in src/src/filterPicker.cpp.         *)
(*                                                                         *)
(* An ini file is a record of what the code reads of it:                   *)
(*   publisher, subscriber   the sections of the two gRPC clients          *)
(*   queueSize               PickPublisher.queueSize                       *)
(*   maximumImportQueueSize  the key of that name                          *)
(*   streams                 the entries of the keys Streams.stream_i      *)
(*   models                  from the keys of the section Models to lines  *)
(* An entry is its words, in any case, or <<>> for a key that is missing.  *)
(* A key of Models is its words, and whether they are in upper case; a     *)
(* line is its number of words, the thresholds and the rate.               *)
(***************************************************************************)
EXTENDS Integers, Sequences

---------------------------------------------------------------------------
(* The section of a gRPC client: a host is "absent", "blank" or "given", a  *)
(* file "none", "missing", "empty" or "good", a token "none", "empty" or    *)
(* "good".                                                                  *)

\* A certificate that is named has to exist and hold something, a token needs
\* a server certificate, and a client's key counts only with its certificate.
GRPCAccepted(section) ==
    /\ section.host # "blank"
    /\ section.port > 0
    /\ section.serverCertificate \in {"none", "good"}
    /\ section.accessToken # "none" =>
          section.serverCertificate = "good" /\ section.accessToken = "good"
    /\ section.clientKey # "none" /\ section.clientCertificate # "none" =>
          section.clientKey = "good" /\ section.clientCertificate = "good"

---------------------------------------------------------------------------
(* Streams and their models *)

\* The entries read: up to the first number that is missing.
Entries(ini) ==
    LET last == CHOOSE k \in 0 .. Len(ini.streams) :
                    /\ \A i \in 1 .. k : ini.streams[i].words # <<>>
                    /\ k < Len(ini.streams) => ini.streams[k + 1].words = <<>>
    IN  SubSeq(ini.streams, 1, last)

\* Three or four words, the fourth being the location code.
ValidEntry(entry) == Len(entry.words) \in {3, 4}

\* An identifier is its four words, which parsing puts in upper case.
Identifier(entry) ==
    IF Len(entry.words) = 3 THEN Append(entry.words, "--") ELSE entry.words
Channel(identifier) == identifier[3]

\* The entries that count: one of a stream that was read before is skipped.
FirstReads(ini) ==
    LET entries == Entries(ini)
    IN  {i \in 1 .. Len(entries) :
            \A j \in 1 .. i - 1 : Identifier(entries[j]) # Identifier(entries[i])}

\* The vector streams, each identifier at the number of its entry.
StreamIdentifiers(ini) ==
    [i \in FirstReads(ini) |-> Identifier(Entries(ini)[i])]

\* setStreamIdentifiers refuses a stream that comes twice, and so does the map
\* of the pickers.
NamedOnce(streams) ==
    \A i, j \in DOMAIN streams : streams[i] = streams[j] => i = j

\* Variant with a mistake, for the mutation runs: one key for all locations.
ToModelKeyWithoutLocation(identifier) ==
    [words |-> [identifier EXCEPT ![4] = "--"], upper |-> TRUE]

\* The key of a stream's line; the keys of an ini file keep their case.
ToModelKey(identifier) == [words |-> identifier, upper |-> TRUE]

\* A line that does not have three words is passed over.
HasModel(ini, identifier) ==
    /\ ToModelKey(identifier) \in DOMAIN ini.models
    /\ ini.models[ToModelKey(identifier)].words = 3

Model(on, off, rate) == [on |-> on, off |-> off, rate |-> rate]
DefaultModel == Model(6, 5, 100)

\* The model of a stream's picker.
ModelOf(ini, identifier) ==
    LET line == ini.models[ToModelKey(identifier)]
    IN  IF HasModel(ini, identifier)
          THEN Model(line.on, line.off, line.rate) ELSE DefaultModel

---------------------------------------------------------------------------
(* Reading the file and starting *)

\* parseIniFile returns.
Parsed(ini) ==
    LET streams == StreamIdentifiers(ini)
    IN  /\ GRPCAccepted(ini.publisher) /\ ini.queueSize > 0
        /\ GRPCAccepted(ini.subscriber) /\ ini.maximumImportQueueSize > 0
        /\ \A i \in 1 .. Len(Entries(ini)) : ValidEntry(Entries(ini)[i])
        /\ DOMAIN streams # {} /\ NamedOnce(streams)
        /\ \A i \in DOMAIN streams : ModelOf(ini, streams[i]).rate > 0

\* The constructor of NetworkDetector returns: only broadband vertical
\* streams have a detector, the trigger refuses a threshold that is not
\* positive, and the picker a stream with an empty name.
Constructed(ini) ==
    LET streams == StreamIdentifiers(ini)
    IN  /\ Parsed(ini) /\ NamedOnce(streams)
        /\ \A i \in DOMAIN streams :
              LET model == ModelOf(ini, streams[i])
              IN  /\ Channel(streams[i]) = "HHZ"
                  /\ model.on > 0 /\ model.off > 0
                  /\ \A j \in 1 .. 3 : streams[i][j] # ""

\* mPickers: from the streams to the models of their pickers.
Pickers(ini) ==
    LET streams == StreamIdentifiers(ini)
    IN  [identifier \in {streams[i] : i \in DOMAIN streams} |-> ModelOf(ini, identifier)]

---------------------------------------------------------------------------
(* What the pickers of an ini file should be, defined on its own.          *)

\* The entries up to the first missing number.
Present(ini) ==
    {i \in 1 .. Len(ini.streams) : \A j \in 1 .. i : ini.streams[j].words # <<>>}

\* The stream an entry names.
NamedBy(entry) == SubSeq(entry.words \o <<"--">>, 1, 4)

\* The lines of the section Models that are meant for a stream.
LinesFor(ini, stream) ==
    {key \in DOMAIN ini.models :
        key.upper /\ key.words = stream /\ ini.models[key].words = 3}

\* Every entry that is present has a picker, with the values of the stream's
\* line or of none; a token goes over neither client's channel without a
\* certificate.
PicksConfiguredStreams(ini) ==
    LET pickers == Pickers(ini)
    IN  /\ DOMAIN pickers = {NamedBy(ini.streams[i]) : i \in Present(ini)}
        /\ \A stream \in DOMAIN pickers :
              /\ pickers[stream].on > 0 /\ pickers[stream].rate > 0
              /\ LinesFor(ini, stream) = {} => pickers[stream] = Model(6, 5, 100)
              /\ \A key \in LinesFor(ini, stream) :
                    LET line == ini.models[key]
                    IN  pickers[stream] = Model(line.on, line.off, line.rate)
        /\ \A section \in {ini.publisher, ini.subscriber} :
              section.accessToken # "none" => section.serverCertificate = "good"
=============================================================================
