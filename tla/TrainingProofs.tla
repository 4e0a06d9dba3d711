-------------------------- MODULE TrainingProofs --------------------------
(***************************************************************************)
(* What the training program leaves behind (MCTraining), for every archive *)
(* and ini file, every bank of pipelines and every number of users.        *)
(***************************************************************************)
EXTENDS MCTraining, MCAlgorithms, DetectorProofs

---------------------------------------------------------------------------
(* The file and the object that has it open.  While create() runs the file *)
(* holds what it made so far; otherwise a file that exists is complete, or *)
(* its creation was broken off.                                            *)

FileTypes ==
    /\ exists \in BOOLEAN
    /\ mIsOpen \in BOOLEAN
    /\ mTablesInitialized \in BOOLEAN
    /\ brokenOff \in BOOLEAN

MadeSoFar == {Schema[i] : i \in 1 .. creating}

CreationInv ==
    /\ creating \in 0 .. Len(Schema)
    /\ mIsOpen => exists
    /\ InCreate => tables = MadeSoFar /\ ~ mTablesInitialized /\ ~ brokenOff
    /\ ~ InCreate /\ exists => tables = AllTables \/ brokenOff

FileInv == FileTypes /\ CreationInv

LEMMA SchemaLength == Len(Schema) = 5
BY DEF Schema

\* The constructor works on a file nobody has open.
LEMMA OpenKeepsFile ==
  ASSUME FileInv, ~ mIsOpen, NEW mode \in Modes, Open(mode)
  PROVE  /\ FileInv'
         /\ mIsOpen'
         /\ InCreate' <=> CreatesDatabase(mode)
         /\ CreatesDatabase(mode) => ~ brokenOff'
<1>1. FileTypes'
  <2>1. CASE CreatesDatabase(mode)
    BY <2>1 DEF Open, FileInv, FileTypes
  <2>2. CASE ~ CreatesDatabase(mode)
    BY <2>2 DEF Open, FileInv, FileTypes
  <2>. QED
    BY <2>1, <2>2
<1>2. CASE CreatesDatabase(mode)
  <2>1. /\ creating' = 0
        /\ tables' = {}
        /\ ~ brokenOff'
        /\ exists'
        /\ mIsOpen'
        /\ ~ mTablesInitialized'
    BY <1>2 DEF Open, EmptyFile
  <2>2. MadeSoFar' = {}
    BY <2>1 DEF MadeSoFar
  <2>3. InCreate'
    BY <2>1, SchemaLength DEF InCreate
  <2>4. creating' \in 0 .. Len(Schema)
    BY <2>1, SchemaLength
  <2>. QED
    BY <1>1, <1>2, <2>1, <2>2, <2>3, <2>4 DEF CreationInv, FileInv
<1>3. CASE ~ CreatesDatabase(mode)
  <2>1. /\ creating' = Len(Schema)
        /\ tables' = tables
        /\ brokenOff' = brokenOff
        /\ exists'
        /\ mIsOpen'
    BY <1>3 DEF Open, KeepRows
  <2>2. exists
    BY <1>3 DEF Open, CreatesDatabase, Modes
  <2>3. ~ InCreate /\ ~ InCreate' /\ creating' \in 0 .. Len(Schema)
    BY <2>1, SchemaLength DEF InCreate
  <2>. QED
    BY <1>1, <1>3, <2>1, <2>2, <2>3 DEF CreationInv, FileInv
<1>. QED
  BY <1>2, <1>3

LEMMA OpenFailsKeepsFile ==
  ASSUME FileInv, ~ mIsOpen, NEW mode \in Modes, OpenFails(mode)
  PROVE  FileInv' /\ ~ mIsOpen'
<1>1. UNCHANGED <<mIsOpen, mTablesInitialized, creating>>
  BY DEF OpenFails, handleVars
<1>2. CASE UNCHANGED <<fileVars, brokenOff>>
  BY <1>1, <1>2 DEF fileVars, FileInv, FileTypes, CreationInv, InCreate, MadeSoFar
<1>3. CASE exists' = FALSE /\ brokenOff' = FALSE
  BY <1>1, <1>3 DEF FileInv, FileTypes, CreationInv, InCreate
<1>. QED
  BY <1>2, <1>3 DEF OpenFails

LEMMA CreateKeepsFile ==
  ASSUME FileInv, Create
  PROVE  /\ FileInv'
         /\ mIsOpen'
         /\ ~ brokenOff'
         /\ InCreate' <=> creating' # Len(Schema)
         /\ creating' = Len(Schema) => tables' = AllTables
<1>1. /\ mIsOpen
      /\ creating \in 0 .. 4
      /\ creating' = creating + 1
      /\ tables = MadeSoFar
      /\ tables' = tables \cup {Schema[creating']}
      /\ mTablesInitialized' = (creating' = Len(Schema))
      /\ UNCHANGED <<exists, mIsOpen, brokenOff>>
      /\ exists
      /\ ~ brokenOff
  BY SchemaLength DEF Create, InCreate, FileInv, CreationInv
<1>2. FileTypes'
  <2>1. mTablesInitialized' \in BOOLEAN
    BY <1>1, Zenon
  <2>. QED
    BY <1>1, <2>1, Zenon DEF FileInv, FileTypes
<1>3. tables' = MadeSoFar'
  <2>1. 1 .. creating' = (1 .. creating) \cup {creating'}
    BY <1>1
  <2>. QED
    BY <1>1, <2>1 DEF MadeSoFar
<1>4. creating' \in 1 .. 5 /\ (InCreate' <=> creating' # Len(Schema))
  BY <1>1, SchemaLength DEF InCreate
<1>5. creating' = Len(Schema) => tables' = AllTables
  BY <1>3 DEF MadeSoFar, AllTables
<1>6. CreationInv'
  <2>1. creating' \in 0 .. Len(Schema) /\ (mIsOpen' => exists')
    BY <1>1, <1>4, SchemaLength
  <2>2. InCreate' => ~ mTablesInitialized'
    BY <1>1, <1>4
  <2>. QED
    BY <1>1, <1>3, <1>4, <1>5, <2>1, <2>2, Zenon DEF CreationInv
<1>. QED
  BY <1>1, <1>2, <1>4, <1>5, <1>6 DEF FileInv

LEMMA GoneKeepsFile ==
  ASSUME FileInv, Gone
  PROVE  FileInv' /\ ~ mIsOpen'
<1>1. /\ ~ mIsOpen'
      /\ ~ mTablesInitialized'
      /\ creating' = Len(Schema)
      /\ brokenOff' = (brokenOff \/ InCreate)
      /\ UNCHANGED <<exists, tables>>
  BY DEF Gone, fileVars
<1>2. FileTypes'
  BY <1>1, Zenon DEF Gone, FileInv, FileTypes, fileVars
<1>3. ~ InCreate' /\ creating' \in 0 .. Len(Schema)
  BY <1>1, SchemaLength DEF InCreate
<1>4. exists' => tables' = AllTables \/ brokenOff'
  BY <1>1, Zenon DEF FileInv, CreationInv
<1>. QED
  BY <1>1, <1>2, <1>3, <1>4, Zenon DEF FileInv, CreationInv

\* The rows of the tables are of no concern to the schema.
fileFrame == <<exists, tables, mIsOpen, mTablesInitialized, creating, brokenOff>>

LEMMA FileFrame ==
  ASSUME UNCHANGED fileFrame
  PROVE  /\ FileInv' = FileInv
         /\ InCreate' = InCreate
BY DEF fileFrame, FileInv, FileTypes, CreationInv, InCreate, MadeSoFar

---------------------------------------------------------------------------
(* Where the program is and what state its database is in.                 *)

Iterating == {"event", "waveform", "packet", "row", "rowAgain"}
AtWork == {"connect", "stream", "hung"} \cup Iterating

ControlInv ==
    /\ pc \in {"options", "open", "create", "gone", "other", "otherCreate"} \cup AtWork
    /\ pc \in {"options", "open", "gone"} => ~ mIsOpen
    /\ pc \in {"create", "otherCreate"} => InCreate
    /\ pc = "other" => mIsOpen /\ ~ InCreate
    /\ pc \in AtWork => /\ mIsOpen /\ ~ InCreate
                        /\ tables = AllTables /\ ~ brokenOff

DatabaseInv == FileInv /\ ControlInv

\* A step of the program between its opening the database and its end.
WorkStep == pc \in AtWork /\ pc' \in AtWork /\ UNCHANGED fileFrame

EndStep == Gone /\ pc' = "gone"

LEMMA ProgramSteps ==
  ASSUME ProgramNext \/ Kill
  PROVE  \/ ReadOptions \/ OpenDatabase \/ CreateTables
         \/ WorkStep \/ EndStep
<1>. USE DEF AtWork, Iterating
<1>1. CASE ReadOptions \/ OpenDatabase \/ CreateTables
  BY <1>1
<1>2. CASE Connect
  BY <1>2 DEF Connect, WorkStep, EndStep, Return, fileFrame, databaseVars,
              fileVars, handleVars
<1>3. CASE GetPicks
  BY <1>3 DEF GetPicks, WorkStep, fileFrame, databaseVars, fileVars, handleVars
<1>4. CASE Finish \/ WriteRowFails \/ Kill
  BY <1>4 DEF Finish, WriteRowFails, Kill, EndStep, Return
<1>5. CASE WriteEvent
  BY <1>5 DEF WriteEvent, AddEvent, WorkStep, EndStep, Return, fileFrame, handleVars
<1>6. CASE NoMoreEvents
  BY <1>6 DEF NoMoreEvents, NextStream, WorkStep, fileFrame, databaseVars,
              fileVars, handleVars
<1>7. CASE GetWaveform
  <2>1. pc = "waveform" /\ pc' \in {"event", "packet"} /\ UNCHANGED databaseVars
    BY <1>7 DEF GetWaveform
  <2>. QED
    BY <2>1 DEF WorkStep, fileFrame, databaseVars, fileVars, handleVars
<1>8. CASE GetWaveformFails \/ GetWaveformHangs
  BY <1>8 DEF GetWaveformFails, GetWaveformHangs, NextStream, WorkStep, fileFrame,
              databaseVars, fileVars, handleVars
<1>9. CASE SkipEmptyPacket \/ DetectGap \/ ApplyPacket
  BY <1>9 DEF SkipEmptyPacket, DetectGap, ApplyPacket, WorkStep, fileFrame,
              databaseVars, fileVars, handleVars
<1>10. CASE EndTrace
  BY <1>10 DEF EndTrace, NextStream, WorkStep, fileFrame, databaseVars,
               fileVars, handleVars
<1>11. CASE IdentifyStream \/ WriteRow
  BY <1>11 DEF IdentifyStream, WriteRow, GetStreamIdentifier, NextStream, WorkStep,
               fileFrame, handleVars
<1>. QED
  BY <1>1, <1>2, <1>3, <1>4, <1>5, <1>6, <1>7, <1>8, <1>9, <1>10, <1>11
     DEF ProgramNext

LEMMA DatabaseStarts == MCInit => DatabaseInv
<1>. SUFFICES ASSUME MCInit PROVE DatabaseInv
  OBVIOUS
<1>1. /\ pc = "options"
      /\ exists = FALSE /\ mIsOpen = FALSE
      /\ mTablesInitialized = FALSE /\ brokenOff = FALSE
      /\ creating = Len(Schema)
  BY DEF MCInit, Init, DatabaseInit
<1>2. FileTypes
  BY <1>1, Zenon DEF FileTypes
<1>3. CreationInv
  BY <1>1, SchemaLength DEF CreationInv, InCreate
<1>4. ControlInv
  BY <1>1 DEF ControlInv, AtWork, Iterating
<1>. QED
  BY <1>2, <1>3, <1>4 DEF DatabaseInv, FileInv

LEMMA DatabaseNext == DatabaseInv /\ [MCNext]_allVars => DatabaseInv'
<1>. SUFFICES ASSUME DatabaseInv, [MCNext]_allVars
              PROVE  DatabaseInv'
  OBVIOUS
<1>. USE DEF DatabaseInv
<1>1. CASE ReadOptions
  <2>1. pc = "options" /\ pc' \in {"open", "gone"} /\ UNCHANGED fileFrame
    BY <1>1 DEF ReadOptions, Return, fileFrame, databaseVars, fileVars, handleVars
  <2>2. FileInv' /\ mIsOpen' = mIsOpen
    BY <2>1, FileFrame DEF fileFrame
  <2>. QED
    BY <2>1, <2>2 DEF ControlInv, AtWork, Iterating
<1>2. CASE OpenDatabase
  <2>1. pc = "open" /\ ~ mIsOpen /\ "Create" \in Modes
    BY <1>2 DEF OpenDatabase, ControlInv, Modes
  <2>2. CASE Open("Create") /\ pc' = "create"
    BY <2>1, <2>2, OpenKeepsFile DEF ControlInv, AtWork, Iterating, CreatesDatabase
  <2>3. CASE OpenFails("Create") /\ pc' = "gone"
    BY <2>1, <2>3, OpenFailsKeepsFile DEF ControlInv, AtWork, Iterating
  <2>. QED
    BY <1>2, <2>2, <2>3 DEF OpenDatabase, Return
<1>3. CASE EndStep
  BY <1>3, GoneKeepsFile DEF EndStep, ControlInv, AtWork, Iterating
<1>4. CASE CreateTables
  <2>1. CASE Create
    <3>1. pc' = IF creating' = Len(Schema) THEN "connect" ELSE "create"
      BY <1>4, <2>1 DEF CreateTables, Create, Gone
    <3>. QED
      BY <2>1, <3>1, CreateKeepsFile DEF ControlInv, AtWork, Iterating
  <2>2. CASE EndStep
    BY <1>3, <2>2
  <2>. QED
    BY <1>4, <2>1, <2>2 DEF CreateTables, Return, EndStep
<1>5. CASE WorkStep
  <2>1. FileInv' /\ InCreate' = InCreate /\ UNCHANGED fileFrame
    BY <1>5, FileFrame DEF WorkStep
  <2>. QED
    BY <1>5, <2>1 DEF WorkStep, ControlInv, AtWork, Iterating, fileFrame
<1>6. CASE NextUser
  <2>1. pc = "gone" /\ ~ mIsOpen
    BY <1>6 DEF NextUser, ControlInv
  <2>2. CASE pc' = "options" /\ UNCHANGED databaseVars
    <3>1. UNCHANGED fileFrame
      BY <2>2 DEF fileFrame, databaseVars, fileVars, handleVars
    <3>2. FileInv' /\ mIsOpen' = mIsOpen
      BY <3>1, FileFrame DEF fileFrame
    <3>. QED
      BY <2>1, <2>2, <3>2 DEF ControlInv, AtWork, Iterating
  <2>3. ASSUME NEW mode \in Modes, Open(mode),
               pc' = IF InCreate' THEN "otherCreate" ELSE "other"
        PROVE  DatabaseInv'
    BY <2>1, <2>3, OpenKeepsFile DEF ControlInv, AtWork, Iterating
  <2>4. ASSUME NEW mode \in Modes, OpenFails(mode), pc' = "gone"
        PROVE  DatabaseInv'
    BY <2>1, <2>4, OpenFailsKeepsFile DEF ControlInv, AtWork, Iterating
  <2>. QED
    BY <1>6, <2>2, <2>3, <2>4 DEF NextUser
<1>7. CASE ClientCreates
  <2>1. CASE Create
    <3>1. pc' = IF creating' = Len(Schema) THEN "other" ELSE "otherCreate"
      BY <1>7, <2>1 DEF ClientCreates, Create, Gone
    <3>. QED
      BY <2>1, <3>1, CreateKeepsFile DEF ControlInv, AtWork, Iterating
  <2>2. CASE EndStep
    BY <1>3, <2>2
  <2>. QED
    BY <1>7, <2>1, <2>2 DEF ClientCreates, EndStep
<1>8. CASE ClientWrites
  <2>1. UNCHANGED fileFrame /\ pc' = pc
    BY <1>8 DEF ClientWrites, AddEvent, GetStreamIdentifier, fileFrame, handleVars,
                gatherVars
  <2>2. FileInv' /\ InCreate' = InCreate
    BY <2>1, FileFrame
  <2>. QED
    BY <2>1, <2>2 DEF ControlInv, fileFrame
<1>9. CASE ClientCloses
  BY <1>3, <1>9 DEF ClientCloses, EndStep
<1>10. CASE UNCHANGED allVars
  <2>1. UNCHANGED fileFrame /\ pc' = pc
    BY <1>10 DEF allVars, vars, gatherVars, fileFrame, databaseVars, fileVars, handleVars
  <2>2. FileInv' /\ InCreate' = InCreate
    BY <2>1, FileFrame
  <2>. QED
    BY <2>1, <2>2 DEF ControlInv, fileFrame
<1>. QED
  BY <1>1, <1>2, <1>3, <1>4, <1>5, <1>6, <1>7, <1>8, <1>9, <1>10, ProgramSteps
     DEF MCNext

LEMMA DatabaseAlways == MCSpec => []DatabaseInv
BY DatabaseStarts, DatabaseNext, PTL DEF MCSpec

\* Whoever has opened the database works on the complete schema, unless the
\* creation of this very file was broken off; the program always does
\* (featuresDatabase.cpp: the constructor, create()).
THEOREM SchemaIsComplete == MCSpec => []CompleteUnlessBrokenOff
<1>1. DatabaseInv => CompleteUnlessBrokenOff
  BY DEF DatabaseInv, FileInv, CreationInv, ControlInv, AtWork, Iterating,
         CompleteUnlessBrokenOff
<1>. QED
  BY <1>1, DatabaseAlways, PTL

---------------------------------------------------------------------------
(* The table of streams.                                                   *)

\* The names and location codes that ini files and clients use.
Names == {"A"} \cup UNION {{ini[i].name : i \in 1 .. Len(ini)} : ini \in Inis}
Locations ==
    {"01", Dashes, NoLocation}
        \cup UNION {{ini[i].location : i \in 1 .. Len(ini)} : ini \in Inis}

Streams == [name : Names, location : Locations]

StreamsInv ==
    /\ streams \in Seq(Streams)
    /\ streamList \in Seq(Streams)
    /\ pc \in Iterating => streamList # <<>>
    /\ OneRowPerNamedStream

LEMMA StreamsOfIni ==
  ASSUME NEW ini \in Inis
  PROVE  [i \in 1 .. Len(ini) |-> StreamOf(ini[i])] \in Seq(Streams)
<1>1. ini \in Seq([name : STRING, tokens : Nat, location : STRING])
  BY GatherAssumption
<1>2. Len(ini) \in Nat
  BY <1>1
<1>3. [i \in 1 .. Len(ini) |-> StreamOf(ini[i])] \in [1 .. Len(ini) -> Streams]
  <2>1. ASSUME NEW i \in 1 .. Len(ini)
        PROVE  StreamOf(ini[i]) \in Streams
    <3>1. ini[i].name \in Names
      BY DEF Names
    <3>2. ini[i].location \in Locations /\ Dashes \in Locations
      BY DEF Locations
    <3>3. (IF ini[i].tokens > 4 THEN ini[i].location ELSE Dashes) \in Locations
      BY <3>2
    <3>. QED
      BY <3>1, <3>3 DEF StreamOf, Streams
  <2>. QED
    BY <2>1
<1>. QED
  BY <1>2, <1>3, FunctionIsSequence

LEMMA TailOfStreams ==
  ASSUME streamList \in Seq(Streams), streamList # <<>>
  PROVE  Tail(streamList) \in Seq(Streams) /\ Head(streamList) \in Streams
OBVIOUS

\* A stream that has a location code is looked up under that code, so it is
\* not inserted again; one that has none may be.
LEMMA IdentifierKeepsRows ==
  ASSUME streams \in Seq(Streams), OneRowPerNamedStream,
         NEW s \in Streams, GetStreamIdentifier(s)
  PROVE  streams' \in Seq(Streams) /\ OneRowPerNamedStream'
<1>1. CASE UNCHANGED streams
  BY <1>1 DEF OneRowPerNamedStream
<1>2. CASE ~ StreamExists(s) /\ streams' = Append(streams, s)
  <2>. DEFINE n == Len(streams)
  <2>1. streams' = Append(streams, s)
    BY <1>2
  <2>2. /\ n \in Nat
        /\ streams' \in Seq(Streams)
        /\ Len(streams') = n + 1
        /\ streams'[n + 1] = s
        /\ \A i \in 1 .. n : streams'[i] = streams[i]
    BY <2>1
  <2>3. \A i \in 1 .. n : streams[i] = s => s.location = NoLocation
    <3>1. s.location # NoLocation => StreamKey(s) = s
      BY DEF StreamKey, LookupCode, Streams
    <3>. QED
      BY <1>2, <3>1 DEF StreamExists
  <2>4. ASSUME NEW i \in 1 .. n + 1, NEW j \in 1 .. n + 1,
               streams'[i] = streams'[j], i # j
        PROVE  streams'[i].location = NoLocation
    <3>1. (i \in 1 .. n \/ i = n + 1) /\ (j \in 1 .. n \/ j = n + 1)
      BY <2>2
    <3>. QED
      BY <2>2, <2>3, <2>4, <3>1 DEF OneRowPerNamedStream
  <2>. QED
    BY <2>2, <2>4 DEF OneRowPerNamedStream
<1>. QED
  BY <1>1, <1>2 DEF GetStreamIdentifier

\* What a step does to the rows of the table ...
RowsStep ==
    \/ streams' = streams
    \/ streams' = <<>>
    \/ pc \in Iterating /\ GetStreamIdentifier(Head(streamList))
    \/ \E s \in ClientStreams : GetStreamIdentifier(s)

\* ... and to the streams that are left.
ListStep ==
    \/ streamList' = streamList /\ (pc' \in Iterating => pc \in Iterating)
    \/ /\ pc' \notin Iterating
       /\ \/ streamList' = <<>>
          \/ \E ini \in Inis :
                streamList' = [i \in 1 .. Len(ini) |-> StreamOf(ini[i])]
    \/ /\ pc \in Iterating \/ streamList # <<>>
       /\ \/ streamList' = Tail(streamList) /\ pc' \notin Iterating
          \/ streamList' = streamList

LEMMA OpeningIsRowsStep ==
  ASSUME NEW mode, Open(mode) \/ OpenFails(mode)
  PROVE  streams' = streams \/ streams' = <<>>
BY DEF Open, OpenFails, EmptyFile, KeepRows, fileVars

LEMMA StreamSteps ==
  ASSUME MCNext
  PROVE  RowsStep /\ ListStep
<1>. USE DEF Iterating
<1>1. CASE ReadOptions
  BY <1>1 DEF ReadOptions, Return, RowsStep, ListStep, databaseVars, fileVars
<1>2. CASE OpenDatabase
  <2>1. streamList' = streamList /\ pc' \in {"create", "gone"}
    BY <1>2 DEF OpenDatabase, Return
  <2>2. streams' = streams \/ streams' = <<>>
    BY <1>2, OpeningIsRowsStep DEF OpenDatabase
  <2>. QED
    BY <2>1, <2>2 DEF RowsStep, ListStep
<1>3. CASE CreateTables \/ Connect \/ Finish \/ WriteRowFails \/ Kill
  BY <1>3 DEF CreateTables, Create, Connect, Finish, WriteRowFails, Kill, Gone, Return,
              RowsStep, ListStep, databaseVars, fileVars
<1>4. CASE GetPicks
  BY <1>4 DEF GetPicks, RowsStep, ListStep, databaseVars, fileVars
<1>5. CASE WriteEvent
  BY <1>5 DEF WriteEvent, AddEvent, Gone, Return, RowsStep, ListStep, fileVars
<1>6. CASE NoMoreEvents \/ GetWaveformFails
  BY <1>6 DEF NoMoreEvents, GetWaveformFails, NextStream, RowsStep, ListStep,
              databaseVars, fileVars
<1>7. CASE GetWaveform \/ GetWaveformHangs
  <2>1. pc = "waveform" /\ UNCHANGED <<streamList, databaseVars>>
    BY <1>7 DEF GetWaveform, GetWaveformHangs
  <2>. QED
    BY <2>1 DEF RowsStep, ListStep, databaseVars, fileVars
<1>8. CASE SkipEmptyPacket \/ DetectGap \/ ApplyPacket
  BY <1>8 DEF SkipEmptyPacket, DetectGap, ApplyPacket, RowsStep, ListStep,
              databaseVars, fileVars
<1>9. CASE EndTrace
  BY <1>9 DEF EndTrace, NextStream, RowsStep, ListStep, databaseVars, fileVars
<1>10. CASE IdentifyStream \/ WriteRow
  BY <1>10 DEF IdentifyStream, WriteRow, NextStream, RowsStep, ListStep
<1>11. CASE NextUser
  <2>1. streamList' = <<>> /\ pc' \in {"options", "otherCreate", "other", "gone"}
    BY <1>11 DEF NextUser
  <2>2. streams' = streams \/ streams' = <<>>
    BY <1>11, OpeningIsRowsStep DEF NextUser, databaseVars, fileVars
  <2>. QED
    BY <2>1, <2>2 DEF RowsStep, ListStep
<1>12. CASE ClientCreates \/ ClientCloses
  BY <1>12 DEF ClientCreates, ClientCloses, Create, Gone, RowsStep, ListStep, fileVars
<1>13. CASE ClientWrites
  BY <1>13 DEF ClientWrites, AddEvent, RowsStep, ListStep, gatherVars
<1>. QED
  BY <1>1, <1>2, <1>3, <1>4, <1>5, <1>6, <1>7, <1>8, <1>9, <1>10, <1>11, <1>12, <1>13
     DEF MCNext, ProgramNext

LEMMA StreamsNext == StreamsInv /\ [MCNext]_allVars => StreamsInv'
<1>. SUFFICES ASSUME StreamsInv, [MCNext]_allVars
              PROVE  StreamsInv'
  OBVIOUS
<1>1. CASE MCNext
  <2>1. streams' \in Seq(Streams) /\ OneRowPerNamedStream'
    <3>1. CASE streams' = streams
      BY <3>1 DEF StreamsInv, OneRowPerNamedStream
    <3>4. CASE streams' = <<>>
      <4>1. streams' \in Seq(Streams) /\ Len(streams') = 0
        BY <3>4
      <4>. QED
        BY <4>1 DEF OneRowPerNamedStream
    <3>2. CASE pc \in Iterating /\ GetStreamIdentifier(Head(streamList))
      BY <3>2, TailOfStreams, IdentifierKeepsRows DEF StreamsInv
    <3>3. ASSUME NEW s \in ClientStreams, GetStreamIdentifier(s)
          PROVE  streams' \in Seq(Streams) /\ OneRowPerNamedStream'
      <4>1. PICK l \in {"01", Dashes, NoLocation} : s = [name |-> "A", location |-> l]
        BY DEF ClientStreams
      <4>2. "A" \in Names /\ l \in Locations
        BY DEF Names, Locations
      <4>3. s \in Streams
        BY <4>1, <4>2 DEF Streams
      <4>. QED
        BY <3>3, <4>3, IdentifierKeepsRows DEF StreamsInv
    <3>. QED
      BY <1>1, <3>1, <3>2, <3>3, <3>4, StreamSteps DEF RowsStep
  <2>2. streamList' \in Seq(Streams) /\ (pc' \in Iterating => streamList' # <<>>)
    <3>1. streamList \in Seq(Streams) /\ (pc \in Iterating => streamList # <<>>)
      BY DEF StreamsInv
    <3>2. ListStep
      BY <1>1, StreamSteps
    <3>3. CASE streamList' = streamList /\ (pc' \in Iterating => pc \in Iterating)
      BY <3>1, <3>3
    <3>4. CASE /\ pc' \notin Iterating
               /\ \/ streamList' = <<>>
                  \/ \E ini \in Inis :
                        streamList' = [i \in 1 .. Len(ini) |-> StreamOf(ini[i])]
      <4>1. CASE streamList' = <<>>
        BY <3>4, <4>1
      <4>2. ASSUME NEW ini \in Inis,
                   streamList' = [i \in 1 .. Len(ini) |-> StreamOf(ini[i])]
            PROVE  streamList' \in Seq(Streams)
        BY <4>2, StreamsOfIni
      <4>. QED
        BY <3>4, <4>1, <4>2
    <3>5. CASE /\ pc \in Iterating \/ streamList # <<>>
               /\ \/ streamList' = Tail(streamList) /\ pc' \notin Iterating
                  \/ streamList' = streamList
      BY <3>1, <3>5, TailOfStreams
    <3>. QED
      BY <3>2, <3>3, <3>4, <3>5 DEF ListStep
  <2>. QED
    BY <2>1, <2>2 DEF StreamsInv
<1>2. CASE UNCHANGED allVars
  BY <1>2 DEF allVars, vars, gatherVars, databaseVars, fileVars, StreamsInv,
              OneRowPerNamedStream
<1>. QED
  BY <1>1, <1>2

LEMMA StreamsStart == MCInit => StreamsInv
BY DEF MCInit, Init, DatabaseInit, StreamsInv, OneRowPerNamedStream, Iterating

LEMMA StreamsAlways == MCSpec => []StreamsInv
BY StreamsStart, StreamsNext, PTL DEF MCSpec

\* However often a file is opened and whoever writes, a stream that has a
\* location code has one row of the table of streams
\* (featuresDatabase.cpp: getStreamIdentifier).
THEOREM StreamsAreNotRepeated == MCSpec => []OneRowPerNamedStream
<1>1. StreamsInv => OneRowPerNamedStream
  BY DEF StreamsInv
<1>. QED
  BY <1>1, StreamsAlways, PTL

---------------------------------------------------------------------------
(* What the archive gives (AQMS).                                          *)

LEMMA FirstAndLast ==
  ASSUME NEW n \in Nat, NEW S \in SUBSET (1 .. n), S # {}
  PROVE  /\ LastIn(S) \in S /\ FirstOf(S) \in S
         /\ \A k \in S : k <= LastIn(S)
         /\ \A k \in S : FirstOf(S) <= k
<1>1. IsFiniteSet(S)
  <2>1. IsFiniteSet(1 .. n)
    BY FS_Interval
  <2>. QED
    BY <2>1, FS_Subset
<1>2. \E k \in S : \A j \in S : j <= k
  <2>. DEFINE g == [k \in S |-> k]
  <2>1. g \in [S -> Int]
    OBVIOUS
  <2>2. \E k \in S : \A j \in S : g[j] <= g[k]
    <3>. HIDE DEF g
    <3>. QED
      BY <1>1, <2>1, LargestExists
  <2>. QED
    BY <2>2
<1>3. \E k \in S : \A j \in S : k <= j
  <2>. DEFINE g == [k \in S |-> - k]
  <2>1. g \in [S -> Int]
    OBVIOUS
  <2>2. \E k \in S : \A j \in S : g[j] <= g[k]
    <3>. HIDE DEF g
    <3>. QED
      BY <1>1, <2>1, LargestExists
  <2>3. PICK k \in S : \A j \in S : g[j] <= g[k]
    BY <2>2
  <2>4. \A j \in S : k <= j
    BY <2>3
  <2>. QED
    BY <2>4
<1>. QED
  BY <1>2, <1>3 DEF LastIn, FirstOf

TracePackets == [start : Nat, data : Seq(Int)]

\* What the purge does to the last packet that is not silent.
LEMMA PurgeCutsLast ==
  ASSUME NEW s \in Seq(TracePackets), NEW i0 \in 1 .. Len(s), ~ Silent(s[i0].data)
  PROVE  \E last \in 1 .. Len(s), cut \in Seq(Int) :
            /\ PurgeTrailingZeros(s) = [s EXCEPT ![last] = [s[last] EXCEPT !.data = cut]]
            /\ \A j \in last + 1 .. Len(s) : Silent(s[j].data)
            /\ Len(cut) \in 1 .. Len(s[last].data)
            /\ cut = SubSeq(s[last].data, 1, Len(cut))
            /\ cut[Len(cut)] # 0
            /\ Silent(SubSeq(s[last].data, 1, Len(cut) - 1))
<1>. DEFINE alive == {i \in 1 .. Len(s) : NonZero(s[i].data) # {}}
            last  == LastIn(alive)
            d     == s[last].data
            f     == FirstOf(NonZero(d))
            cut   == SubSeq(d, 1, f)
<1>1. Len(s) \in Nat /\ alive # {}
  BY DEF Silent, NonZero
<1>2. last \in alive /\ \A k \in alive : k <= last
  <2>1. alive \in SUBSET (1 .. Len(s))
    OBVIOUS
  <2>. HIDE DEF alive
  <2>. QED
    BY <1>1, <2>1, FirstAndLast
<1>3. last \in 1 .. Len(s) /\ NonZero(d) # {}
  BY <1>2
<1>4. ASSUME NEW j \in last + 1 .. Len(s)
      PROVE  Silent(s[j].data)
  <2>1. j \in 1 .. Len(s) /\ ~ (j <= last)
    BY <1>1, <1>3
  <2>2. NonZero(s[j].data) = {}
    BY <1>2, <2>1
  <2>. QED
    BY <2>2 DEF NonZero, Silent
<1>. HIDE DEF last
<1>5. d \in Seq(Int) /\ Len(d) \in Nat
  <2>1. s[last] \in TracePackets
    BY <1>3, ElementOfSeq
  <2>2. d \in Seq(Int)
    BY <2>1 DEF TracePackets
  <2>. QED
    BY <2>2
<1>. HIDE DEF d
<1>6. f \in 1 .. Len(d) /\ d[f] # 0 /\ \A j \in 1 .. f - 1 : d[j] = 0
  <2>1. NonZero(d) \in SUBSET (1 .. Len(d))
    BY DEF NonZero
  <2>2. f \in NonZero(d) /\ \A j \in NonZero(d) : f <= j
    BY <1>3, <1>5, <2>1, FirstAndLast
  <2>. HIDE DEF f
  <2>3. f \in 1 .. Len(d)
    BY <2>1, <2>2
  <2>4. \A j \in 1 .. f - 1 : j \in 1 .. Len(d) /\ ~ (f <= j)
    BY <1>5, <2>3
  <2>. QED
    BY <2>2, <2>3, <2>4 DEF NonZero
<1>. HIDE DEF f
<1>7. cut \in Seq(Int) /\ Len(cut) = f /\ cut[f] = d[f]
  BY <1>5, <1>6
<1>8. PurgeTrailingZeros(s) = [s EXCEPT ![last] = [s[last] EXCEPT !.data = cut]]
  BY <1>1, <1>3 DEF PurgeTrailingZeros, last, cut, d, f
<1>9. cut = SubSeq(d, 1, Len(cut))
  BY <1>7
<1>. HIDE DEF cut
<1>10. Len(cut) \in 1 .. Len(d) /\ cut[Len(cut)] # 0
  BY <1>6, <1>7
<1>11. Silent(SubSeq(d, 1, Len(cut) - 1))
  <2>1. f - 1 \in 0 .. Len(d) /\ Len(cut) - 1 = f - 1
    BY <1>5, <1>6, <1>7
  <2>2. /\ Len(SubSeq(d, 1, f - 1)) = f - 1
        /\ \A j \in 1 .. f - 1 : SubSeq(d, 1, f - 1)[j] = d[j]
    BY <1>5, <2>1
  <2>. QED
    BY <1>6, <2>1, <2>2 DEF Silent
<1>. QED
  BY <1>3, <1>4, <1>7, <1>8, <1>9, <1>10, <1>11 DEF d

LEMMA PurgeLeavesSilence ==
  ASSUME NEW s, \A i \in 1 .. Len(s) : Silent(s[i].data)
  PROVE  PurgeTrailingZeros(s) = s
BY DEF PurgeTrailingZeros, NonZero, Silent

\* The packets of the records in one of the orders of their times.
LEMMA SortedPackets ==
  ASSUME NEW records \in Seq([start : Nat, data : Seq(Int), parses : BOOLEAN]),
         NEW trace \in Unpack(records)
  PROVE  \E s \in Seq(TracePackets), p \in Rearrangements(Len(records)) :
            /\ trace = PurgeTrailingZeros(s)
            /\ Len(s) = Len(records)
            /\ \A i \in 1 .. Len(records) : s[i] = Packet(records[p[i]])
            /\ \A i \in 2 .. Len(records) : s[i - 1].start <= s[i].start
<1>. DEFINE n == Len(records)
            s0 == [i \in 1 .. n |-> Packet(records[i])]
<1>1. n \in Nat
  OBVIOUS
<1>2. \A i \in 1 .. n : Packet(records[i]) \in TracePackets
  <2>1. ASSUME NEW i \in 1 .. n
        PROVE  Packet(records[i]) \in TracePackets
    <3>1. records[i] \in [start : Nat, data : Seq(Int), parses : BOOLEAN]
      BY ElementOfSeq
    <3>. QED
      BY <3>1 DEF Packet, TracePackets
  <2>. QED
    BY <2>1
<1>3. s0 \in [1 .. n -> TracePackets]
  BY <1>2
<1>4. Len(s0) = n
  BY <1>1, <1>3, FunctionIsSequence
<1>5. PICK s \in Sorts(s0) : trace = PurgeTrailingZeros(s)
  BY DEF Unpack
<1>. HIDE DEF s0
<1>6. PICK p \in Rearrangements(n) : s = [i \in 1 .. n |-> s0[p[i]]]
  BY <1>4, <1>5 DEF Sorts, Orders
<1>7. p \in [1 .. n -> 1 .. n]
  BY DEF Rearrangements
<1>8. s \in [1 .. n -> TracePackets]
  BY <1>3, <1>6, <1>7
<1>9. s \in Seq(TracePackets) /\ Len(s) = n
  BY <1>1, <1>8, FunctionIsSequence
<1>10. \A i \in 1 .. n : s[i] = Packet(records[p[i]])
  BY <1>6, <1>7 DEF s0
<1>11. \A i \in 2 .. n : s[i - 1].start <= s[i].start
  BY <1>5, <1>9 DEF Sorts
<1>. QED
  BY <1>5, <1>9, <1>10, <1>11

LEMMA UnpackGivesPackets ==
  ASSUME NEW records \in Waveforms, NEW trace \in Unpack(records)
  PROVE  trace \in Seq(TracePackets)
<1>1. records \in Seq([start : Nat, data : Seq(Int), parses : BOOLEAN])
  BY GatherAssumption
<1>2. PICK s \in Seq(TracePackets) : trace = PurgeTrailingZeros(s)
  BY <1>1, SortedPackets
<1>3. CASE \A i \in 1 .. Len(s) : Silent(s[i].data)
  BY <1>2, <1>3, PurgeLeavesSilence
<1>4. CASE \E i \in 1 .. Len(s) : ~ Silent(s[i].data)
  <2>1. PICK last \in 1 .. Len(s), cut \in Seq(Int) :
            trace = [s EXCEPT ![last] = [s[last] EXCEPT !.data = cut]]
    BY <1>2, <1>4, PurgeCutsLast
  <2>2. s[last] \in TracePackets
    BY ElementOfSeq
  <2>3. [s[last] EXCEPT !.data = cut] \in TracePackets
    BY <2>2 DEF TracePackets
  <2>. QED
    BY <2>1, <2>3
<1>. QED
  BY <1>3, <1>4

\* Whatever the records and the order of their times, unpack returns a packet
\* for each, all whole but the last that is not silent, which is cut after its
\* first sample that is not zero and nowhere else (aqms.hpp: unpack).
THEOREM UnpackCutsOnePacket ==
  ASSUME NEW records \in Seq([start : Nat, data : Seq(Int), parses : BOOLEAN]),
         NEW trace \in Unpack(records)
  PROVE  CutsOnePacket(trace, records)
<1>. DEFINE n == Len(records)
<1>1. PICK s \in Seq(TracePackets), p \in Rearrangements(n) :
          /\ trace = PurgeTrailingZeros(s)
          /\ Len(s) = n
          /\ \A i \in 1 .. n : s[i] = Packet(records[p[i]])
          /\ \A i \in 2 .. n : s[i - 1].start <= s[i].start
  BY SortedPackets
<1>2. /\ n \in Nat
      /\ \A i \in 1 .. n : /\ s[i].start = records[p[i]].start
                          /\ s[i].data = records[p[i]].data
                          /\ s[i] \in TracePackets
  <2>1. n \in Nat
    OBVIOUS
  <2>2. \A i \in 1 .. n : s[i] \in TracePackets
    BY <1>1, ElementOfSeq
  <2>3. ASSUME NEW i \in 1 .. n
        PROVE  /\ s[i].start = records[p[i]].start
               /\ s[i].data = records[p[i]].data
    <3>1. s[i] = Packet(records[p[i]])
      BY <1>1
    <3>. QED
      BY <3>1 DEF Packet
  <2>. HIDE DEF n
  <2>. QED
    BY <2>1, <2>2, <2>3
<1>3. ASSUME Len(trace) = n,
             \A i \in 1 .. n :
                /\ trace[i].start = s[i].start
                /\ IF LastNotSilent(trace, i)
                     THEN /\ Len(trace[i].data) <= Len(s[i].data)
                          /\ trace[i].data = SubSeq(s[i].data, 1, Len(trace[i].data))
                          /\ trace[i].data[Len(trace[i].data)] # 0
                          /\ Silent(SubSeq(s[i].data, 1, Len(trace[i].data) - 1))
                     ELSE trace[i].data = s[i].data
      PROVE  CutsOnePacket(trace, records)
  <2>. HIDE DEF n
  <2>1. \A i \in 1 .. n : i > 1 => trace[i - 1].start <= trace[i].start
    <3>1. \A i \in 1 .. n : i > 1 => i \in 2 .. n /\ i - 1 \in 1 .. n
      BY <1>2
    <3>. QED
      BY <1>1, <1>3, <3>1
  <2>2. \A i \in 1 .. n :
          /\ trace[i].start = records[p[i]].start
          /\ IF LastNotSilent(trace, i)
               THEN /\ Len(trace[i].data) <= Len(records[p[i]].data)
                    /\ trace[i].data
                          = SubSeq(records[p[i]].data, 1, Len(trace[i].data))
                    /\ trace[i].data[Len(trace[i].data)] # 0
                    /\ Silent(SubSeq(records[p[i]].data, 1, Len(trace[i].data) - 1))
               ELSE trace[i].data = records[p[i]].data
    BY <1>2, <1>3, Zenon
  <2>. QED
    BY <1>3, <2>1, <2>2, Zenon DEF CutsOnePacket, n
<1>4. CASE \A i \in 1 .. Len(s) : Silent(s[i].data)
  <2>1. trace = s
    BY <1>1, <1>4, PurgeLeavesSilence
  <2>2. \A i \in 1 .. n : ~ LastNotSilent(trace, i)
    BY <1>1, <1>4, <2>1 DEF LastNotSilent
  <2>. HIDE DEF n
  <2>. QED
    BY <1>1, <1>3, <2>1, <2>2, Zenon
<1>5. CASE \E i \in 1 .. Len(s) : ~ Silent(s[i].data)
  <2>1. PICK last \in 1 .. n, cut \in Seq(Int) :
            /\ trace = [s EXCEPT ![last] = [s[last] EXCEPT !.data = cut]]
            /\ \A j \in last + 1 .. n : Silent(s[j].data)
            /\ Len(cut) \in 1 .. Len(s[last].data)
            /\ cut = SubSeq(s[last].data, 1, Len(cut))
            /\ cut[Len(cut)] # 0
            /\ Silent(SubSeq(s[last].data, 1, Len(cut) - 1))
    <3>1. Len(s) = n
      BY <1>1
    <3>2. PICK last \in 1 .. Len(s), cut \in Seq(Int) :
              /\ PurgeTrailingZeros(s)
                    = [s EXCEPT ![last] = [s[last] EXCEPT !.data = cut]]
              /\ \A j \in last + 1 .. Len(s) : Silent(s[j].data)
              /\ Len(cut) \in 1 .. Len(s[last].data)
              /\ cut = SubSeq(s[last].data, 1, Len(cut))
              /\ cut[Len(cut)] # 0
              /\ Silent(SubSeq(s[last].data, 1, Len(cut) - 1))
      BY <1>5, PurgeCutsLast
    <3>. HIDE DEF n
    <3>. QED
      BY <1>1, <3>1, <3>2
  <2>. HIDE DEF n
  <2>2. /\ Len(trace) = n
        /\ \A i \in 1 .. n : i # last => trace[i] = s[i]
        /\ trace[last].start = s[last].start
        /\ trace[last].data = cut
    BY <1>1, <1>2, <2>1 DEF TracePackets
  <2>3. ~ Silent(trace[last].data)
    BY <2>1, <2>2 DEF Silent
  <2>4. LastNotSilent(trace, last)
    <3>1. \A j \in last + 1 .. n : j \in 1 .. n /\ j # last
      BY <1>2
    <3>. QED
      BY <2>1, <2>2, <2>3, <3>1 DEF LastNotSilent
  <2>5. ASSUME NEW i \in 1 .. n, i # last
        PROVE  ~ LastNotSilent(trace, i)
    <3>1. i < last => last \in i + 1 .. n
      BY <1>2
    <3>2. ~ (i < last) => i \in last + 1 .. n
      BY <1>2, <2>5
    <3>. QED
      BY <2>1, <2>2, <2>3, <2>5, <3>1, <3>2 DEF LastNotSilent
  <2>. QED
    <3>1. ASSUME NEW i \in 1 .. n
          PROVE  /\ trace[i].start = s[i].start
                 /\ IF LastNotSilent(trace, i)
                      THEN /\ Len(trace[i].data) <= Len(s[i].data)
                           /\ trace[i].data = SubSeq(s[i].data, 1, Len(trace[i].data))
                           /\ trace[i].data[Len(trace[i].data)] # 0
                           /\ Silent(SubSeq(s[i].data, 1, Len(trace[i].data) - 1))
                      ELSE trace[i].data = s[i].data
      <4>1. CASE i = last
        BY <2>1, <2>2, <2>4, <4>1
      <4>2. CASE i # last
        BY <2>2, <2>5, <4>2
      <4>. QED
        BY <4>1, <4>2
    <3>. QED
      BY <1>3, <2>2, <3>1
<1>. QED
  BY <1>4, <1>5

\* The waveform that is asked about, if one is.
AskedInv ==
    query.kind = "waveform" =>
        query.records \in Seq([start : Nat, data : Seq(Int), parses : BOOLEAN])

LEMMA WaveformIsAsked ==
  ASSUME NEW asked \in WaveformQueries
  PROVE  asked.records \in Seq([start : Nat, data : Seq(Int), parses : BOOLEAN])
<1>. DEFINE R == [start : Nat, data : Seq(Int), parses : BOOLEAN]
<1>1. Data \subseteq Seq(Int)
  <2>1. ASSUME NEW data \in Data
        PROVE  data \in Seq(Int)
    <3>1. PICK k \in 1 .. 3 : data \in [1 .. k -> {0, 1}]
      BY DEF Data
    <3>2. k \in Nat /\ data \in [1 .. k -> Int]
      BY <3>1
    <3>. QED
      BY <3>2, FunctionIsSequence
  <2>. QED
    BY <2>1
<1>2. Records \subseteq R
  <2>1. {TRUE} \subseteq BOOLEAN /\ 0 .. 1 \subseteq Nat
    OBVIOUS
  <2>. QED
    BY <1>1, <2>1, Zenon DEF Records
<1>3. PICK k \in 1 .. MaxRecords : asked.records \in [1 .. k -> Records]
  BY DEF WaveformQueries
<1>. HIDE DEF R
<1>4. k \in Nat /\ asked.records \in [1 .. k -> R]
  BY <1>2, <1>3, AlgorithmsAssumption
<1>5. asked.records \in Seq(R)
  BY <1>4, FunctionIsSequence
<1>. QED
  BY <1>5 DEF R

LEMMA WaveformsOnly == AskSpec => []AskedInv
<1>1. AskInit => AskedInv
  BY DEF AskInit, AskedInv
<1>2. AskedInv /\ [AskNext]_query => AskedInv'
  <2>. SUFFICES ASSUME AskedInv, [AskNext]_query
                PROVE  AskedInv'
    OBVIOUS
  <2>1. CASE query' \in WaveformQueries
    BY <2>1, WaveformIsAsked DEF AskedInv
  <2>2. CASE query' \in PacketQueries \cup IniQueries
    BY <2>2 DEF AskedInv, PacketQueries, IniQueries
  <2>3. CASE UNCHANGED query
    BY <2>3 DEF AskedInv
  <2>. QED
    BY <2>1, <2>2, <2>3 DEF AskNext, Ask
<1>. QED
  BY <1>1, <1>2, PTL DEF AskSpec

\* However the records of a waveform come, all packets of its trace keep all
\* their samples, but for the last one that is not silent (aqms.hpp: unpack).
THEOREM TracesAreCutInOnePacket == AskSpec => []OnlyLastPacketIsCut
<1>1. AskedInv => OnlyLastPacketIsCut
  BY UnpackCutsOnePacket DEF AskedInv, OnlyLastPacketIsCut, Asked
<1>. QED
  BY <1>1, WaveformsOnly, PTL

LEMMA PicksAreEvents ==
  ASSUME NEW matching \in SUBSET Events, NEW s \in PicksForStream(matching)
  PROVE  s \in Seq(Events)
<1>. DEFINE size == IF Cardinality(matching) < QueryLimit THEN Cardinality(matching)
                    ELSE QueryLimit
<1>1. Cardinality(matching) \in Nat
  BY AQMSAssumption, FS_Subset, FS_CardinalityType DEF Events
<1>2. size \in Nat
  BY <1>1, AQMSAssumption
<1>3. s \in [1 .. size -> matching]
  BY DEF PicksForStream
<1>. HIDE DEF size
<1>4. s \in [1 .. size -> Events]
  BY <1>3
<1>. QED
  BY <1>2, <1>4, FunctionIsSequence

---------------------------------------------------------------------------
(* How the times of the samples the detector takes drift from those of     *)
(* samples that follow each other: by the misfit of one packet for every   *)
(* packet after the first.                                                 *)

LEMMA FirstPacketFollows ==
  ASSUME NEW start \in Nat, NEW k \in Nat \ {0}
  PROVE  /\ TimeOfSample(start, k) \in Nat
         /\ Follows(TimeOfSample(start, k), start, k, 1)
<1>1. (k - 1) * Period \in Nat
  BY ProductIsNat, PeriodAssumption
<1>2. /\ (1 - 1) * (MaxGapDuration + Period) = 0
      /\ (1 - 1) * (MaxGapDuration - Period) = 0
  BY GatherAssumption, PeriodAssumption, SMT
<1>. QED
  BY <1>1, <1>2 DEF TimeOfSample, Follows

LEMMA NextPacketFollows ==
  ASSUME NEW last \in Nat, NEW first \in Nat, NEW taking \in Nat \ {0},
         NEW n \in Nat \ {0}, Follows(last, first, taking, n),
         NEW start \in Nat, Abs(start - last) <= MaxGapDuration,
         NEW k \in Nat \ {0}
  PROVE  /\ TimeOfSample(start, k) \in Nat
         /\ Follows(TimeOfSample(start, k), first, taking + k, n + 1)
         /\ Follows(Larger(TimeOfSample(start, k), last), first, taking + k, n + 1)
<1>. DEFINE a  == (taking - 1) * Period
            kp == k * Period
            lo == (n - 1) * (MaxGapDuration + Period)
            hi == (n - 1) * (MaxGapDuration - Period)
            t  == start + kp - Period
<1>1. /\ Period \in Nat \ {0}
      /\ MaxGapDuration \in Nat
  BY PeriodAssumption, GatherAssumption
<1>2. a \in Nat /\ kp \in Nat /\ lo \in Nat /\ hi \in Int
  <2>1. a \in Nat /\ lo \in Nat /\ kp \in Nat
    BY <1>1, ProductIsNat
  <2>2. hi \in Int
    BY <1>1, SMT
  <2>. QED
    BY <2>1, <2>2
<1>3. kp >= Period
  <2>1. 1 * Period <= k * Period
    BY <1>1, ProductsAreOrdered
  <2>. QED
    BY <1>1, <2>1
<1>4. TimeOfSample(start, k) = t
  BY <1>1, SMT DEF TimeOfSample
<1>5. (taking + k - 1) * Period = a + kp
  BY <1>1, SMT
<1>6. /\ (n + 1 - 1) * (MaxGapDuration + Period) = lo + (MaxGapDuration + Period)
      /\ (n + 1 - 1) * (MaxGapDuration - Period) = hi + (MaxGapDuration - Period)
  BY <1>1, SMT
<1>7. /\ last - first - a >= - lo
      /\ last - first - a <= hi
  BY DEF Follows
<1>8. /\ start - last <= MaxGapDuration
      /\ last - start <= MaxGapDuration
  BY <1>1 DEF Abs
<1>. HIDE DEF a, kp, lo, hi
<1>9. t \in Nat
  BY <1>1, <1>2, <1>3
<1>10. /\ t - first - (a + kp) >= - (lo + (MaxGapDuration + Period))
       /\ t - first - (a + kp) <= hi + (MaxGapDuration - Period)
  BY <1>1, <1>2, <1>7, <1>8
<1>11. last - first - (a + kp) <= hi + (MaxGapDuration - Period)
  BY <1>1, <1>2, <1>3, <1>7
<1>12. t < last => last - first - (a + kp) >= - (lo + (MaxGapDuration + Period))
  BY <1>1, <1>2, <1>9, <1>10
<1>13. Follows(t, first, taking + k, n + 1)
  BY <1>5, <1>6, <1>10 DEF Follows
<1>14. Follows(Larger(t, last), first, taking + k, n + 1)
  <2>1. CASE t < last
    BY <1>5, <1>6, <1>11, <1>12, <2>1 DEF Follows, Larger
  <2>2. CASE ~ (t < last)
    BY <1>13, <2>2 DEF Larger
  <2>. QED
    BY <2>1, <2>2
<1>. QED
  BY <1>4, <1>9, <1>13, <1>14

---------------------------------------------------------------------------
(* The detector's output and the estimate that is made of it.              *)

LEMMA BurnInIsNat == BurnInTime \in Nat
BY GroupDelayIsNat, GatherAssumption, ProductIsNat DEF BurnInTime

\* A value that is not zero has a warm detector and the burn-in behind it.
LEMMA BurnedOutput ==
  ASSUME NEW start \in Nat, traceStartTime \in Nat,
         NEW n \in Nat \ {0}, NEW x \in [Pipelines -> [1 .. n -> InputLevels]]
  PROVE  LET cf == Burned(start, DetectorOutput(FALSE, x))
         IN  /\ Len(cf) = n
             /\ \A k \in 1 .. n :
                   /\ cf[k] \in Levels
                   /\ cf[k] # Low =>
                         /\ ~ (mMaskCounter + k <= MaskFirstNSamples)
                         /\ TimeOfSample(start, k) - traceStartTime >= BurnInTime
<1>. DEFINE out == DetectorOutput(FALSE, x)
            cf  == Burned(start, out)
<1>. SUFFICES /\ Len(cf) = n
              /\ \A k \in 1 .. n :
                    /\ cf[k] \in Levels
                    /\ cf[k] # Low =>
                          /\ ~ (mMaskCounter + k <= MaskFirstNSamples)
                          /\ TimeOfSample(start, k) - traceStartTime >= BurnInTime
  OBVIOUS
<1>1. x \in Packets(n)
  BY GatherAssumption DEF Packets
<1>2. /\ out \in Seq(Levels)
      /\ Len(out) = n
      /\ \A i \in 1 .. n : out[i] # Low => ~ (mMaskCounter + i <= MaskFirstNSamples)
  BY <1>1, OutputOfDetector DEF MaskAfter
<1>. HIDE DEF out
<1>3. cf = [k \in 1 .. n |->
              IF TimeOfSample(start, k) - traceStartTime < BurnInTime THEN Low ELSE out[k]]
  BY <1>2 DEF Burned
<1>4. Low \in Levels /\ \A k \in 1 .. n : out[k] \in Levels
  BY <1>2, ElementOfSeq DEF Levels
<1>5. cf \in [1 .. n -> Levels]
  BY <1>3, <1>4
<1>6. Len(cf) = n
  BY <1>5, FunctionIsSequence
<1>7. ASSUME NEW k \in 1 .. n, cf[k] # Low
      PROVE  /\ out[k] # Low
             /\ TimeOfSample(start, k) - traceStartTime >= BurnInTime
  <2>1. ~ (TimeOfSample(start, k) - traceStartTime < BurnInTime) /\ out[k] # Low
    BY <1>3, <1>7
  <2>2. TimeOfSample(start, k) \in Nat
    BY FirstPacketFollows
  <2>. QED
    BY <2>1, <2>2, BurnInIsNat
<1>. HIDE DEF cf
<1>. QED
  BY <1>2, <1>5, <1>6, <1>7

\* The estimate is of a sample of the packet near the pick, or stays.
LEMMA ImprovedEstimate ==
  ASSUME NEW start \in Nat, NEW n \in Nat, NEW cf, Len(cf) = n
  PROVE  \/ Improved(start, cf) = estimate
         \/ \E k \in 1 .. n :
               /\ Improved(start, cf)
                     = [time |-> TimeOfSample(start, k) - GroupDelay,
                        value |-> cf[k],
                        packets |-> taken.packets + 1,
                        samples |-> taken.samples + k]
               /\ Abs(TimeOfSample(start, k) - GroupDelay - PickTime[Head(picked)])
                     <= PickWindow
<1>. DEFINE window == InPickWindow(start, Len(cf))
            best == {k \in window : /\ cf[k] >= estimate.value
                                    /\ \A j \in window : cf[j] <= cf[k]}
<1>1. best \in SUBSET (1 .. n)
  BY DEF InPickWindow
<1>2. CASE best = {}
  BY <1>2 DEF Improved
<1>3. CASE best # {}
  <2>1. LastIn(best) \in best
    <3>. HIDE DEF best
    <3>. QED
      BY <1>1, <1>3, FirstAndLast
  <2>2. LastIn(best) \in InPickWindow(start, n)
    BY <2>1
  <2>3. /\ LastIn(best) \in 1 .. n
        /\ Abs(TimeOfSample(start, LastIn(best)) - GroupDelay - PickTime[Head(picked)])
                     <= PickWindow
    BY <2>2 DEF InPickWindow
  <2>. QED
    BY <1>3, <2>3 DEF Improved
<1>. QED
  BY <1>2, <1>3

---------------------------------------------------------------------------
(* The inductive invariant of the rows.  Beside the types:                 *)
(*  - the event whose trace is run is in the database;                     *)
(*  - there is nothing of a trace before the next one begins, and the mask *)
(*    of the detector counts the samples of this trace alone;              *)
(*  - the samples it took follow each other as far as packets can, unless  *)
(*    a gap ended the trace;                                               *)
(*  - a row of the trace as it stands would be sound, once it has an       *)
(*    estimate; no row is there while the program starts.                  *)

Tracing == {"packet", "row", "rowAgain"}
Idle == {"options", "open", "create", "connect", "stream", "event", "waveform"}

TraceTypes ==
    /\ DetectorTypeOK
    /\ picked \in Seq(Events)
    /\ packets \in Seq(TracePackets)
    /\ traceStartTime \in Nat
    /\ taken \in [packets : Nat, samples : Nat, first : Nat]

EventInv ==
    pc \in {"waveform"} \cup Tracing => picked # <<>> /\ Head(picked) \in events

IdleInv ==
    pc \in Idle => /\ lastPacketEndTime = NoTime
                   /\ ~ gapDetected
                   /\ estimate = NoEstimate
                   /\ taken = NothingTaken

MaskInv ==
    pc \in {"event", "waveform", "packet"} =>
        mMaskCounter = AtMost(MaskFirstNSamples, taken.samples)

SpanInv ==
    pc \in Tracing =>
        \/ gapDetected /\ packets = <<>>
        \/ ~ gapDetected /\ taken = NothingTaken /\ lastPacketEndTime = NoTime
        \/ /\ ~ gapDetected
           /\ taken.packets # 0 /\ taken.samples # 0
           /\ lastPacketEndTime \in Nat
           /\ Follows(lastPacketEndTime, taken.first, taken.samples, taken.packets)

EstimateInv ==
    pc \in Tracing =>
        \/ pc = "packet" /\ estimate = NoEstimate
        \/ taken.packets # 0 /\ IsSound(RowOfTrace)

RowInv ==
    /\ RowsAreSound
    /\ pc \in {"options", "open"} => row = NoRow

TraceInv ==
    /\ TraceTypes
    /\ EventInv
    /\ IdleInv
    /\ MaskInv
    /\ SpanInv
    /\ EstimateInv
    /\ RowInv

LEMMA RowStaysSound ==
  ASSUME RowsAreSound, row' = row, events \subseteq events'
  PROVE  RowsAreSound'
BY DEF RowsAreSound, IsSound

\* Steps before and after the loops, and those of the other users.
QuietStep ==
    /\ UNCHANGED <<row, picked, traceVars, detectorVars>>
    /\ events \subseteq events'
    /\ pc' \notin Tracing \cup {"event", "waveform"}
    /\ pc' \in Idle => pc \in Idle
    /\ pc' \in {"options", "open"} => pc \in {"options", "open"}

LEMMA QuietSteps ==
  ASSUME \/ ReadOptions \/ CreateTables \/ Connect \/ Finish \/ GetWaveformHangs
         \/ WriteRowFails \/ Kill \/ ClientCreates \/ ClientWrites \/ ClientCloses
  PROVE  QuietStep
<1>. USE DEF QuietStep, Tracing, Idle, databaseVars, fileVars
<1>1. CASE ReadOptions
  BY <1>1 DEF ReadOptions, Return
<1>2. CASE CreateTables \/ ClientCreates
  BY <1>2 DEF CreateTables, ClientCreates, Create, Gone, Return
<1>3. CASE Connect \/ Finish \/ WriteRowFails \/ Kill \/ ClientCloses
  BY <1>3 DEF Connect, Finish, WriteRowFails, Kill, ClientCloses, Gone, Return
<1>4. CASE GetWaveformHangs
  <2>1. pc' = "hung" /\ UNCHANGED <<row, picked, traceVars, detectorVars, databaseVars>>
    BY <1>4 DEF GetWaveformHangs
  <2>. QED
    BY <2>1
<1>5. CASE ClientWrites
  <2>1. /\ pc = "other"
        /\ UNCHANGED <<gatherVars, traceVars, detectorVars>>
        /\ events \subseteq events'
    BY <1>5 DEF ClientWrites, AddEvent, GetStreamIdentifier
  <2>. QED
    BY <2>1 DEF gatherVars
<1>. QED
  BY <1>1, <1>2, <1>3, <1>4, <1>5

LEMMA QuietKeepsTrace ==
  ASSUME TraceInv, QuietStep
  PROVE  TraceInv'
<1>. USE DEF TraceInv, QuietStep, traceVars, detectorVars, Tracing, Idle
<1>1. TraceTypes'
  BY DEF TraceTypes, DetectorTypeOK
<1>2. RowInv'
  BY RowStaysSound DEF RowInv
<1>3. IdleInv'
  BY DEF IdleInv
<1>4. EventInv' /\ MaskInv' /\ SpanInv' /\ EstimateInv'
  BY DEF EventInv, MaskInv, SpanInv, EstimateInv
<1>. QED
  BY <1>1, <1>2, <1>3, <1>4

\* Opening a database takes its rows away only while there is no row to lose.
LEMMA OpenKeepsTrace ==
  ASSUME TraceInv, OpenDatabase
  PROVE  TraceInv'
<1>. USE DEF TraceInv, traceVars, detectorVars, Tracing, Idle
<1>1. /\ pc = "open" /\ pc' \in {"create", "gone"}
      /\ UNCHANGED <<row, picked, traceVars, detectorVars>>
  BY DEF OpenDatabase, Return
<1>2. TraceTypes'
  BY <1>1 DEF TraceTypes, DetectorTypeOK
<1>3. RowInv'
  BY <1>1 DEF RowInv, RowsAreSound
<1>4. IdleInv'
  BY <1>1 DEF IdleInv
<1>5. EventInv' /\ MaskInv' /\ SpanInv' /\ EstimateInv'
  BY <1>1 DEF EventInv, MaskInv, SpanInv, EstimateInv
<1>. QED
  BY <1>2, <1>3, <1>4, <1>5

\* A new detector, or one of a program that begins, has its counters at zero.
LEMMA DetectorIsNew ==
  ASSUME DetectorTypeOK, NewDetector
  PROVE  DetectorTypeOK' /\ mMaskCounter' = 0
<1>1. DetectorTypeOK'
  BY DetectorStepTypes DEF NewDetector
<1>2. mMaskCounter' = 0
  BY MaskOutlastsWindows DEF NewDetector, DetectorStep, MaskAfter, AtMost
<1>. QED
  BY <1>1, <1>2

LEMMA NothingIsLeft ==
  ASSUME NoTrace
  PROVE  /\ packets' \in Seq(TracePackets)
         /\ traceStartTime' \in Nat
         /\ lastPacketEndTime' = NoTime
         /\ ~ gapDetected'
         /\ estimate' = NoEstimate
         /\ taken' = NothingTaken
         /\ taken' \in [packets : Nat, samples : Nat, first : Nat]
BY DEF NoTrace, NothingTaken

LEMMA NextUserKeepsTrace ==
  ASSUME TraceInv, NextUser
  PROVE  TraceInv'
<1>. USE DEF TraceInv, Tracing, Idle
<1>1. /\ pc' \notin Tracing \cup {"event", "waveform"}
      /\ row' = NoRow /\ picked' = <<>>
      /\ NoTrace /\ NewDetector
  BY DEF NextUser
<1>2. DetectorTypeOK' /\ mMaskCounter' = 0
  BY <1>1, DetectorIsNew DEF TraceTypes
<1>3. TraceTypes'
  BY <1>1, <1>2, NothingIsLeft DEF TraceTypes
<1>4. RowInv'
  BY <1>1 DEF RowInv, RowsAreSound
<1>5. IdleInv'
  BY <1>1, NothingIsLeft DEF IdleInv
<1>6. EventInv' /\ MaskInv' /\ SpanInv' /\ EstimateInv'
  BY <1>1 DEF EventInv, MaskInv, SpanInv, EstimateInv
<1>. QED
  BY <1>3, <1>4, <1>5, <1>6

\* The end of a stream, with or without a row.
LEMMA NextStreamKeepsTrace ==
  ASSUME TraceInv, NextStream, UNCHANGED detectorVars, RowsAreSound'
  PROVE  TraceInv'
<1>. USE DEF TraceInv, Tracing, Idle
<1>1. pc' = "stream" /\ picked' = <<>> /\ NoTrace
  BY DEF NextStream
<1>2. DetectorTypeOK'
  BY DEF TraceTypes, DetectorTypeOK, detectorVars
<1>3. TraceTypes'
  BY <1>1, <1>2, NothingIsLeft DEF TraceTypes
<1>4. RowInv'
  BY <1>1 DEF RowInv
<1>5. IdleInv'
  BY <1>1, NothingIsLeft DEF IdleInv
<1>6. EventInv' /\ MaskInv' /\ SpanInv' /\ EstimateInv'
  BY <1>1 DEF EventInv, MaskInv, SpanInv, EstimateInv
<1>. QED
  BY <1>3, <1>4, <1>5, <1>6

LEMMA GetPicksKeepsTrace ==
  ASSUME TraceInv, GetPicks
  PROVE  TraceInv'
<1>. USE DEF TraceInv, Tracing, Idle
<1>1. /\ pc = "stream" /\ pc' \in {"stream", "event"}
      /\ \E matching \in SUBSET Events : picked' \in PicksForStream(matching)
      /\ NewDetector
      /\ UNCHANGED <<row, traceVars, databaseVars>>
  BY DEF GetPicks
<1>2. picked' \in Seq(Events)
  BY <1>1, PicksAreEvents
<1>3. DetectorTypeOK' /\ mMaskCounter' = 0
  BY <1>1, DetectorIsNew DEF TraceTypes
<1>4. TraceTypes'
  BY <1>1, <1>2, <1>3 DEF TraceTypes, traceVars
<1>5. RowInv'
  BY <1>1, RowStaysSound DEF RowInv, databaseVars, fileVars
<1>6. IdleInv'
  BY <1>1 DEF IdleInv, traceVars
<1>7. MaskInv'
  <2>1. taken' = NothingTaken
    BY <1>1 DEF IdleInv, traceVars
  <2>2. taken'.samples = 0
    BY <2>1 DEF NothingTaken
  <2>. QED
    BY <1>3, <2>2, MaskOutlastsWindows DEF MaskInv, AtMost
<1>8. EventInv' /\ SpanInv' /\ EstimateInv'
  BY <1>1 DEF EventInv, SpanInv, EstimateInv
<1>. QED
  BY <1>4, <1>5, <1>6, <1>7, <1>8

LEMMA WriteEventKeepsTrace ==
  ASSUME TraceInv, WriteEvent
  PROVE  TraceInv'
<1>. USE DEF Tracing, Idle
<1>1. CASE Return("EXIT_FAILURE") /\ Gone
  <2>1. QuietStep
    BY <1>1 DEF WriteEvent, QuietStep, Return, Gone, fileVars
  <2>. QED
    BY <2>1, QuietKeepsTrace
<1>2. CASE AddEvent(Head(picked)) /\ pc' = "waveform"
  <2>. USE DEF TraceInv
  <2>1. /\ pc = "event" /\ picked # <<>>
        /\ UNCHANGED <<row, picked, traceVars, detectorVars>>
        /\ events \subseteq events'
        /\ Head(picked') \in events'
    BY <1>2 DEF WriteEvent, AddEvent
  <2>2. TraceTypes'
    BY <2>1 DEF TraceTypes, DetectorTypeOK, traceVars, detectorVars
  <2>3. RowInv'
    BY <1>2, <2>1, RowStaysSound DEF RowInv
  <2>4. EventInv'
    BY <2>1 DEF EventInv
  <2>5. IdleInv' /\ MaskInv'
    BY <1>2, <2>1 DEF IdleInv, MaskInv, traceVars, detectorVars
  <2>6. SpanInv' /\ EstimateInv'
    BY <1>2 DEF SpanInv, EstimateInv
  <2>. QED
    BY <2>2, <2>3, <2>4, <2>5, <2>6
<1>. QED
  BY <1>1, <1>2 DEF WriteEvent

LEMMA GetWaveformKeepsTrace ==
  ASSUME TraceInv, GetWaveform
  PROVE  TraceInv'
<1>. USE DEF TraceInv, Tracing, Idle
<1>1. /\ pc = "waveform"
      /\ UNCHANGED <<row, detectorVars, databaseVars>>
  BY DEF GetWaveform
<1>2. PICK records \in Waveforms :
          \E trace \in Unpack(records) :
             /\ trace # <<>>
             /\ IF TooEarly(trace)
                  THEN /\ picked' = Tail(picked)
                       /\ pc' = "event"
                       /\ UNCHANGED traceVars
                  ELSE /\ pc' = "packet"
                       /\ packets' = trace
                       /\ traceStartTime' = trace[1].start
                       /\ UNCHANGED <<picked, lastPacketEndTime, gapDetected,
                                      estimate, taken>>
  BY DEF GetWaveform
<1>3. PICK trace \in Unpack(records) :
             /\ trace # <<>>
             /\ \/ /\ picked' = Tail(picked)
                   /\ pc' = "event"
                   /\ UNCHANGED traceVars
                \/ /\ pc' = "packet"
                   /\ packets' = trace
                   /\ traceStartTime' = trace[1].start
                   /\ UNCHANGED <<picked, lastPacketEndTime, gapDetected,
                                  estimate, taken>>
  BY <1>2
<1>4. trace \in Seq(TracePackets) /\ trace[1].start \in Nat
  <2>1. trace \in Seq(TracePackets)
    BY UnpackGivesPackets
  <2>2. trace[1] \in TracePackets
    BY <1>3, <2>1
  <2>. QED
    BY <2>1, <2>2 DEF TracePackets
<1>5. /\ picked # <<>> /\ Head(picked) \in events
      /\ lastPacketEndTime = NoTime /\ ~ gapDetected
      /\ estimate = NoEstimate /\ taken = NothingTaken
  BY <1>1 DEF EventInv, IdleInv
<1>6. TraceTypes'
  <2>1. DetectorTypeOK'
    BY <1>1 DEF TraceTypes, DetectorTypeOK, detectorVars
  <2>2. picked' \in Seq(Events)
    <3>1. picked \in Seq(Events) /\ Tail(picked) \in Seq(Events)
      BY <1>5 DEF TraceTypes
    <3>2. picked' = picked \/ picked' = Tail(picked)
      BY <1>3
    <3>. QED
      BY <3>1, <3>2, Zenon
  <2>3. /\ packets' \in Seq(TracePackets)
        /\ traceStartTime' \in Nat
        /\ taken' \in [packets : Nat, samples : Nat, first : Nat]
    BY <1>3, <1>4 DEF TraceTypes, traceVars
  <2>. QED
    BY <2>1, <2>2, <2>3 DEF TraceTypes
<1>7. RowInv'
  <2>1. RowsAreSound'
    BY <1>1, RowStaysSound DEF RowInv, databaseVars, fileVars
  <2>. QED
    BY <1>3, <2>1 DEF RowInv
<1>8. CASE pc' = "event" /\ UNCHANGED traceVars
  BY <1>1, <1>5, <1>6, <1>7, <1>8
     DEF EventInv, IdleInv, MaskInv, SpanInv, EstimateInv, traceVars, detectorVars
<1>9. CASE /\ pc' = "packet"
           /\ UNCHANGED <<picked, lastPacketEndTime, gapDetected, estimate, taken>>
  BY <1>1, <1>5, <1>6, <1>7, <1>9
     DEF EventInv, IdleInv, MaskInv, SpanInv, EstimateInv, detectorVars, databaseVars,
         fileVars
<1>. QED
  BY <1>3, <1>8, <1>9

LEMMA FirstPacket ==
  ASSUME TraceTypes, packets # <<>>
  PROVE  /\ Head(packets) \in TracePackets
         /\ Head(packets).start \in Nat
         /\ Len(Head(packets).data) \in Nat
         /\ Head(packets).data # <<>> => Len(Head(packets).data) # 0
         /\ Tail(packets) \in Seq(TracePackets)
<1>1. Head(packets) \in TracePackets /\ Tail(packets) \in Seq(TracePackets)
  BY DEF TraceTypes
<1>2. Head(packets).start \in Nat /\ Head(packets).data \in Seq(Int)
  BY <1>1 DEF TracePackets
<1>. QED
  BY <1>1, <1>2

LEMMA LeavingPacketsKeepsTrace ==
  ASSUME TraceInv, SkipEmptyPacket \/ DetectGap
  PROVE  TraceInv'
<1>. USE DEF TraceInv, Tracing, Idle
<1>1. /\ pc = "packet" /\ pc' = "packet" /\ packets # <<>>
      /\ packets' \in {<<>>, Tail(packets)}
      /\ UNCHANGED <<row, picked, traceStartTime, estimate, taken, detectorVars,
                     databaseVars>>
  BY DEF SkipEmptyPacket, DetectGap
<1>2. \/ UNCHANGED <<lastPacketEndTime, gapDetected>>
      \/ gapDetected' /\ packets' = <<>>
  BY DEF SkipEmptyPacket, DetectGap
<1>3. TraceTypes'
  <2>1. packets' \in Seq(TracePackets)
    <3>1. Tail(packets) \in Seq(TracePackets)
      BY <1>1, FirstPacket
    <3>2. <<>> \in Seq(TracePackets)
      OBVIOUS
    <3>. QED
      BY <1>1, <3>1, <3>2, Zenon
  <2>. QED
    BY <1>1, <2>1 DEF TraceTypes, DetectorTypeOK, detectorVars
<1>4. RowInv'
  BY <1>1, RowStaysSound DEF RowInv, databaseVars, fileVars
<1>5. EventInv' /\ IdleInv' /\ MaskInv'
  BY <1>1 DEF EventInv, IdleInv, MaskInv, databaseVars, fileVars, detectorVars
<1>6. SpanInv'
  BY <1>1, <1>2 DEF SpanInv
<1>7. EstimateInv'
  BY <1>1 DEF EstimateInv, IsSound, RowOfTrace, databaseVars, fileVars
<1>. QED
  BY <1>3, <1>4, <1>5, <1>6, <1>7

LEMMA EndTraceKeepsTrace ==
  ASSUME TraceInv, EndTrace
  PROVE  TraceInv'
<1>1. /\ pc = "packet"
      /\ UNCHANGED <<row, detectorVars, databaseVars>>
  BY DEF EndTrace
<1>2. RowsAreSound'
  BY <1>1, RowStaysSound DEF TraceInv, RowInv, databaseVars, fileVars
<1>3. CASE NextStream
  BY <1>1, <1>2, <1>3, NextStreamKeepsTrace
<1>4. CASE /\ estimate.value > Lowest
           /\ pc' = "row"
           /\ UNCHANGED <<picked, traceVars>>
  <2>. USE DEF TraceInv, Tracing, Idle
  <2>1. estimate # NoEstimate
    BY <1>4 DEF NoEstimate, Lowest
  <2>2. TraceTypes'
    BY <1>1, <1>4 DEF TraceTypes, DetectorTypeOK, traceVars, detectorVars
  <2>3. EventInv' /\ IdleInv' /\ MaskInv' /\ SpanInv'
    BY <1>1, <1>4 DEF EventInv, IdleInv, MaskInv, SpanInv, databaseVars, fileVars,
                      traceVars
  <2>4. EstimateInv'
    BY <1>1, <1>4, <2>1 DEF EstimateInv, IsSound, RowOfTrace, databaseVars, fileVars,
                            traceVars
  <2>5. RowInv'
    BY <1>2, <1>4 DEF RowInv
  <2>. QED
    BY <2>2, <2>3, <2>4, <2>5
<1>. QED
  BY <1>3, <1>4 DEF EndTrace

LEMMA IdentifyKeepsTrace ==
  ASSUME TraceInv, IdentifyStream
  PROVE  TraceInv'
<1>. USE DEF TraceInv, Tracing, Idle
<1>1. /\ pc = "row" /\ pc' = "rowAgain"
      /\ UNCHANGED <<row, picked, traceVars, detectorVars, events>>
  BY DEF IdentifyStream, GetStreamIdentifier
<1>2. TraceTypes'
  BY <1>1 DEF TraceTypes, DetectorTypeOK, traceVars, detectorVars
<1>3. RowInv'
  BY <1>1, RowStaysSound DEF RowInv
<1>4. EventInv' /\ IdleInv' /\ MaskInv' /\ SpanInv'
  BY <1>1 DEF EventInv, IdleInv, MaskInv, SpanInv, traceVars
<1>5. EstimateInv'
  BY <1>1 DEF EstimateInv, IsSound, RowOfTrace, traceVars
<1>. QED
  BY <1>2, <1>3, <1>4, <1>5

LEMMA WriteRowKeepsTrace ==
  ASSUME TraceInv, WriteRow
  PROVE  TraceInv'
<1>1. /\ pc = "rowAgain"
      /\ row' = RowOfTrace
      /\ NextStream
      /\ UNCHANGED <<detectorVars, events>>
  BY DEF WriteRow, GetStreamIdentifier
<1>2. IsSound(RowOfTrace)
  BY <1>1 DEF TraceInv, EstimateInv, Tracing
<1>3. IsSound(row)'
  BY <1>1, <1>2 DEF IsSound
<1>. QED
  BY <1>1, <1>3, NextStreamKeepsTrace DEF RowsAreSound

\* A packet that fits on is taken, and the estimate may become one of its
\* samples.
LEMMA ApplyKeepsTrace ==
  ASSUME TraceInv, ApplyPacket
  PROVE  TraceInv'
<1>. DEFINE start == Head(packets).start
            n     == Len(Head(packets).data)
<1>1. /\ pc = "packet" /\ pc' = "packet" /\ packets # <<>>
      /\ Head(packets).data # <<>>
      /\ ~ IsGap(Head(packets))
      /\ packets' = Tail(packets)
      /\ UNCHANGED <<row, picked, traceStartTime, gapDetected, databaseVars>>
      /\ lastPacketEndTime' = Larger(TimeOfSample(start, n), lastPacketEndTime)
      /\ taken' = [packets |-> taken.packets + 1,
                   samples |-> taken.samples + n,
                   first |-> IF taken.packets = 0 THEN start ELSE taken.first]
      /\ DetectorStep(FALSE, n)
  BY DEF ApplyPacket
<1>2. PICK x \in [Pipelines -> [1 .. n -> InputLevels]] :
          estimate' = Improved(start, Burned(start, DetectorOutput(FALSE, x)))
  BY DEF ApplyPacket
<1>3. /\ start \in Nat
      /\ n \in Nat \ {0}
      /\ Tail(packets) \in Seq(TracePackets)
  BY <1>1, FirstPacket DEF TraceInv
<1>. DEFINE cf == Burned(start, DetectorOutput(FALSE, x))
<1>4. /\ Len(cf) = n
      /\ \A k \in 1 .. n :
            /\ cf[k] \in Levels
            /\ cf[k] # Low =>
                  /\ ~ (mMaskCounter + k <= MaskFirstNSamples)
                  /\ TimeOfSample(start, k) - traceStartTime >= BurnInTime
  BY <1>3, BurnedOutput DEF TraceInv, TraceTypes
<1>5. estimate' = Improved(start, cf)
  BY <1>2
<1>. HIDE DEF start, n, cf
<1>6. /\ taken.packets \in Nat
      /\ taken.samples \in Nat
      /\ taken.first \in Nat
      /\ taken'.packets = taken.packets + 1
      /\ taken'.samples = taken.samples + n
      /\ taken'.first = IF taken.packets = 0 THEN start ELSE taken.first
  BY <1>1 DEF TraceInv, TraceTypes
<1>7. /\ MaskFirstNSamples \in Nat
      /\ mMaskCounter = AtMost(MaskFirstNSamples, taken.samples)
  BY <1>1, MaskOutlastsWindows DEF TraceInv, MaskInv
<1>8. ~ gapDetected
  BY <1>1 DEF TraceInv, SpanInv, Tracing
<1>9. ASSUME NEW k \in Nat \ {0}
      PROVE  /\ TimeOfSample(start, k) \in Nat
             /\ Follows(TimeOfSample(start, k), taken'.first, taken.samples + k,
                        taken'.packets)
             /\ Larger(TimeOfSample(start, k), lastPacketEndTime) \in Nat
             /\ Follows(Larger(TimeOfSample(start, k), lastPacketEndTime),
                        taken'.first, taken.samples + k, taken'.packets)
  <2>1. CASE taken = NothingTaken /\ lastPacketEndTime = NoTime
    <3>1. taken.packets = 0 /\ taken.samples = 0
      BY <2>1 DEF NothingTaken
    <3>2. /\ TimeOfSample(start, k) \in Nat
          /\ Follows(TimeOfSample(start, k), start, k, 1)
      BY <1>3, FirstPacketFollows
    <3>3. Larger(TimeOfSample(start, k), lastPacketEndTime) = TimeOfSample(start, k)
      BY <2>1, <3>2 DEF Larger, NoTime
    <3>. QED
      BY <1>6, <3>1, <3>2, <3>3
  <2>2. CASE /\ taken.packets # 0 /\ taken.samples # 0
             /\ lastPacketEndTime \in Nat
             /\ Follows(lastPacketEndTime, taken.first, taken.samples, taken.packets)
    <3>1. lastPacketEndTime # NoTime
      BY <2>2 DEF NoTime
    <3>2. Abs(start - lastPacketEndTime) <= MaxGapDuration
      <4>1. ~ (Abs(start - lastPacketEndTime) > MaxGapDuration)
        BY <1>1, <3>1 DEF IsGap, start
      <4>. QED
        BY <1>3, <2>2, <4>1, GatherAssumption DEF Abs
    <3>3. /\ TimeOfSample(start, k) \in Nat
          /\ Follows(TimeOfSample(start, k), taken.first, taken.samples + k,
                     taken.packets + 1)
          /\ Follows(Larger(TimeOfSample(start, k), lastPacketEndTime),
                     taken.first, taken.samples + k, taken.packets + 1)
      BY <1>3, <1>6, <2>2, <3>2, NextPacketFollows
    <3>4. Larger(TimeOfSample(start, k), lastPacketEndTime) \in Nat
      BY <2>2, <3>3 DEF Larger
    <3>. QED
      BY <1>6, <2>2, <3>3, <3>4
  <2>. QED
    BY <1>1, <1>8, <2>1, <2>2 DEF TraceInv, SpanInv, Tracing
<1>10. TraceTypes'
  <2>1. DetectorTypeOK'
    BY <1>1, <1>3, DetectorStepTypes DEF TraceInv, TraceTypes
  <2>2. taken' \in [packets : Nat, samples : Nat, first : Nat]
    <3>1. (IF taken.packets = 0 THEN start ELSE taken.first) \in Nat
      BY <1>3, <1>6
    <3>. QED
      BY <1>1, <1>3, <1>6, <3>1 DEF start, n
  <2>. QED
    BY <1>1, <1>3, <2>1, <2>2 DEF TraceInv, TraceTypes
<1>11. MaskInv'
  <2>1. mMaskCounter' = AtMost(MaskFirstNSamples, mMaskCounter + n)
    BY <1>1 DEF DetectorStep, MaskAfter
  <2>. QED
    BY <1>3, <1>6, <1>7, <2>1 DEF MaskInv, AtMost
<1>12. SpanInv'
  <2>1. taken'.packets # 0 /\ taken'.samples # 0
    BY <1>3, <1>6
  <2>2. /\ lastPacketEndTime' \in Nat
        /\ Follows(lastPacketEndTime', taken'.first, taken'.samples, taken'.packets)
    <3>1. lastPacketEndTime' = Larger(TimeOfSample(start, n), lastPacketEndTime)
      BY <1>1 DEF start, n
    <3>. QED
      BY <1>3, <1>6, <1>9, <3>1
  <2>. QED
    BY <1>1, <1>8, <2>1, <2>2 DEF SpanInv, Follows
<1>13. EventInv' /\ IdleInv'
  BY <1>1 DEF TraceInv, EventInv, IdleInv, Tracing, Idle, databaseVars, fileVars
<1>14. RowInv'
  BY <1>1, RowStaysSound DEF TraceInv, RowInv, databaseVars, fileVars
<1>15. EstimateInv'
  <2>1. CASE estimate' = estimate
    <3>1. CASE estimate = NoEstimate
      BY <1>1, <2>1, <3>1 DEF EstimateInv
    <3>2. CASE taken.packets # 0 /\ IsSound(RowOfTrace)
      <4>1. taken'.packets # 0 /\ taken'.first = taken.first
        BY <1>6, <3>2
      <4>2. RowOfTrace' = RowOfTrace
        BY <1>1, <2>1, <4>1 DEF RowOfTrace
      <4>3. events' = events
        BY <1>1 DEF databaseVars, fileVars
      <4>4. IsSound(RowOfTrace)'
        BY <3>2, <4>2, <4>3 DEF IsSound
      <4>. QED
        BY <4>1, <4>4 DEF EstimateInv
    <3>. QED
      BY <1>1, <3>1, <3>2 DEF TraceInv, EstimateInv, Tracing
  <2>2. ASSUME NEW k \in 1 .. n,
               estimate' = [time |-> TimeOfSample(start, k) - GroupDelay,
                            value |-> cf[k],
                            packets |-> taken.packets + 1,
                            samples |-> taken.samples + k],
               Abs(TimeOfSample(start, k) - GroupDelay - PickTime[Head(picked)])
                     <= PickWindow
        PROVE  EstimateInv'
    <3>1. k \in Nat \ {0}
      BY <1>3
    <3>2. /\ TimeOfSample(start, k) \in Nat
          /\ Follows(TimeOfSample(start, k), taken'.first, taken.samples + k,
                     taken'.packets)
      BY <1>9, <3>1
    <3>. DEFINE r == RowOfTrace'
    <3>3. /\ r.event = Head(picked)
          /\ r.time = TimeOfSample(start, k) - GroupDelay
          /\ r.value = cf[k]
          /\ r.packets = taken'.packets
          /\ r.samples = taken.samples + k
          /\ r.start = traceStartTime
          /\ r.first = taken'.first
      BY <1>1, <1>6, <2>2 DEF RowOfTrace
    <3>. HIDE DEF r
    <3>4. r.event \in events'
      BY <1>1, <3>3 DEF TraceInv, EventInv, Tracing, databaseVars, fileVars
    <3>5. Abs(r.time - PickTime[r.event]) <= PickWindow
      BY <2>2, <3>3
    <3>6. r.time + GroupDelay = TimeOfSample(start, k)
      BY <3>2, <3>3, GroupDelayIsNat
    <3>7. ASSUME r.value # Low
          PROVE  /\ r.samples > MaskFirstNSamples
                 /\ r.time + GroupDelay - r.start >= BurnInTime
      <4>1. /\ ~ (mMaskCounter + k <= MaskFirstNSamples)
            /\ TimeOfSample(start, k) - traceStartTime >= BurnInTime
        BY <1>4, <3>3, <3>7
      <4>2. taken.samples + k > MaskFirstNSamples
        BY <1>6, <1>7, <3>1, <4>1 DEF AtMost
      <4>3. r.samples > MaskFirstNSamples
        BY <3>3, <4>2
      <4>4. r.time + GroupDelay - r.start >= BurnInTime
        <5>1. traceStartTime \in Nat /\ r.start = traceStartTime
          BY <3>3 DEF TraceInv, TraceTypes
        <5>2. r.time \in Int
          BY <3>2, <3>3, GroupDelayIsNat
        <5>. QED
          BY <3>6, <4>1, <5>1, <5>2, GroupDelayIsNat, BurnInIsNat
      <4>. QED
        BY <4>3, <4>4
    <3>8. Follows(r.time + GroupDelay, r.first, r.samples, r.packets)
      BY <3>2, <3>3, <3>6
    <3>9. IsSound(RowOfTrace)'
      BY <3>4, <3>5, <3>7, <3>8 DEF IsSound, r
    <3>10. taken'.packets # 0
      BY <1>6
    <3>. QED
      BY <3>9, <3>10 DEF EstimateInv
  <2>. QED
    BY <1>3, <1>4, <1>5, <2>1, <2>2, ImprovedEstimate
<1>. QED
  BY <1>10, <1>11, <1>12, <1>13, <1>14, <1>15 DEF TraceInv

LEMMA TraceStarts == MCInit => TraceInv
<1>. SUFFICES ASSUME MCInit PROVE TraceInv
  OBVIOUS
<1>1. /\ DetectorInit /\ TraceInit
      /\ pc = "options" /\ picked = <<>> /\ row = NoRow
  BY DEF MCInit, Init
<1>2. DetectorTypeOK
  <2>1. MaskFirstNSamples \in Nat
    BY MaskOutlastsWindows
  <2>2. \A p \in Pipelines : 0 <= Window[p]
    BY StartUpAssumption
  <2>. QED
    BY <1>1, <2>1, <2>2 DEF DetectorInit, DetectorTypeOK
<1>3. TraceTypes
  BY <1>1, <1>2 DEF TraceTypes, TraceInit, NothingTaken
<1>4. EventInv /\ IdleInv /\ MaskInv /\ SpanInv /\ EstimateInv /\ RowInv
  BY <1>1 DEF TraceInit, EventInv, IdleInv, MaskInv, SpanInv, EstimateInv, RowInv,
              RowsAreSound, Tracing, Idle
<1>. QED
  BY <1>3, <1>4 DEF TraceInv

LEMMA TraceNext == TraceInv /\ [MCNext]_allVars => TraceInv'
<1>. SUFFICES ASSUME TraceInv, [MCNext]_allVars
              PROVE  TraceInv'
  OBVIOUS
<1>1. CASE \/ ReadOptions \/ CreateTables \/ Connect \/ Finish \/ GetWaveformHangs
           \/ WriteRowFails \/ Kill \/ ClientCreates \/ ClientWrites \/ ClientCloses
  BY <1>1, QuietSteps, QuietKeepsTrace
<1>2. CASE OpenDatabase \/ NextUser
  BY <1>2, OpenKeepsTrace, NextUserKeepsTrace
<1>3. CASE GetPicks \/ WriteEvent \/ GetWaveform
  BY <1>3, GetPicksKeepsTrace, WriteEventKeepsTrace, GetWaveformKeepsTrace
<1>4. CASE NoMoreEvents \/ GetWaveformFails
  <2>1. NextStream /\ UNCHANGED <<row, detectorVars, events>>
    BY <1>4 DEF NoMoreEvents, GetWaveformFails, databaseVars, fileVars
  <2>2. RowsAreSound'
    BY <2>1, RowStaysSound DEF TraceInv, RowInv
  <2>. QED
    BY <2>1, <2>2, NextStreamKeepsTrace
<1>5. CASE SkipEmptyPacket \/ DetectGap \/ ApplyPacket
  BY <1>5, LeavingPacketsKeepsTrace, ApplyKeepsTrace
<1>6. CASE EndTrace \/ IdentifyStream \/ WriteRow
  BY <1>6, EndTraceKeepsTrace, IdentifyKeepsTrace, WriteRowKeepsTrace
<1>7. CASE UNCHANGED allVars
  <2>1. UNCHANGED <<pc, row, picked, traceVars, detectorVars, events>>
    BY <1>7 DEF allVars, vars, gatherVars, databaseVars, fileVars
  <2>2. TraceTypes'
    BY <2>1 DEF TraceInv, TraceTypes, DetectorTypeOK, traceVars, detectorVars
  <2>3. RowInv'
    BY <2>1, RowStaysSound DEF TraceInv, RowInv
  <2>4. EventInv' /\ IdleInv' /\ MaskInv' /\ SpanInv'
    BY <2>1 DEF TraceInv, EventInv, IdleInv, MaskInv, SpanInv, traceVars, detectorVars
  <2>5. EstimateInv'
    BY <2>1 DEF TraceInv, EstimateInv, IsSound, RowOfTrace, traceVars
  <2>. QED
    BY <2>2, <2>3, <2>4, <2>5 DEF TraceInv
<1>. QED
  BY <1>1, <1>2, <1>3, <1>4, <1>5, <1>6, <1>7 DEF MCNext, ProgramNext

LEMMA TraceAlways == MCSpec => []TraceInv
BY TraceStarts, TraceNext, PTL DEF MCSpec

\* Every row the program writes is of a stored event and a sample near the
\* analyst's pick, from filters warmed up by that trace alone past its
\* burn-in, fed with samples that follow each other as far as the tolerance
\* for gaps makes them (gatherWaveforms.cpp: the loops of main).
THEOREM RowsCanBeTrusted == MCSpec => []RowsAreSound
<1>1. TraceInv => RowsAreSound
  BY DEF TraceInv, RowInv
<1>. QED
  BY <1>1, TraceAlways, PTL

---------------------------------------------------------------------------
(* The program comes to an end.  That it runs on is fairness and not       *)
(* proved here; that whatever it does leads there is.                      *)

\* From the options to the loops, and the one statement that ends them all.
StageLeft ==
    CASE pc = "options" -> Len(Schema) + 4
      [] pc = "open"    -> Len(Schema) + 3
      [] pc = "create"  -> Len(Schema) + 2 - creating
      [] pc = "connect" -> 2
      [] pc \in {"stream"} \cup Iterating -> 1
      [] pc \in {"gone", "hung", "other", "otherCreate"} -> 0

\* From an event to the row of its trace.
EventLeft ==
    CASE pc = "event"    -> 5
      [] pc = "waveform" -> 4
      [] pc = "packet"   -> 3
      [] pc = "row"      -> 2
      [] pc = "rowAgain" -> 1
      [] pc \notin Iterating -> 0

\* The loops within each other, the outermost first.
WorkLeft ==
    <<StageLeft, Len(streamList), IF pc = "stream" THEN 1 ELSE 0, Len(picked),
      EventLeft, Len(packets)>>

\* Of two tuples of numbers, the first comes first in the dictionary; no such
\* tuples get shorter for ever.
Shorter(a, b) ==
    \E i \in 1 .. 6 : a[i] < b[i] /\ \A j \in 1 .. i - 1 : a[j] = b[j]

LEMMA FirstDifferenceCounts ==
  ASSUME NEW a1, NEW a2, NEW a3, NEW a4, NEW a5, NEW a6,
         NEW b1, NEW b2, NEW b3, NEW b4, NEW b5, NEW b6,
         \/ a1 < b1
         \/ a1 = b1 /\ a2 < b2
         \/ a1 = b1 /\ a2 = b2 /\ a3 < b3
         \/ a1 = b1 /\ a2 = b2 /\ a3 = b3 /\ a4 < b4
         \/ a1 = b1 /\ a2 = b2 /\ a3 = b3 /\ a4 = b4 /\ a5 < b5
         \/ a1 = b1 /\ a2 = b2 /\ a3 = b3 /\ a4 = b4 /\ a5 = b5 /\ a6 < b6
  PROVE  Shorter(<<a1, a2, a3, a4, a5, a6>>, <<b1, b2, b3, b4, b5, b6>>)
<1>. DEFINE a == <<a1, a2, a3, a4, a5, a6>>
            b == <<b1, b2, b3, b4, b5, b6>>
<1>1. /\ a[1] = a1 /\ a[2] = a2 /\ a[3] = a3 /\ a[4] = a4 /\ a[5] = a5 /\ a[6] = a6
      /\ b[1] = b1 /\ b[2] = b2 /\ b[3] = b3 /\ b[4] = b4 /\ b[5] = b5 /\ b[6] = b6
  OBVIOUS
<1>. HIDE DEF a, b
<1>2. /\ \A j \in 1 .. 1 - 1 : FALSE
      /\ \A j \in 1 .. 2 - 1 : j = 1
      /\ \A j \in 1 .. 3 - 1 : j \in {1, 2}
      /\ \A j \in 1 .. 4 - 1 : j \in {1, 2, 3}
      /\ \A j \in 1 .. 5 - 1 : j \in {1, 2, 3, 4}
      /\ \A j \in 1 .. 6 - 1 : j \in {1, 2, 3, 4, 5}
  OBVIOUS
<1>3. Shorter(a, b)
  BY <1>1, <1>2 DEF Shorter
<1>. QED
  BY <1>3 DEF a, b

\* What a step has to do to come nearer.
Nearer ==
    \/ StageLeft' < StageLeft
    \/ /\ StageLeft' = StageLeft
       /\ \/ Len(streamList') < Len(streamList)
          \/ /\ streamList' = streamList
             /\ \/ pc = "stream" /\ pc' # "stream"
                \/ /\ pc # "stream" /\ pc' # "stream"
                   /\ \/ Len(picked') < Len(picked)
                      \/ /\ picked' = picked
                         /\ \/ EventLeft' < EventLeft
                            \/ EventLeft' = EventLeft /\ Len(packets') < Len(packets)

LEMMA NearerIsShorter ==
  ASSUME Nearer
  PROVE  Shorter(WorkLeft', WorkLeft)
<1>. DEFINE here  == IF pc = "stream" THEN 1 ELSE 0
            there == IF pc' = "stream" THEN 1 ELSE 0
<1>1. \/ StageLeft' < StageLeft
      \/ StageLeft' = StageLeft /\ Len(streamList') < Len(streamList)
      \/ StageLeft' = StageLeft /\ Len(streamList') = Len(streamList) /\ there < here
      \/ /\ StageLeft' = StageLeft /\ Len(streamList') = Len(streamList) /\ there = here
         /\ Len(picked') < Len(picked)
      \/ /\ StageLeft' = StageLeft /\ Len(streamList') = Len(streamList) /\ there = here
         /\ Len(picked') = Len(picked) /\ EventLeft' < EventLeft
      \/ /\ StageLeft' = StageLeft /\ Len(streamList') = Len(streamList) /\ there = here
         /\ Len(picked') = Len(picked) /\ EventLeft' = EventLeft
         /\ Len(packets') < Len(packets)
  BY DEF Nearer
<1>2. /\ WorkLeft = <<StageLeft, Len(streamList), here, Len(picked), EventLeft, Len(packets)>>
      /\ WorkLeft' = <<StageLeft', Len(streamList'), there, Len(picked'), EventLeft',
                       Len(packets')>>
  BY DEF WorkLeft
<1>. HIDE DEF here, there
<1>. QED
  BY <1>1, <1>2, FirstDifferenceCounts

\* Taking the first of a list away makes it shorter.
LEMMA TailIsNearer ==
  ASSUME NEW S, NEW list \in Seq(S), list # <<>>
  PROVE  Len(Tail(list)) < Len(list)
OBVIOUS

LEMMA NextStreamIsNearer ==
  ASSUME StreamsInv, pc \in Iterating, NextStream
  PROVE  Nearer
<1>1. StageLeft' = StageLeft
  BY DEF StageLeft, NextStream, Iterating
<1>2. Len(streamList') < Len(streamList)
  BY TailIsNearer DEF StreamsInv, NextStream
<1>. QED
  BY <1>1, <1>2 DEF Nearer

\* Up to the loops, and out of them.
LEMMA StageIsNearer ==
  ASSUME DatabaseInv,
         \/ ReadOptions \/ OpenDatabase \/ CreateTables \/ Connect \/ Finish
         \/ GetWaveformHangs \/ WriteRowFails
         \/ pc = "event" /\ pc' = "gone"
  PROVE  Nearer
<1>1. Len(Schema) = 5 /\ creating \in 0 .. 5
  BY SchemaLength DEF DatabaseInv, FileInv, CreationInv
<1>. USE DEF StageLeft, Iterating
<1>2. StageLeft' < StageLeft
  <2>1. CASE ReadOptions
    BY <1>1, <2>1 DEF ReadOptions, Return
  <2>2. CASE OpenDatabase
    BY <1>1, <2>2 DEF OpenDatabase, Open, CreatesDatabase, Return
  <2>3. CASE CreateTables
    <3>1. InCreate /\ pc = "create" /\ creating < 5
      BY <1>1, <2>3 DEF CreateTables, DatabaseInv, ControlInv, InCreate
    <3>. QED
      BY <1>1, <2>3, <3>1 DEF CreateTables, Create, Return
  <2>4. CASE Connect \/ Finish \/ GetWaveformHangs \/ WriteRowFails
    BY <1>1, <2>4 DEF Connect, Finish, GetWaveformHangs, WriteRowFails, Return
  <2>5. CASE pc = "event" /\ pc' = "gone"
    BY <1>1, <2>5
  <2>. QED
    BY <2>1, <2>2, <2>3, <2>4, <2>5
<1>. QED
  BY <1>2 DEF Nearer

\* In the loops.
LEMMA LoopsComeNearer ==
  ASSUME StreamsInv, TraceInv,
         \/ WriteEvent /\ pc' # "gone"
         \/ GetPicks \/ NoMoreEvents \/ GetWaveform \/ GetWaveformFails
         \/ SkipEmptyPacket \/ DetectGap \/ ApplyPacket \/ EndTrace
         \/ IdentifyStream \/ WriteRow
  PROVE  Nearer
<1>. USE DEF StageLeft, EventLeft, Iterating
<1>1. CASE GetPicks
  <2>1. streamList \in Seq(Streams) /\ streamList # <<>> /\ pc = "stream"
    BY <1>1 DEF StreamsInv, GetPicks
  <2>2. CASE picked' = <<>>
    <3>1. pc' = "stream" /\ streamList' = Tail(streamList)
      BY <1>1, <2>2 DEF GetPicks
    <3>. QED
      BY <2>1, <3>1, TailIsNearer DEF Nearer
  <2>3. CASE picked' # <<>>
    BY <1>1, <2>3 DEF GetPicks, Nearer
  <2>. QED
    BY <2>2, <2>3
<1>2. CASE WriteEvent /\ pc' # "gone"
  BY <1>2 DEF WriteEvent, Return, Nearer
<1>3. CASE NoMoreEvents \/ GetWaveformFails \/ WriteRow
  BY <1>3, NextStreamIsNearer DEF NoMoreEvents, GetWaveformFails, WriteRow
<1>4. CASE GetWaveform
  <2>1. pc = "waveform" /\ UNCHANGED streamList
    BY <1>4 DEF GetWaveform
  <2>2. \/ picked' = Tail(picked) /\ pc' = "event"
        \/ UNCHANGED picked /\ pc' = "packet"
    BY <1>4 DEF GetWaveform
  <2>3. picked \in Seq(Events) /\ picked # <<>>
    BY <2>1 DEF TraceInv, TraceTypes, EventInv
  <2>4. Len(Tail(picked)) < Len(picked)
    BY <2>3, TailIsNearer
  <2>. QED
    BY <2>1, <2>2, <2>4 DEF Nearer
<1>5. CASE SkipEmptyPacket \/ DetectGap \/ ApplyPacket
  <2>1. /\ pc = "packet" /\ packets # <<>>
        /\ UNCHANGED <<pc, streamList, picked>>
        /\ packets' = <<>> \/ packets' = Tail(packets)
    BY <1>5 DEF SkipEmptyPacket, DetectGap, ApplyPacket
  <2>2. packets \in Seq(TracePackets)
    BY DEF TraceInv, TraceTypes
  <2>3. Len(packets') < Len(packets)
    <3>1. Len(packets) \in Nat \ {0} /\ Len(<<>>) = 0
      BY <2>1, <2>2
    <3>. QED
      BY <2>1, <2>2, <3>1, TailIsNearer
  <2>. QED
    BY <2>1, <2>3 DEF Nearer
<1>6. CASE EndTrace
  <2>1. CASE estimate.value > Lowest /\ ~gapDetected
    BY <1>6, <2>1 DEF EndTrace, Nearer
  <2>2. CASE ~(estimate.value > Lowest /\ ~gapDetected)
    BY <1>6, <2>2, NextStreamIsNearer DEF EndTrace
  <2>. QED
    BY <2>1, <2>2
<1>7. CASE IdentifyStream
  BY <1>7 DEF IdentifyStream, Nearer
<1>. QED
  BY <1>1, <1>2, <1>3, <1>4, <1>5, <1>6, <1>7

\* All six are natural numbers.
WorkIsNatural == \A i \in 1 .. 6 : WorkLeft[i] \in Nat

LEMMA WorkAlways == MCSpec => []WorkIsNatural
<1>1. ASSUME DatabaseInv, StreamsInv, TraceInv
      PROVE  WorkIsNatural
  <2>1. StageLeft \in Nat
    <3>1. Len(Schema) = 5 /\ creating \in 0 .. 5
      BY <1>1, SchemaLength DEF DatabaseInv, FileInv, CreationInv
    <3>2. pc \in {"options", "open", "create", "gone", "other", "otherCreate"} \cup AtWork
      BY <1>1 DEF DatabaseInv, ControlInv
    <3>. QED
      BY <3>1, <3>2 DEF StageLeft, AtWork, Iterating
  <2>2. EventLeft \in Nat
    BY DEF EventLeft, Iterating
  <2>3. Len(streamList) \in Nat /\ Len(picked) \in Nat /\ Len(packets) \in Nat
    BY <1>1 DEF StreamsInv, TraceInv, TraceTypes
  <2>4. (IF pc = "stream" THEN 1 ELSE 0) \in Nat
    OBVIOUS
  <2>5. /\ WorkLeft[1] \in Nat /\ WorkLeft[2] \in Nat /\ WorkLeft[3] \in Nat
        /\ WorkLeft[4] \in Nat /\ WorkLeft[5] \in Nat /\ WorkLeft[6] \in Nat
    BY <2>1, <2>2, <2>3, <2>4 DEF WorkLeft
  <2>6. 1 .. 6 = {1, 2, 3, 4, 5, 6}
    OBVIOUS
  <2>. QED
    BY <2>5, <2>6 DEF WorkIsNatural
<1>. QED
  BY <1>1, DatabaseAlways, StreamsAlways, TraceAlways, PTL

\* Each step of the training program brings it nearer its end, whatever the
\* archive answers, the files hold and the calls fail at: no loop goes round
\* without having used up a stream, an event or a packet, and none starts over
\* (gatherWaveforms.cpp: main).
THEOREM ProgramComesNearerItsEnd ==
    MCSpec => /\ []WorkIsNatural
              /\ [][ProgramNext => Shorter(WorkLeft', WorkLeft)]_allVars
<1>1. ASSUME DatabaseInv, StreamsInv, TraceInv, ProgramNext
      PROVE  Shorter(WorkLeft', WorkLeft)
  <2>1. CASE WriteEvent
    <3>1. CASE pc' = "gone"
      <4>1. pc = "event"
        BY <2>1 DEF WriteEvent
      <4>. QED
        BY <1>1, <3>1, <4>1, StageIsNearer, NearerIsShorter
    <3>2. CASE pc' # "gone"
      BY <1>1, <2>1, <3>2, LoopsComeNearer, NearerIsShorter
    <3>. QED
      BY <3>1, <3>2
  <2>2. CASE \/ ReadOptions \/ OpenDatabase \/ CreateTables \/ Connect \/ Finish
             \/ GetWaveformHangs \/ WriteRowFails
    BY <1>1, <2>2, StageIsNearer, NearerIsShorter
  <2>3. CASE \/ GetPicks \/ NoMoreEvents \/ GetWaveform \/ GetWaveformFails
             \/ SkipEmptyPacket \/ DetectGap \/ ApplyPacket \/ EndTrace
             \/ IdentifyStream \/ WriteRow
    <3>1. Nearer
      BY <1>1, <2>3, LoopsComeNearer, Zenon
    <3>. QED
      BY <3>1, NearerIsShorter
  <2>. QED
    BY <1>1, <2>1, <2>2, <2>3 DEF ProgramNext
<1>2. DatabaseInv /\ StreamsInv /\ TraceInv /\ [MCNext]_allVars
          => [ProgramNext => Shorter(WorkLeft', WorkLeft)]_allVars
  BY <1>1
<1>. QED
  BY <1>2, DatabaseAlways, StreamsAlways, TraceAlways, WorkAlways, PTL DEF MCSpec
===========================================================================
