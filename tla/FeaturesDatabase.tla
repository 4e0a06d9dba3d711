-------------------------- MODULE FeaturesDatabase --------------------------
(***************************************************************************)
(* The sqlite3 database the training tools write (FeaturesDatabase of      *)
(* src/training/featuresDatabase.cpp): opening it in one of three modes,   *)
(* create(), which makes the tables statement by statement, and the two    *)
(* write functions.  Every statement commits by itself and may fail, which *)
(* throws but for two of getStreamIdentifier; a process may be killed      *)
(* between two statements.  What the file holds outlives the process, what *)
(* the object holds does not.                                              *)
(***************************************************************************)
EXTENDS Naturals, Sequences

\* A stream is [name, location]: its network, station and channel in one
\* name, and its location code.
NoLocation == ""
Dashes == "--"

Modes == {"Create", "ReadWrite", "ReadOnly"}

\* What create() makes, in this order: three tables before the features', and
\* the one row of the version table.
Schema == <<"events", "version", "versionRow", "streams", "features">>
AllTables == {Schema[i] : i \in 1 .. Len(Schema)}

VARIABLES
    \* the file
    exists,
    tables,    \* what create() has made of the schema
    events,    \* the rows of the table events
    streams,   \* the rows of the table streams, by identifier
    \* the object, if there is one
    mIsOpen,
    mMode,
    mTablesInitialized,
    creating,  \* in create(): how much of the schema it has made
    \* history
    brokenOff  \* was the creation of this file broken off?

fileVars == <<exists, tables, events, streams>>
handleVars == <<mIsOpen, mMode, mTablesInitialized, creating>>
databaseVars == <<fileVars, handleVars, brokenOff>>

DatabaseInit ==
    /\ exists = FALSE
    /\ tables = {}
    /\ events = {}
    /\ streams = <<>>
    /\ mIsOpen = FALSE
    /\ mMode = "ReadOnly"
    /\ mTablesInitialized = FALSE
    /\ creating = Len(Schema)
    /\ brokenOff = FALSE

---------------------------------------------------------------------------
(* The constructor.                                                        *)

EmptyFile == tables' = {} /\ events' = {} /\ streams' = <<>>
KeepRows == UNCHANGED <<tables, events, streams>>

CreatesDatabase(mode) ==
    \/ mode = "Create"
    \/ mode = "ReadWrite" /\ ~exists

\* The file is removed if it is to be created, and opened; create() follows.
Open(mode) ==
    /\ mode = "ReadOnly" => exists
    /\ exists' = TRUE
    /\ IF CreatesDatabase(mode) THEN EmptyFile /\ brokenOff' = FALSE
                                ELSE KeepRows /\ UNCHANGED brokenOff
    /\ mIsOpen' = TRUE
    /\ mMode' = IF mode = "ReadOnly" THEN "ReadOnly" ELSE "ReadWrite"
    /\ mTablesInitialized' = ~CreatesDatabase(mode)
    /\ creating' = IF CreatesDatabase(mode) THEN 0 ELSE Len(Schema)

\* The constructor throws: the file to read is missing, or a call for the file
\* fails, which in the mode Create may be after the old file was removed.
OpenFails(mode) ==
    /\ \/ UNCHANGED <<fileVars, brokenOff>>
       \/ /\ mode = "Create" /\ exists
          /\ exists' = FALSE
          /\ EmptyFile
          /\ brokenOff' = FALSE
    /\ UNCHANGED handleVars

InCreate == mIsOpen /\ creating < Len(Schema)

\* Variant with a mistake, for the mutation runs: the last table is left out.
CreateAllButFeatures ==
    /\ InCreate
    /\ creating' = creating + 1
    /\ tables' = IF creating' = Len(Schema) THEN tables
                 ELSE tables \cup {Schema[creating']}
    /\ mTablesInitialized' = (creating' = Len(Schema))
    /\ UNCHANGED <<exists, events, streams, mIsOpen, mMode, brokenOff>>

\* One statement of create(), and what it does after the last of them.
Create ==
    /\ InCreate
    /\ creating' = creating + 1
    /\ tables' = tables \cup {Schema[creating']}
    /\ mTablesInitialized' = (creating' = Len(Schema))
    /\ UNCHANGED <<exists, events, streams, mIsOpen, mMode, brokenOff>>

\* The object is gone: destroyed, or lost with the process or with a
\* constructor that throws in create().
Gone ==
    /\ mIsOpen' = FALSE
    /\ mMode' = "ReadOnly"
    /\ mTablesInitialized' = FALSE
    /\ creating' = Len(Schema)
    /\ brokenOff' = (brokenOff \/ InCreate)
    /\ UNCHANGED fileVars

---------------------------------------------------------------------------
(* The write functions, a statement a step.  No step looks at mMode.       *)

\* A statement on a table that is missing fails.
CanQuery(table) == mIsOpen /\ ~InCreate /\ table \in tables

\* write(EventRow) of a row that passes its checks: addEvent.
AddEvent(event) ==
    /\ CanQuery("events")
    /\ events' = events \cup {event}
    /\ UNCHANGED <<exists, tables, streams, handleVars, brokenOff>>

EventExists(event) == event \in events

\* Variant with a mistake, for the mutation runs: the lookup always asks for "--".
LookupDashes(stream) == Dashes

\* An empty location code is looked up as "--".
LookupCode(stream) ==
    IF stream.location = NoLocation THEN Dashes ELSE stream.location

StreamKey(stream) == [name |-> stream.name, location |-> LookupCode(stream)]

StreamExists(stream) ==
    \E i \in 1 .. Len(streams) : streams[i] = StreamKey(stream)

\* getStreamIdentifier: a stream that is not found is inserted, with its
\* location code as it is; the code "--" computed for it goes unused.  When the
\* step of the INSERT or of the SELECT fails, the identifier is -1 and nothing is
\* thrown: the stream may then be missing, and the caller, which only logs the
\* identifier, goes on.
GetStreamIdentifier(stream) ==
    /\ CanQuery("streams")
    /\ \/ UNCHANGED streams
       \/ ~StreamExists(stream) /\ streams' = Append(streams, stream)
    /\ UNCHANGED <<exists, tables, events, handleVars, brokenOff>>
=============================================================================
