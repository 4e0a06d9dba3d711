SPECIFICATION AskSpec
CONSTANTS
    Period = 4
    Half = 2
    IntMax = 1000
    QueryLimit = 1
    OriginTime <- NoEvents
    WaveRoots <- NoEvents
    LastTime = 14
    MaxTime = 34
    MaxLength = 4
    MaxRecords = 3
    MaxEntries = 3
INVARIANT
    TrimmedTimeIsOfFirstSample
CHECK_DEADLOCK FALSE
