SPECIFICATION ComputeSpec
CONSTANTS
    p1 = p1
    p2 = p2
    Pipelines <- MCPipelines
    Window <- MCWindow
    EnvelopeLength <- MCEnvelopeLength
    NumberOfCascades <- MCNumberOfCascades
    FilterStartUp <- MCFilterStartUp
    Period = 4
    Half = 2
    IntMax = 1000
    MaxSamples = 3
    QueryLimit = 1
    OriginTime <- NoEvents
    WaveRoots <- NoEvents
    LastTime = 14
    MaxTime = 34
    MaxLength = 4
    MaxRecords = 3
    MaxEntries = 3
INVARIANTS
    OutputIndependentOfPackets
    CountersInStep
    EveryActivationPicked
    GapCountsMissingSamples
    TrimReturnsTail
    OnlyLastPacketIsCut
    ConfiguredStreamsArePicked
CHECK_DEADLOCK FALSE
