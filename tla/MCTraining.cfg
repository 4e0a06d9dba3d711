SPECIFICATION MCSpec
CONSTANTS
    e1 = e1
    e2 = e2
    e3 = e3
    p1 = p1
    Pipelines <- MCPipelines
    Window <- MCWindow
    EnvelopeLength <- MCEnvelopeLength
    NumberOfCascades <- MCNumberOfCascades
    FilterStartUp <- MCFilterStartUp
    Period = 3
    Half = 2
    IntMax = 1000
    QueryLimit = 2
    OriginTime <- MCOriginTime
    PickTime <- MCPickTime
    WaveRoots <- MCWaveRoots
    Inis <- MCInis
    Waveforms <- MCWaveforms
    InputLevels = {0, 2}
    BurnInFactor = 2
    PickWindow = 4
    MaxGapDuration = 4
    MaxOpens = 3
    MaxStreams = 3
INVARIANTS
    RowsAreSound
    OneRowPerNamedStream
    CompleteUnlessBrokenOff
PROPERTIES
    EndsUnlessCorrupt
CHECK_DEADLOCK FALSE
