SPECIFICATION Spec
CONSTANTS
    p1 = p1
    Pipelines <- MCPipelines
    Window <- MCWindow
    EnvelopeLength <- MCEnvelopeLength
    NumberOfCascades <- MCNumberOfCascades
    FilterStartUp <- MCFilterStartUp
    Period = 3
    Half = 2
    IntMax = 5
    GapTolerance = 1
    BurnInFactor = 2
    MaxLatency = 6
    MaxFutureTime = 1
    MaxTime = 16
    MaxSamples = 3
    InputLevels = {0, 2}
INVARIANTS
    PicksOfLastApply
CHECK_DEADLOCK FALSE
