SPECIFICATION Spec
CONSTANTS
    p1 = p1
    p2 = p2
    Pipelines <- MCPipelines
    Window <- MCWindow
    EnvelopeLength <- MCEnvelopeLength
    NumberOfCascades <- MCNumberOfCascades
    FilterStartUp <- MCFilterStartUp
    Period = 4
    Half = 2
    IntMax = 1000
    MaxSamples = 3
INVARIANT
    NoPickWhileActivated
