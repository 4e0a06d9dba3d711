SPECIFICATION FairSpec
CONSTANTS
    MaximumQueueSize = 3
    ScheduleSize = 2
    CheckStateEvery = 2
    MaxPicks = 4
INVARIANTS
    TypeOK
    OldestFirst
    EveryPickAccountedFor
    NothingRefused
    PrematureEndIsJustified
PROPERTIES
    NoStreamAfterShutdown
    DeliversInOrder
    RunsAsWorker
    NoPickWaitsForever
CHECK_DEADLOCK FALSE
