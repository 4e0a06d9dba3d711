SPECIFICATION FairSpec
CONSTANTS
    MaximumQueueSize = 3
    ScheduleSize = 2
    CheckStateEvery = 2
    MaxPicks = 4
PROPERTY
    StopEndsThePublisher
CHECK_DEADLOCK FALSE
