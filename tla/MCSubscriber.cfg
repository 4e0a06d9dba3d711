SPECIFICATION FairSpec
CONSTANTS
    ScheduleSize = 2
    MaxPackets = 3
    EndTimes = {1, 2}
INVARIANTS
    TypeOK
    OnlyNotificationOutlivesAwait
    StatusIsOfThisCall
    AtMostOnePacketAfterStop
    PrematureEndIsJustified
PROPERTIES
    RunsAsWorker
CHECK_DEADLOCK FALSE
