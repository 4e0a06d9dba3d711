SPECIFICATION Spec
CONSTANTS
    Streams <- MCStreams
    MaxPackets = 2
    MaxPicks = 2
    MaxReports = 2
INVARIANTS
    CountersMatchPicks
    ReportsAddUp
CHECK_DEADLOCK FALSE
