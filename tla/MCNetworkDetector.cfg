SPECIFICATION FairSpec
CONSTANTS
    MaximumImportQueueSize = 2
    MaxPackets = 4
    MaxPicks = 2
INVARIANTS
    TypeOK
    PacketsInOrder
    EveryPacketAccountedFor
    StopsForAReason
    NothingOutlivesWhatItUses
PROPERTY
    AlwaysEnds
CHECK_DEADLOCK FALSE
