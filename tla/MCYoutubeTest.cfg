CONSTANTS
    MinPrebuffer = 2
    MinStallbuffer = 1
    Epoch = 20
    ChunkMinimum = 2
    ChunkFetch = 1
    BufferSeconds = 2
    MaxTestTime = 4
    VideoLength = 4
    AudioLength = 3
    Length <- MCLength
    PacketSize = 2
    LoopFaults <- AllLoopFaults
    MaxNow = 25
    AdaptiveLists <- MCAdaptive
    PlainLists <- MCPlain
    MaxBitrate = 3
    OneBitrate = FALSE
    MinTestTime = TRUE
    FileSizes <- MCFileSizes
    Pages <- MCPages
    Hosts <- MCHosts
    IpVersion = "SYSTEM"
    MainFaults <- AllMainFaults
SPECIFICATION MainFairSpec
INVARIANTS MainTypeOK TimestampsOrdered StallAccounting StallsInThePast TornOnlyByCut WorkedMeansComplete BufferBounded
PROPERTIES ImplementsPlayout ExitReached
