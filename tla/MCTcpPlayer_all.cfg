CONSTANTS
    MinPrebuffer = 2
    MinStallbuffer = 1
    Epoch = 20
    ChunkMinimum = 2
    ChunkFetch = 1
    BufferSeconds = 2
    MaxTestTime = 1
    VideoLength = 4
    AudioLength = 3
    Length <- MCLength
    PacketSize = 2
    Faults <- AllFaults
    MaxNow = 22
    FileSizes <- MCFileSizes
    Pages <- MCPages
    MaxBitrate = 3
    OneBitrate = FALSE
    MinTestTime = TRUE
SPECIFICATION FairSpec
INVARIANTS TypeOK AddedExact WorkedMeansComplete TornOnlyByFailure BufferBounded ListsTellPage AudioIsBest GivesUpLast
PROPERTIES ImplementsPlayout ExitReached
