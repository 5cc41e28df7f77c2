CONSTANTS
    MinPrebuffer = 2
    MinStallbuffer = 1
    Epoch = 20
    ChunkMinimum = 2
    ChunkFetch = 1
    BufferSeconds = 2
    MaxTestTime = 6
    VideoLength = 4
    AudioLength = 4
    Length <- MCLength
    PacketSize = 2
    LoopFaults = {}
    MaxNow = 26
    AdaptiveLists <- MCOne
    PlainLists <- MCOne
    MaxBitrate = 3
    OneBitrate = FALSE
    MinTestTime = FALSE
SPECIFICATION Spec
INVARIANTS NoFalseStall
