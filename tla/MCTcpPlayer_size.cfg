CONSTANTS
    MinPrebuffer = 2
    MinStallbuffer = 1
    Epoch = 20
    ChunkMinimum = 2
    ChunkFetch = 1
    BufferSeconds = 2
    MaxTestTime = 4
    VideoLength = 4
    AudioLength = 3
    Length <- MCLength
    PacketSize = 2
    Faults = {}
    MaxNow = 24
    FileSizes <- MCFileSizes
    Pages <- MCShortPages
    MaxBitrate = 3
    OneBitrate = FALSE
    MinTestTime = FALSE
SPECIFICATION Spec
INVARIANT SizeOfVideo
