SPECIFICATION Spec
CONSTANTS
    a = a
    b = b
    Speakers = {a, b}
    ChunkLimit = 3
    ChannelCap = 2
    Silent <- MCSilent
    Budget <- OneFault
CHECK_DEADLOCK FALSE
INVARIANTS DownloadedChunksAreFed
