SPECIFICATION FairSyncSpec
CONSTANTS
    DiffMode = "datagram"
    MaxChunks = 2
    MaxEvents = 2
    DataCapacity = 1
    LastTier = 1
    PathTier = 0
    Oversized = {1}
    QuietTicks = 1
    SuccessTicks = 1
    FailThreshold = 2
INVARIANT RepaintOwed
PROPERTY CatchesUp
CHECK_DEADLOCK FALSE
