SPECIFICATION FairSpec
CONSTANTS
    Chunks <- MCChunks
    MaxTyped = 4
    KbCapacity = 1
    TxCapacity = 1
    SessionIds = {1, 2}
    MaxAbandoned = 1
INVARIANTS
    TypedOrder
    AsksForLastSession
PROPERTIES
    KeysKept
    QuitHeeded
CHECK_DEADLOCK FALSE
