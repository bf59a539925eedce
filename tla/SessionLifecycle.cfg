SPECIFICATION FairSpec
CONSTANTS
    MaxConns = 2
    MaxPending = 2
    Users = {u1, u2}
    Ports = {1, 2}
    Ephemeral = 3
    Transports = {"udp", "tcp"}
    DataCapacity = 1
INVARIANTS
    OutputStaysWithUser
    OneConnectionServes
PROPERTIES
    LostOnlyToItsUser
    ReachableClientNeverBlocksShell
    ExitEndsSession
CHECK_DEADLOCK FALSE
