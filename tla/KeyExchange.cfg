SPECIFICATION FairSpec
CONSTANTS
    Setups <- MCSetups
    MaxAttempts = 2
    Breakable = {1}
    Users = {11, 12}
    Ports = {5001}
INVARIANTS
    EndsAgree
    BestInCommon
    ReaderKeepsOrder
PROPERTIES
    AcceptedOnce
    ConnectionsSettle
CHECK_DEADLOCK FALSE
