SPECIFICATION FairSpec
CONSTANTS
    Daemons = {1, 2}
    Handlers = {1, 2}
    Keys = {11, 12}
    Words = {"", "m"}
    Credentials = {"c1", "c2"}
    Backends = {"passphrase", "fido2"}
    Dead = 99
    MaxEvents = 4
INVARIANTS
    LockedKeepsNoKey
    AckedKeysAreKept
    KeyOpensVault
PROPERTIES
    RequestsAnswered
CHECK_DEADLOCK FALSE
