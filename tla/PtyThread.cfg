SPECIFICATION FairSpec
CONSTANTS
    Threads = {1, 2}
    Interactive = {1}
    TermCapacity = 1
    MaxKills = 1
INVARIANTS
    LiveShellsListed
    CleanEndLeavesNoLogin
PROPERTIES
    OutputFlows
    ThreadEnds
CHECK_DEADLOCK FALSE
