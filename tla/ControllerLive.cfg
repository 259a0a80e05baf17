SPECIFICATION FairSpec
CONSTANTS
    Banks <- MCBanks
    Tree <- MCTree
    Commands <- MCCommands
    CommandCycles <- MCCycles
    TimingCons <- MCTimingCons
    Addrs <- MCAddrs
    Ranks <- MCRanks
    ReadBufferSize = 2
    WriteBufferSize = 2
    PriorityBufferSize = 1
    HighMark = 1
    LowMark = 0
    ReadLatency = 2
    RowPolicy = "Open"
    Cap = 1
    HasAP = TRUE
    RefreshInterval = 14
    ScatterInterval = 0
    MaxReqs = 3
PROPERTIES EveryRequestCompletes MaintenanceCompletes
