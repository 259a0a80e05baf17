SPECIFICATION Spec
CONSTANTS
    Banks <- MCBanks
    Tree <- MCTree2
    Commands <- MCCommands
    CommandCycles <- MCCycles
    TimingCons <- MCTimingCons
    Addrs <- MCAddrs
    Ranks <- MCRanks2
    ReadBufferSize = 2
    WriteBufferSize = 2
    PriorityBufferSize = 4
    HighMark = 1
    LowMark = 1
    ReadLatency = 2
    RowPolicy = "ClosedCAP"
    Cap = 1
    HasAP = TRUE
    RefreshInterval = 12
    ScatterInterval = 2
    MaxReqs = 3
INVARIANT RefreshAccepted
