SPECIFICATION Spec
CONSTANTS
    Banks <- MCBanks
    Tree <- MCTree
    Commands <- MCCommands
    CommandCycles <- MCCycles
    TimingCons <- MCTimingCons
    Addrs <- MCSameRow
    Ranks <- MCRanks
    ReadBufferSize = 2
    WriteBufferSize = 2
    PriorityBufferSize = 2
    HighMark = 1
    LowMark = 1
    ReadLatency = 2
    RowPolicy = "ClosedCAP"
    Cap = 1
    HasAP = TRUE
    RefreshInterval = 0
    ScatterInterval = 0
    MaxReqs = 4
INVARIANTS NoRequestLost OnePrechargePerBank
