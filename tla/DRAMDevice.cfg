SPECIFICATION Spec
CONSTANTS
    Banks <- MCBanks
    Tree <- MCTree
    Commands <- MCCommands
    CommandCycles <- MCCycles
    TimingCons <- MCTimingCons
    Scopes <- MCScopes
    MaxLog = 3
INVARIANT TimingIsExact
