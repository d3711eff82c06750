CONSTANTS
    NumRegisters = 2
    WordMod = 16
    PcMod = 64
    TargetBase = 0
    JumpsAbsolute = FALSE
    BitAnd <- WordAnd
    BitOr <- WordOr
    BitXor <- WordXor
    NoData <- ZeroEntry
    Capacity = 8
    IQCapacity = 8
    LSQCapacity = 8
    SBCapacity = 8
    BPTableSize = 8
    PRFCount = 7
    DefaultPRFCount = 7
    DefaultARFCount = 2
    DMemWords = 4
    MaxCheckpoints = 1
    Programs <- MemoryPrograms4
SPECIFICATION FairSpec
INVARIANTS MemoryQueuesMirrorRob LoadsSeeOlderStores CommittedStoresReachMemory
PROPERTY SequentialMeaning Halts
CHECK_DEADLOCK FALSE
