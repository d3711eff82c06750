CONSTANTS
    NumRegisters = 2
    WordMod = 16
    PcMod = 64
    TargetBase = 0
    JumpsAbsolute = FALSE
    BitAnd <- WordAnd
    BitOr <- WordOr
    BitXor <- WordXor
    NoData <- ZeroEntry
    Capacity = 8
    IQCapacity = 8
    LSQCapacity = 4
    SBCapacity = 4
    BPTableSize = 16
    PRFCount = 8
    DefaultPRFCount = 8
    DefaultARFCount = 2
    DMemWords = 3
    MaxCheckpoints = 8
    Programs <- StoreInShadow
SPECIFICATION Spec
INVARIANT MemoryQueuesMirrorRob
CHECK_DEADLOCK FALSE
