CONSTANTS
    NumRegisters = 2
    WordMod = 16
    PcMod = 64
    TargetBase = 0
    JumpsAbsolute = FALSE
    BitAnd <- WordAnd
    BitOr <- WordOr
    BitXor <- WordXor
    NoData <- ZeroEntry
    Capacity = 4
    IQCapacity = 8
    LSQCapacity = 4
    SBCapacity = 4
    BPTableSize = 16
    PRFCount = 10
    DefaultPRFCount = 10
    DefaultARFCount = 2
    DMemWords = 3
    MaxCheckpoints = 8
    Programs <- LoadBacklog
SPECIFICATION Spec
INVARIANT WaitersHaveProducers
CHECK_DEADLOCK FALSE
