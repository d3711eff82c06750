CONSTANTS
    NumRegisters = 2
    WordMod = 4
    PcMod = 64
    TargetBase = 0
    JumpsAbsolute = FALSE
    BitAnd <- WordAnd
    BitOr <- WordOr
    BitXor <- WordXor
    NoData <- ZeroEntry
    Capacity = 8
    IQCapacity = 8
    LSQCapacity = 8
    SBCapacity = 8
    BPTableSize = 16
    PRFCount = 6
    DefaultPRFCount = 6
    DefaultARFCount = 2
    DMemWords = 1
    MaxCheckpoints = 1
    Programs <- BranchPrograms4
SPECIFICATION FairSpec
INVARIANTS TypeOK IqMirrorsRob WaitersHaveProducers RatFollowsWindow RegistersPartitioned NoRegisterLeaked NoInstructionSkipped
PROPERTY SequentialMeaning KeepsRetiring
CHECK_DEADLOCK FALSE
