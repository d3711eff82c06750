CONSTANTS
    NumRegisters = 3
    WordMod = 8
    PcMod = 16
    TargetBase = 1
    JumpsAbsolute = FALSE
    BitAnd <- WordAnd
    BitOr <- WordOr
    BitXor <- WordXor
    DataWords = 4
    PcRegister = 15
    MaxResets = 1
    Programs <- PipelinedPrograms4
SPECIFICATION FairSpec
INVARIANTS TypeOK OpcodesFollowPipeline
PROPERTY SequentialMeaning KeepsExecuting
CHECK_DEADLOCK FALSE
