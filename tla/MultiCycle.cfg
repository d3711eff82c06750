CONSTANTS
    NumRegisters = 3
    WordMod = 32
    PcMod = 32
    TargetBase = 1
    JumpsAbsolute = TRUE
    BitAnd <- WordAnd
    BitOr <- WordOr
    BitXor <- WordXor
    DataWords = 16
    MaxResets = 1
    Programs <- MultiCyclePrograms4
SPECIFICATION FairSpec
INVARIANT LatchesServeInstruction
PROPERTY SequentialMeaning InstructionsEnd
CHECK_DEADLOCK FALSE
