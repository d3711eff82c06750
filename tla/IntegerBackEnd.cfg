SPECIFICATION FairSpec
CONSTANTS
    Capacity = 3
    NoData = NoData
    IQCapacity = 2
    NumRegisters = 2
    PRFCount = 4
    Value <- MCValue
    Instruction <- MCInstruction
    Alu <- MCAlu
    Taken <- MCTaken
INVARIANTS
    TypeOK
    RegistersConserved
    OperandsCurrent
PROPERTIES
    ImplementsInOrder
    HeadMovesOn
CHECK_DEADLOCK FALSE
