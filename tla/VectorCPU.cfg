SPECIFICATION Spec
CONSTANTS
    NumRegisters = 2
    Lanes = 2
    Word <- MCWord
    LaneOp <- MCLaneOp
    Instruction <- MCInstruction
    AVL <- MCAVL
    SEW <- MCSEW
    Unknown = Unknown
INVARIANTS
    LengthFitsWidth
PROPERTIES
    ImplementsElementwise
