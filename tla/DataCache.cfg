CONSTANTS
    NumLines = 2
    WordsPerLine = 2
    DataMemoryWords = 7
    Words = {0, 1}
SPECIFICATION Spec
INVARIANTS TypeOK CleanLinesMatch
PROPERTY ImplementsMemory
