CONSTANTS
    NumLines = 2
    WordsPerLine = 4
    AddressWords = 32
    RomWords = 16
    RefillWords = 8
    MaxDisturbances = 3
    Rom <- NumberedRom
SPECIFICATION FetchFairSpec
INVARIANTS FetchTypeOK RefillMatchesRom LinesMatchRom
PROPERTIES DeliversProgram KeepsFetching
