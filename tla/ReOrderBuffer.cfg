CONSTANTS
    Capacity = 4
    Payload = {a, b}
    NoData = none
SPECIFICATION RobSpec
INVARIANTS RobTypeOK RobWindow FreeSlotsAreClean
PROPERTY ImplementsQueue
