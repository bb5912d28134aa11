CONSTANTS
    Connectors = {c1, c2, c3}
    NoOne = NoOne
    U16 = 16
    U32 = 64
    Radix = 8
    PayloadChars = 4
    CodeSpan = 16
    CategorySpan = 8
    CodeDigits = 1
    Calls = {"until", "payload", "thread"}
    Sightings <- MCSightings
    Labels <- MCLabels
    Wanted = {"B"}
    Capacity = 1
    SCAN_WINDOW = 1
    Timeout = 2
    MaxHeard <- MCMaxHeard
SPECIFICATION ScansSpec
INVARIANTS
    PauseStands
    EachReturnedOnce
    PayloadTarget
PROPERTIES
    PauseReturns
    ScanResumes
    
