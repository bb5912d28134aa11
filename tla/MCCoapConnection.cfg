CONSTANTS
    Callers = {c1, c2}
    Accessories <- MCAccessories
    Blocks <- MCBlocks
    MAX_TRANSMISSIONS = 2
    MaxCalls = 2
    MaxEvents = 2
    EventQueue = 1
SPECIFICATION FairSpec
INVARIANTS
    OwnResponse
    WatcherGoesOn
PROPERTIES
    FailureIsFinal
    CallsReturn
