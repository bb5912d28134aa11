CONSTANTS
    Callers = {c1}
    NoCaller = NoCaller
    Blocks = 1
    RespCap = 2
    EventCap = 1
    Drained = TRUE
    Timeouts = TRUE
    MaxReqs = 2
    MaxEvents = 0
SPECIFICATION Spec
INVARIANT OwnResponse
CHECK_DEADLOCK FALSE
