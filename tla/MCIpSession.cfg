CONSTANTS
    Callers = {c1, c2}
    NoCaller = NoCaller
    Blocks = 2
    RespCap = 2
    EventCap = 1
    Drained = TRUE
    Timeouts = TRUE
    MaxReqs = 3
    MaxEvents = 2
    MaxFragment = 2
    KeyLength = 2
    MAX_BLOCK = 40
    ReadSizes = {1, 4, 60}
    MaxMessages = 2
    Conversations <- MCConversations
    BlockSizes = {3, 40}
    Damage = {0, 3}
SPECIFICATION IpSpec
INVARIANTS
    ResponseLag
    ExactlyWhatCame
    PairingsAnswered
 
CHECK_DEADLOCK FALSE
