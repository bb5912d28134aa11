CONSTANTS
    Chars <- MCChars
    MaxSessions = 3
    MaxCn = 2
    MaxOps = 3
SPECIFICATION FairSpec
INVARIANTS
    SubscriptionsKept
    StaleCacheIsMarked
PROPERTIES
    OpsReturnUnlessHung
    
