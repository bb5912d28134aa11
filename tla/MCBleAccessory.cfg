CONSTANTS
    caller = caller background = background
    Tasks <- MCTasks
    NoTask = NoTask
    Controller = Controller
    Signatures = {TRUE, FALSE}
    Frags = 2
    MaxOpReconnects = 1
    MaxReviveRetries = 2
    Kinds <- MCKinds
    Aborts = TRUE
    MaxDrops = 2
    MaxOps = 2
SPECIFICATION FairSpec
INVARIANTS
    SessionInStep
    RepeatsBounded
    NonceFresh
 
