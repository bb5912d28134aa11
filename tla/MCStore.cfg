SPECIFICATION StoreSpec
CONSTANTS
    t1 = t1 t2 = t2 ble = ble ip = ip keypair = keypair
    f1 = f1 f2 = f2
    None = None Torn = Torn
    Tasks <- MCTasks
    Ids <- MCIds
    Identities <- MCIdentities
    Pairings <- MCPairings
    Broadcasts <- MCBroadcasts
    Inodes <- MCInodes
    MaxCalls = 3
    MaxCrashes = 1
    Radix16 = 4
    Letters = 2
    KeyBytes = 1
    IdBytes = 2
    Keypairs <- MCKeypairs
    Stored <- MCStored
    Materials <- MCMaterials
    Queries <- MCQueries
    OldDocuments <- MCOldDocuments
    MaxSaves = 4
    Crates <- MCCrates
    Workspaces <- MCWorkspaces
    Needs <- MCNeeds
    RootLocks <- MCRootLocks
    Workflows <- MCWorkflows
    Missing = Missing
    MaxRuns = 2
    MaxUpdates = 1
INVARIANTS StoredAsSaved LocksInStep
PROPERTY AtomicStore
CHECK_DEADLOCK FALSE
