SPECIFICATION FairSpec
CONSTANTS
    ble = ble ip = ip None = None
    Accessories <- MCAccessories
    Ble <- MCBle
    MAX_SESSION_FAILURES = 2
    MaxIdentities = 2
    MaxPairings = 2
    MaxGsn = 2
    MaxCrashes = 1
INVARIANTS IdentityDurable SnapshotFaithful RecordsWork NoOrphans
PROPERTIES RevokedWaitEnds
