CONSTANTS
    c1 = c1
    c2 = c2
    c3 = c3
    Controllers = {c1, c2, c3}
    Misinformed = {c3}
    MaxAttempts = 3
    MaxFresh = 4
    SrpN = 10007
    SrpG = 5
    Radix = 256
    SrpK = 4975
    Scramblers = 7
    Exponent <- MCExponent
    Spellings <- MCSpellings
    DeviceCode <- MCDeviceCode
    CodeDigits = 2
    Privates = {1, 9}
    Salts = {1, 4}
    MaxStarts = 2
    MaxTurns = 7
    MaxFragment = 2
    Byte = 4
    TagLength = 2
    MAX_RESPONSE_FRAGMENTS = 4
    Exchanges <- MCExchanges
    Batches <- MCBatches
    Lamp = 9
    Database <- MCDatabase
    MaxCalls = 3
    MaxPushes = 2
    Iids = {1, 2}
    FormatMaps <- MCFormatMaps
    WriteValues <- MCWriteValues
    MaxOps = 3
    DbFragment = 20
    ServiceTable <- MCServiceTable
    TypeTable <- MCTypeTable
    FormatTable <- MCFormatTable
    MAX_OP_RECONNECTS = 2
    Accessories <- MCAccessories
    MaxDrops = 4
SYMMETRY MCSymmetry
SPECIFICATION WireSpec
INVARIANTS
    SetupAgreement
    SessionAgreement
    SrpAgreement
    
    DatabaseKept
PROPERTIES
    BatchAligned
    
CHECK_DEADLOCK FALSE
