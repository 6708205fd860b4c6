CONSTANTS
    secret = secret
    policy = policy
    v = v
    Names = Names
    Absent = Absent
    NoEntry = NoEntry
    Nobody = Nobody
    AutoRepair = TRUE
    g1 = g1
    g2 = g2
    Callers <- MCCallers
    Program <- MCProgram
    MaxFaults = 1
    Items <- MCItems
    Metadata <- MCMetadata
    Values = {v}
    Writes <- MCWrites
SPECIFICATION FairSpec
INVARIANTS
    TypeOK
    SessionIsOwned
    ReadIsCurrent
    CacheKeepsUp
PROPERTIES
    EveryCallReturns
