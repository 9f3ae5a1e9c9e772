SPECIFICATION FairSpec
CONSTANTS
    Calls = {c1, c2}
    Creates = {k1, k2}
    Identities = {v1, v2}
    Base = v1
    Results = {x, y}
    PoolSize = 3
    Faults = {"database", "crash"}
    None = None
INVARIANTS
    TypeOK
    ActiveIdentityIsUnique
    CommitFindsUser
PROPERTIES
    KeepsOnce
    EveryCallEnds
CHECK_DEADLOCK FALSE
