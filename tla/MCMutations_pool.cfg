SPECIFICATION FairSpec
CONSTANTS
    Calls = {c1, c2}
    Creates = {k1, k2}
    Identities = {v1}
    Base = v1
    Results = {x}
    PoolSize = 2
    Faults = {}
    None = None
INVARIANT PoolNeverStarves
CHECK_DEADLOCK FALSE
