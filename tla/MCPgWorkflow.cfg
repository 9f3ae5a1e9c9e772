SPECIFICATION FairSpec
CONSTANTS
    Txns = {t1, t2}
    NoTxn = NoTxn
    ProjectTypes = {"FLYER"}
    MaxVersions <- TwoReviews
INVARIANTS
    TypeOK
    NoVersionCollision
    NobodyWaitsForAWaiter
PROPERTIES
    KeepsContract
    EveryCallEnds
CHECK_DEADLOCK FALSE
