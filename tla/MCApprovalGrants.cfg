SPECIFICATION FairSpec
CONSTANTS
    Calls = {c1, c2}
    Tokens = {g1, g2}
    Faults = {"database", "crash"}
    MaxVersion = 2
    MaxUses = 2
INVARIANTS
    TypeOK
    OneUseAtATime
    ApprovedAsClicked
    UsedOnceUnlessLost
PROPERTY EveryClaimSettles
CHECK_DEADLOCK FALSE
