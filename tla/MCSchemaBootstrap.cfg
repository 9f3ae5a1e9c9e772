SPECIFICATION FairSpec
CONSTANTS
    Instances = {i1, i2, i3}
    N = 3
    Creating = {1, 2}
    Faults = {"database", "crash"}
INVARIANTS
    TypeOK
    AppliedInOrder
    NeverLockedOut
    ReadyMeansComplete
    SomebodyGetsThrough
PROPERTIES
    EveryStartEnds
CHECK_DEADLOCK FALSE
