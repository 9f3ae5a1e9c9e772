SPECIFICATION Spec
CONSTANTS
    ProjectTypes = {"FLYER", "CAROUSEL"}
    MaxVersions = 2
INVARIANTS
    TypeOK
    FinalDesignIsVerified
    PassedGatesStaySigned
    LineageIsCurrent
    ResourcesAreComplete
PROPERTIES
    KeepsContract
CHECK_DEADLOCK FALSE
