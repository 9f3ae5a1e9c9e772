SPECIFICATION Spec
CONSTANTS
    c1 = c1
    c2 = c2
    Calls <- TwoCalls
    Keys = {"k1", "k2"}
    FirstKey = "k1"
    Tokens <- SomeTokens
    Tools <- SomeTools
    Ttl = 2
    Limits = {0, 2}
    MaxTime = 3
SYMMETRY Either
INVARIANTS
    TypeOK
    RotatedKeysAreKnown
PROPERTIES
    AdmittedOnGoodToken
    LimitIsExact
CHECK_DEADLOCK FALSE
