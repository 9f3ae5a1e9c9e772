SPECIFICATION Spec
CONSTANTS
    Flows = {f1, f2}
    Requests = {r1, r2}
    Ttl = 1
    MaxStates = 2
    MaxNow = 3
SYMMETRY Symmetry
INVARIANTS
    TypeOK
    ExchangedOnce
    TokensReachTheirFlow
    NoExpiredExchange
CHECK_DEADLOCK FALSE
