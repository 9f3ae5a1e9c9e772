SPECIFICATION Spec
CONSTANTS
    Requests <- SomeRequests
INVARIANTS
    TypeOK
    RefusedForItsInput
    CutsAreMarked
    TextStaysInItsBox
    
CHECK_DEADLOCK FALSE
