SPECIFICATION Spec
CONSTANTS
    Calls = {c1, c2}
    Tokens = {g1}
    Faults = {"database"}
    MaxVersion = 2
    MaxUses = 2
INVARIANT UsedOnce
CHECK_DEADLOCK FALSE
