SPECIFICATION MCSpec
CONSTANTS
    Keys <- MCKeys
    MinDegrees = {2, 3}
    MaxPages = 30
    MaxKey = 22
    FewKeys = 6
    MaxFree = 1
INVARIANTS
    WellFormed
    RangesMatchLookups
PROPERTIES
    ImplementsKeySet
CHECK_DEADLOCK FALSE
