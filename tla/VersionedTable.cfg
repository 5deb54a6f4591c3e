SPECIFICATION Spec
CONSTANTS
    NumIndexes = 2
    Keys = {k1, k2}
    Null = Null
    MaxRows = 2
    MaxLog = 3
    MaxTime = 2
    MaxFailed = 1
    MaxBeyond = 1
SYMMETRY KeySymmetry
INVARIANTS
    FirstIndexSound
    IndexesMatchHeap
PROPERTIES
    RevertRestores
CHECK_DEADLOCK FALSE
