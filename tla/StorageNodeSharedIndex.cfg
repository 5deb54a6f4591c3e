SPECIFICATION Spec
CONSTANTS
    d1 = d1
    d2 = d2
    t1 = t1
    Layout <- TwoDatabases
    Keys = {k1}
    Dead = Dead
    MaxRows = 2
INVARIANT OneFilePerIndex
