SPECIFICATION Spec
CONSTANTS
    Tuples <- MCTuples
    SizeOf <- MCSizeOf
    Capacity = 3
    MaxRid = 3
INVARIANTS
    PagesSound
PROPERTIES
    ImplementsHeapRows
