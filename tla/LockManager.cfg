SPECIFICATION LockSpec
CONSTANTS
    Rids = {r1, r2}
    MaxTxns = 3
    Attached = TRUE
INVARIANTS
    ExclusiveIsAlone
    OwnershipMatchesTable
    NoEmptyEntries
    FinishedHoldsNothing
PROPERTIES
    ImplementsRowLocks
