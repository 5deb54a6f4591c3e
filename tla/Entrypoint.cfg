SPECIFICATION EntrypointFairSpec
CONSTANTS
    Nodes <- MCNodes
    Positions <- MCPositions
    Slots <- MCSlots
    StartNodes = {1, 2}
    Clients = {c}
    Statements <- AnyStatements
    HashOf <- MCHash
    NodeStates <- MCNodeStates
INVARIANTS
    RingMatchesNodes
    RoutesWheneverPossible
PROPERTIES
    MinimalRemap
    HealthConverges
CHECK_DEADLOCK FALSE
