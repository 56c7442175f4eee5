CONSTANTS
    c1 = c1
    c2 = c2
    NoOne = NoOne
    Clients <- MCClients
    NodeIds <- MCNodeIds
    TransientStart = 3
    MaxTransient = 1
    Capacity = 2
    NodeSize = 1
    MaxOps = 3
SPECIFICATION Spec
INVARIANTS TypeOK MemoryAccounting
PROPERTIES PoolRefinement CallsReturn
CHECK_DEADLOCK FALSE
