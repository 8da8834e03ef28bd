SPECIFICATION FairSpec
CONSTANTS
    r1 = r1
    r2 = r2
    r3 = r3
    ca = ca
    cb = cb
    a1 = a1
    a2 = a2
    b1 = b1
    Nobody = Nobody
    Genesis = Genesis
    Requests <- MCRequests
    Events <- MCEvents
    Chains <- MCChains
    ChainOf <- MCChainOf
    Ts <- MCTs
    MaxBatch = 2
INVARIANTS
    TypeOK
    ChainLinked
    HeadCurrent
PROPERTIES
    WholeBatches
    ImplementsLog
    EveryRequestAnswered
CHECK_DEADLOCK FALSE
