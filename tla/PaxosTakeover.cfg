SPECIFICATION Spec
CONSTANTS
    Node = {1, 2, 3}
    v1 = v1
    v2 = v2
    Value = {v1, v2}
    NoValue = NoValue
    MaxNumber <- TakeoverNumbers
    MaxInstance = 1
    Clients <- OneClient
    Drivers = {1, 2, 3}
    Lost <- TakeoverLost
    Syncs <- ChainSync
CHECK_DEADLOCK FALSE
INVARIANTS TypeOK NeverAbandoned LearnerConsistent
