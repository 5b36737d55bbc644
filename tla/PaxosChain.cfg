SPECIFICATION FaultSpec
CONSTANTS
    Node = {1, 2, 3}
    v1 = v1
    v2 = v2
    Value = {v1, v2}
    NoValue = NoValue
    MaxNumber <- ChainNumbers
    MaxInstance = 2
    Clients <- BothValues
    Drivers = {}
    Lost <- ChainLost
    Syncs <- ChainSync
    Crashers = {}
    Reporters = {2, 3}
    MaxFaults = 1
SYMMETRY ValueSymmetry
CHECK_DEADLOCK FALSE
INVARIANTS UpdatesChosen
PROPERTIES ImplementsChain InstanceMonotonic
