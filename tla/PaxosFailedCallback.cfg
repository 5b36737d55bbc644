SPECIFICATION FaultSpec
CONSTANTS
    Node = {1, 2, 3}
    v1 = v1
    v2 = v2
    Value = {v1, v2}
    NoValue = NoValue
    MaxNumber <- ChainNumbers
    MaxInstance = 1
    Clients <- BothValues
    Drivers = {}
    Lost <- ChainLost
    Syncs <- NoSync
    Crashers = {}
    Reporters = {1}
    MaxFaults = 1
CHECK_DEADLOCK FALSE
INVARIANTS PreparedAccepts
