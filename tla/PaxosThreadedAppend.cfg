SPECIFICATION ThreadSpec
CONSTANTS
    Node = {1, 2, 3}
    v1 = v1
    v2 = v2
    Value = {v1, v2}
    NoValue = NoValue
    MaxNumber <- AppendNumbers
    MaxInstance = 1
    Clients <- OneClient
    Drivers = {3}
    Lost <- AppendLost
    Syncs <- NoSync
    Appends <- AppendAt3
CHECK_DEADLOCK FALSE
INVARIANTS ChosenIsStable
