SPECIFICATION FaultSpec
CONSTANTS
    Node = {1, 2, 3}
    v1 = v1
    v2 = v2
    Value = {v1, v2}
    NoValue = NoValue
    MaxNumber <- ForgetNumbers
    MaxInstance = 1
    Clients <- TwoClients
    Drivers = {}
    Lost <- ForgetLost
    Syncs <- NoSync
    Crashers = {3}
    Reporters = {}
    MaxFaults = 1
CHECK_DEADLOCK FALSE
INVARIANTS ChosenIsStable
