SPECIFICATION Spec
CONSTANTS
    Node = {1, 2, 3}
    v1 = v1
    v2 = v2
    Value = {v1, v2}
    NoValue = NoValue
    MaxNumber <- DuelNumbers
    MaxInstance = 1
    Clients <- TwoClients
    Drivers = {}
    Lost <- DuelLost
    Syncs <- NoSync
CHECK_DEADLOCK FALSE
INVARIANTS ChosenIsStable OneValuePerProposal PreparedAccepts
