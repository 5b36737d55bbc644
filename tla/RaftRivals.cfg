SPECIFICATION Spec
CONSTANTS
    Node = {1, 2, 3}
    Fragile <- RivalLink
    MaxBreaks = 1
    Command = {1, 2}
    Caller <- AtFollower
    None = None
    QueueSize = 4
    MaxCommandsPerTick = 4
    Pieces = 1
    Candidates <- Rivals
    MaxTerm = 1
    MaxInFlight = 3
    MaxBeats = 1
    Compactors = {1}
    MaxCompactions = 0
INVARIANT AppliedAgreement
