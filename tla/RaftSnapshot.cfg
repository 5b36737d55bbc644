SPECIFICATION FairSpec
CONSTANTS
    Node = {1, 2, 3}
    Fragile <- OneLink
    MaxBreaks = 1
    Command = {1, 2}
    Caller <- AtLeader
    None = None
    QueueSize = 4
    MaxCommandsPerTick = 4
    Pieces = 1
    Candidates <- Node1Leads
    MaxTerm = 1
    MaxInFlight = 3
    MaxBeats = 1
    Compactors = {1}
    MaxCompactions = 1
INVARIANTS AppliedAgreement TickThreadAlive
PROPERTIES LeaderAnswers CatchesUp
