SPECIFICATION Spec
CONSTANTS
    Node = {1, 2, 3}
    Fragile = {}
    MaxBreaks = 0
    Command = {1, 2}
    Caller <- Callers
    None = None
    QueueSize = 4
    MaxCommandsPerTick = 4
    Pieces = 1
    Candidates <- InTurn
    MaxTerm = 2
    MaxInFlight = 3
    MaxBeats = 1
    Compactors = {1}
    MaxCompactions = 0
INVARIANTS TypeOK CommittedInLog LogMatching AppliedAgreement LeaderComplete TruthfulAnswers AtMostOnce
