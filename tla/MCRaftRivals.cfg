SPECIFICATION RaftFairSpec
CONSTANTS
    Server = {n1, n2}
    NoServer = NoServer
    Contender = {n1, n2}
    MaxTerm = 2
    MaxLog = 0
    MaxAppends = 1
INVARIANTS
    ElectedByMajority
    KnownLeadersWereElected
PROPERTIES
    CandidaciesEnd
    DeposedLeadersStop
CHECK_DEADLOCK FALSE
