SPECIFICATION RaftSpec
CONSTANTS
    Server = {n1, n2}
    NoServer = NoServer
    Contender = {n1, n2}
    MaxTerm = 1
    MaxLog = 2
    MaxAppends = 1
SYMMETRY ServerSymmetry
INVARIANTS
    RaftTypeOK
    EntriesKeepIndex
    LogsFollowTheLeader
    AppliedStaysCommitted
PROPERTIES
    AppliedInOrder
CHECK_DEADLOCK FALSE
