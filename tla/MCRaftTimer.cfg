SPECIFICATION RaftFairSpec
CONSTANTS
    Server = {n1, n2}
    NoServer = NoServer
    Contender = {n1, n2}
    MaxTerm = 1
    MaxLog = 0
    MaxAppends = 1
PROPERTIES
    FollowersStartElections
CHECK_DEADLOCK FALSE
