SPECIFICATION RaftSpec
CONSTANTS
    Server = {n1, n2}
    NoServer = NoServer
    Contender = {n1, n2}
    MaxTerm = 2
    MaxLog = 1
    MaxAppends = 1
INVARIANTS
    LogMatching
CHECK_DEADLOCK FALSE
