SPECIFICATION RaftSpec
CONSTANTS
    Server = {n1, n2, n3}
    NoServer = NoServer
    Contender = {n1, n2}
    MaxTerm = 1
    MaxLog = 0
    MaxAppends = 1
INVARIANTS
    OneVotePerTerm
CHECK_DEADLOCK FALSE
