SPECIFICATION SessionsSpec
CONSTANTS
    Base <- MCBase
    NoBase = ""
    Session = {s1, s2}
    Data = {d}
    NoSession = NoSession
    NoData = NoData
    InputPath <- MCInputPath
    MaxSeq = 1
    MaxVersion = 1
    TTLInput <- MCTTLInput
    DefaultTTL = 1
    MaxTTL = 2
INVARIANTS
    ExpiredSessionsAreCleanedUp
