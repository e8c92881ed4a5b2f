SPECIFICATION KeepaliveFairSpec
CONSTANTS
    Base <- MCBase
    NoBase = ""
    Session = {s1, s2}
    Data = {d}
    NoSession = NoSession
    NoData = NoData
    InputPath <- MCInputPath
    MaxSeq = 0
    MaxVersion = 1
    TTLInput <- MCTTLInput
    DefaultTTL = 1
    MaxTTL = 3
    ClientTTL = 4
INVARIANTS
    KeepaliveTypeOK
    OneLossIsHarmless
    LeaksAreKnown
PROPERTIES
    LiveSessionsKeepEphemerals
    SilentClientsAreCleanedUp
    CloseStopsHeartbeats
    OnlyTheLastSessionIsKept
