SPECIFICATION ServiceFairSpec
CONSTANTS
    r1 = r1
    r2 = r2
    s1 = s1
    s2 = s2
    Base <- MCBase
    NoBase = ""
    Session = {s1, s2}
    Data = {r1, r2}
    NoSession = NoSession
    NoData = NoData
    InputPath = {}
    MaxSeq = 2
    MaxVersion = 1
    Request = {r1, r2}
    Lock = {"a"}
    NameOf <- MCNameOf
    SessionOf <- MCSessionOf
    TimeoutOf <- MCTimeoutOf
    ClientPath <- MCClientPath
    ManagerNotified = FALSE
    TTLInput = {1}
    DefaultTTL = 1
    MaxTTL = 1
INVARIANTS
    ServiceTypeOK
    BeliefsAreTrue
    ClientExclusion
    LeaksAreKnown
PROPERTIES
    ImplementsLockManager
    LockCallsReturn
    SilentHoldersLoseTheirLocks
