SPECIFICATION LockFairSpec
CONSTANTS
    r1 = r1
    r2 = r2
    r3 = r3
    s1 = s1
    s2 = s2
    Base <- MCBase
    NoBase = ""
    Session = {s1, s2}
    Data = {r1, r2, r3}
    NoSession = NoSession
    NoData = NoData
    InputPath = {}
    MaxSeq = 3
    Radix = 3
    Width = 2
    MaxVersion = 1
    Request = {r1, r2}
    Lock = {"a"}
    NameOf <- MCNameOf
    SessionOf <- MCSessionOf
    TimeoutOf <- AllTimed
    ClientPath <- OnlyLocksDir
    ManagerNotified = FALSE
PROPERTIES
    DeletionsNotify
CHECK_DEADLOCK FALSE
