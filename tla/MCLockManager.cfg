SPECIFICATION LockSpec
CONSTANTS
    r1 = r1
    r2 = r2
    r3 = r3
    s1 = s1
    s2 = s2
    Base <- MCBase
    NoBase = ""
    Session = {s1, s2}
    Data = {r1, r2, r3}
    NoSession = NoSession
    NoData = NoData
    InputPath = {}
    MaxSeq = 3
    Radix = 3
    Width = 2
    MaxVersion = 1
    Request = {r1, r2, r3}
    Lock = {"a"}
    NameOf <- MCNameOf
    SessionOf <- MCSessionOf
    TimeoutOf <- MCTimeoutOf
    ClientPath <- MCClientPath
    ManagerNotified = TRUE
INVARIANTS
    LockTypeOK
    MutualExclusion
    NoOvertaking
    NoNodeLeftBehind
    QueueInv
    WaitersAreWaiting
    NamesSortByAge
    SequenceReadsBack
PROPERTIES
    ImplementsFairLock
CHECK_DEADLOCK FALSE
