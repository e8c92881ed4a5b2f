SPECIFICATION WatchesSpec
CONSTANTS
    Base <- MCBase
    Session = {s1}
    Data = {d}
    NoBase = ""
    NoSession = NoSession
    NoData = NoData
    InputPath <- MCInputPath
    MaxSeq = 1
    MaxVersion = 2
    Watcher = {w1, w2}
    WatchPath <- MCWatchPath
    Absent = Absent
    ChannelCap = 1
    MaxPending = 2
SYMMETRY Symmetry
INVARIANTS
    StoreTypeOK
    ParentsExist
    ChildrenMirrorNodes
    EphemeralsAreLeaves
    WatchesTypeOK
    ChannelsMatchWatches
    OneTimeFiresOnce
    CacheConverges
