SPECIFICATION OtherSpec
CONSTANTS
    disks = disks
    folder = folder
    diskC = diskC
    diskD = diskD
    folderF = folderF
    aFile = aFile
    aTree = aTree
    aLeaf = aLeaf
    aLog = aLog
    Runs <- MCRuns
    Streaming <- MCStreaming
    Targets <- MCTargets
    Inside <- MCInside
    Items <- MCItems
    Inner <- MCInner
    Precious <- MCPrecious
    None = None
    MaxEdits = 0
    MaxFaults = 0
    Path = {"p", "q", "r"}
    Content = {1, 2}
    Orders <- MCOrders
    NoFile = NoFile
    MaxDupEdits = 1
    Pid = {1}
    Caller = {c1, c2}
    RequiredHits = 2
    HotSpan = 1
    StaleGap = 1
    Timeout = 1
    Life = 2
    Reminder = 1
    MaxTime = 3
    MaxSweeps = 4
    MaxCalls = 2
    MaxSpinFaults = 1
SYMMETRY Alike
PROPERTY LastCopyStays
INVARIANT StreakIsTrue
CHECK_DEADLOCK FALSE
