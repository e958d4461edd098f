SPECIFICATION JunkSpec
CONSTANTS
    disks = disks
    folder = folder
    diskC = diskC
    diskD = diskD
    folderF = folderF
    aFile = aFile
    aTree = aTree
    aLeaf = aLeaf
    aLog = aLog
    Runs <- MCRuns
    Streaming <- MCStreaming
    Targets <- MCTargets
    Inside <- MCInside
    Items <- MCItems
    Inner <- MCInner
    Precious <- MCPrecious
    None = None
    MaxEdits = 1
    MaxFaults = 2
    Path = {"p", "q", "r"}
    Content = {1, 2}
    Orders <- MCOrders
    NoFile = NoFile
    MaxDupEdits = 0
    Pid = {1}
    Caller = {c1}
    RequiredHits = 1
    HotSpan = 1
    StaleGap = 1
    Timeout = 1
    Life = 1
    Reminder = 1
    MaxTime = 0
    MaxSweeps = 0
    MaxCalls = 0
    MaxSpinFaults = 0
INVARIANT RemovedIsAnnounced
