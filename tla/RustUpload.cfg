SPECIFICATION RustSpec
CONSTANTS
    h1 = h1
    h2 = h2
    t1 = t1
    a = a
    old = old
    i1 = i1
    i2 = i2
    i3 = i3
    i4 = i4
    Handlers = {h1, h2}
    Uploads = {"u1", "u2"}
    Targets = {t1}
    Inodes = {i1, i2, i3, i4}
    BadPath = BadPath
    Blocks <- MCBlocks
    Chunks <- MCChunks
    Sizes = {1}
    Overwrites = {TRUE}
    MaxUploadFileSize = 1
    OldInode <- MCOldInode
    OldData <- MCOldData
    NoFile = NoFile
    NoSession = NoSession
    NoId = NoId
    NoPerms = NoPerms
    Callers = "careful"
    DiskFaults = TRUE
    MaxCrashes = 1
    MaxInits = 2
    MaxTies = 1
SYMMETRY Threads
INVARIANTS
    NoOrphan
    WholeOrTold
PROPERTIES
    ImplementsStoreUnlessTold
