SPECIFICATION Spec
CONSTANTS
    h1 = h1
    h2 = h2
    t1 = t1
    a = a
    b = b
    old = old
    i1 = i1
    i2 = i2
    i3 = i3
    i4 = i4
    i5 = i5
    Handlers = {h1, h2}
    Uploads = {"u1"}
    Targets = {t1}
    Inodes = {i1, i2, i3, i4, i5}
    BadPath = BadPath
    Blocks <- MCBlocks
    Chunks <- MCChunks
    Sizes = {2}
    Overwrites = {TRUE, FALSE}
    MaxUploadFileSize = 2
    OldInode <- MCOldInode
    OldData <- MCOldData
    NoFile = NoFile
    NoSession = NoSession
    NoId = NoId
    NoPerms = NoPerms
    Callers = "serial"
    DiskFaults = TRUE
    MaxCrashes = 0
SYMMETRY Threads
INVARIANTS
    TargetsWhole
