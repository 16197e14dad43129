SPECIFICATION SystemSpec
CHECK_DEADLOCK FALSE
CONSTANTS
    c1 = c1
    c2 = c2
    h1 = h1
    h2 = h2
    t1 = t1
    a = a
    b = b
    d = d
    old = old
    i1 = i1
    i2 = i2
    i3 = i3
    i4 = i4
    i5 = i5
    BadPath = BadPath
    NoFile = NoFile
    NoSession = NoSession
    NoId = NoId
    NoPerms = NoPerms
    NoCall = NoCall
    Broken = Broken
    Handlers = {h1, h2}
    Uploads = {"u1", "u2"}
    Targets = {t1}
    Inodes = {i1, i2, i3, i4, i5}
    Blocks <- MCBlocks
    Chunks <- MCChunks
    Sizes = {0, 1, 2}
    Overwrites = {TRUE, FALSE}
    MaxUploadFileSize = 3
    OldInode <- MCOldInode
    OldData <- MCOldData
    Callers = "any"
    DiskFaults = FALSE
    MaxCrashes = 1
    Clients = {c1, c2}
    Kind <- MCMixed
    Path <- MCPath
    Overwrite <- MCOverwrite
    Payload <- MCPayload
    Declared <- MCDeclared
    ChunkSize = 1
    MaxLosses = 2
    MaxInits = 2
    MaxTies = 0
    Servers = {"cpp", "rust"}
INVARIANTS
    OneWriterPerUpload
    TargetsArePayloads
    CleanAfterOk
    OkMeansInstalled
PROPERTIES
    EveryUploadReturns
