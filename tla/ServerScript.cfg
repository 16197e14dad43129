SPECIFICATION LiveSpec
CONSTANTS
    Scripts = {s1, s2}
    Pids = {p1, p2}
    NoPid = NoPid
    Missing = Missing
    WaitRounds = 1
    DiskFaults = TRUE
INVARIANTS
    NoLostServer
    OneServer
PROPERTIES
    StopLeavesNone
    StopTakesEffect
    ScriptsEnd
