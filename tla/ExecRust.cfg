SPECIFICATION Spec
CHECK_DEADLOCK FALSE
CONSTANTS
    Shell = "sh"
    Background = {"bg"}
    OwnCodes = {0, 1}
    Signalled = Signalled
    Running = Running
    NoReply = NoReply
    PipeSize = 2
    MaxWrites = 0
    Disconnects = TRUE
    SystemFaults = TRUE
INVARIANTS
    ReapedAtReturn
    AllOutputRead
PROPERTIES
    EveryExecEnds
