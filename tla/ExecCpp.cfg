SPECIFICATION Spec
CHECK_DEADLOCK FALSE
CONSTANTS
    Shell = "sh"
    Background = {"bg"}
    OwnCodes = {0, 1, 124}
    Signalled = Signalled
    Running = Running
    NoReply = NoReply
    PipeSize = 2
    MaxWrites = 4
    ReadSize = 1
    ReadFaults = TRUE
INVARIANTS
    ReapedAtReturn
    ShellOutputRead
PROPERTIES
    Promise
