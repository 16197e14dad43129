SPECIFICATION Spec
CHECK_DEADLOCK FALSE
CONSTANTS
    Shell = "sh"
    Background = {"bg"}
    OwnCodes = {0, 1}
    Signalled = Signalled
    Running = Running
    NoReply = NoReply
    PipeSize = 2
    MaxWrites = 1
    Disconnects = FALSE
    SystemFaults = FALSE
PROPERTIES
    TimeoutEndsCall
