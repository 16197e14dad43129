SPECIFICATION Spec
CHECK_DEADLOCK FALSE
CONSTANTS
    Programs = {"mcp", "client"}
    MaxLines = 3
    Default = "default"
    NoRequest = NoRequest
    Ids = {"1", "null"}
    NoId = "no id"
    NoName = "no name"
    Numerals = {"7"}
    Noes = {"no"}
    Uses <- MCUses
INVARIANTS
    AnswersInOrder
    DoneOnceIfAsked
    SchemaHonoured
    CommandLineObeyed
PROPERTIES
    EveryRequestAnswered
