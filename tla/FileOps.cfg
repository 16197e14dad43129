SPECIFICATION Spec
CONSTANTS
    Texts <- MCTexts
    Names = {"r", "d", "e", "f"}
    Dirs <- MCDirs
    Files <- MCFiles
    Roots <- MCRoots
    Hosts <- MCHosts
    Paths <- MCPaths
    Needles <- MCNeedles
    Limits = {0, 1, 2, 3}
    OutputFloor = 5
    RowSlack = 3
    Word = 16
    Absent = Absent
    Failed = Failed
    NoAnswer = NoAnswer
    NoRequest = NoRequest
INVARIANTS
    TailShowsLastLines
    GrepShowsMatches
    FallbackAgrees
    ServersAgree
