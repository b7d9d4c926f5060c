\* Three codes over two frames, lost and repeated; the bike and the cables change
\* between the steps of the commands.
SPECIFICATION CliSpec
CONSTANTS
    Codes <- SomeCodes
    PerFrame = 2
    DtcRetries = 2
    MaxCalls = 2
    MaxChanges = 1
    Ports <- Cables
    LikelyKkl <- Cables
    NoPort = "none"
    MockPort = "mock"
    MaxRuns = 2
    MaxPlugs = 1
INVARIANTS
    NoFalseClean
    CompleteUnlessWarned
    ListIsSound
    TruthfulOutput
    ClosedAtExit
PROPERTIES
    ClearsOnlyConfirmed
