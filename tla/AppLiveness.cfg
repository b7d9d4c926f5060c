\* Under a fair event loop and fair threads every connect is answered.
SPECIFICATION UiFairSpec
CONSTANTS
    Live = live
    EcuWorkers = {ecu1}
    MaxAttempts = 2
    MaxCancels = 1
    MaxOps = 3
    MaxClears = 1
    MaxTabs = 1
PROPERTIES
    SpinnerEnds
    ConnectAnswered
