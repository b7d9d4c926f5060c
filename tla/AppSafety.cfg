\* The app over a fixed port or a picked one: dialogs, tabs, reads, clears, polls.
SPECIFICATION UiSpec
CONSTANTS
    Live = live
    EcuWorkers = {ecu1, ecu2}
    MaxAttempts = 3
    MaxCancels = 1
    MaxOps = 3
    MaxClears = 1
    MaxTabs = 2
SYMMETRY UiWorkerSymmetry
INVARIANTS
    TitleSettles
    PublishedIsLive
    CurrentIsTheAttempt
    QuietPorts
    SpinnerHasOwner
    OneErrorDialog
PROPERTIES
    ImplementsHeldSession
