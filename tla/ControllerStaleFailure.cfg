\* A failure over a session that was replaced.
SPECIFICATION Spec
CONSTANTS
    Live = live
    EcuWorkers = {ecu1, ecu2}
    MaxAttempts = 2
    MaxCancels = 0
    MaxOps = 3
    MaxClears = 0
PROPERTIES
    FailureClosesItsOwn
