\* Three attempts, over a cable that echoes and over one that does not.
SPECIFICATION Spec
CONSTANTS
    InitRetries = 3
    MaxNoise = 2
    MaxLate = 3
INVARIANTS
    UpMeansAccepted
PROPERTIES
    FailsForAReason
