\* Any buffer of at most 7 bytes; one to three frames behind any sort of echo.
SPECIFICATION Spec
CONSTANTS
    Base = 3
    Fmt = 1
    Target = 2
    MaxData = 2
    MaxFrames = 2
    MaxLength = 7
    Request <- MCRequest
    Lines <- MCLines
INVARIANTS
    ReplySurvives
    EveryByteOnce
    OnlyProvenFrames
    SplitsAtHeaders
