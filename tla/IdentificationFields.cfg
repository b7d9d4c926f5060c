\* Two fields of up to three fragments, of which the client accepts two.
SPECIFICATION Spec
CONSTANTS
    Fields = {vin, name}
    MaxLength = 3
    MaxFrames = 2
    Empty = Empty
    None = None
    MaxSessions = 2
    MaxArrivals = 3
INVARIANTS
    ReportsWhatCame
PROPERTIES
    IdentityKept
