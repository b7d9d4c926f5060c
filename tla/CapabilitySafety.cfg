\* Three pages, two sessions, an ECU that changes what it advertises.
SPECIFICATION Spec
CONSTANTS
    Span = 2
    PageCount = 3
    Decodable <- SomeDecodable
    Unknown = Unknown
    MaxConnects = 2
    MaxChanges = 2
INVARIANTS
    OnlyClaimedIsAsked
    WarnedOfRealChange
    DoubleIsDiscovered
    StatusIsTrue
PROPERTIES
    UnknownIsNotEmpty
