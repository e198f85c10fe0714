\* A page of fault events, empty at first; two calls at a time, other clients,
\* and requests that fail before or after they take effect.
CONSTANTS
    r1 = r1
    c1 = c1
    c2 = c2
    Records = {r1}
    TypeOf <- MCTypeOf
    Seeded = {}
    SeedCode <- MCSeedCode
    SeedStatus <- MCSeedStatus
    Codes = {"001"}
    Fields = {"f"}
    Page = "FaultEvent"
    Calls = {c1, c2}
    Searches <- MCSearches
    Faults = TRUE
    Keyboard = FALSE
    MaxVersion = 3
SPECIFICATION Spec
INVARIANTS
    TypeOK
PROPERTIES
    MoveAsShown
    RefusedOnlyIfStale
    ReviewedFirst
    MoveIsListed
    BackOnlyByOverlap
    ServerRows
    BusyEnds
CHECK_DEADLOCK FALSE
