\* Four records, written at two times, and pages of one or two of them.
CONSTANTS
    Ids = {1, 2, 3, 4}
    AskedSizes = {0, 2, 3}
    DefaultSize = 1
    MaxSize = 2
    MaxStamp = 1
SPECIFICATION Spec
INVARIANTS
    TypeOK
    UntouchedShown
    RepeatsExplained
PROPERTIES
    TotalExplained
