\* Three entries of two actors about two records at up to three times, read page by
\* page, record by record, or counted for windows that are too short and too long.
CONSTANTS
    e1 = e1
    e2 = e2
    e3 = e3
    a1 = a1
    a2 = a2
    r1 = r1
    r2 = r2
    Slots = {e1, e2, e3}
    Actors = {a1, a2}
    Entities = {r1, r2}
    AskedLimits = {0, 1, 3}
    DefaultLimit = 1
    MaxLimit = 2
    PageSize = 1
    AskedWindows = {0, 2}
    DefaultWindow = 1
    MaxWindow = 1
    MaxTime = 2
SYMMETRY Interchangeable
SPECIFICATION Spec
INVARIANTS
    TypeOK
    SummaryGrows
    EntriesShown
PROPERTIES
    HistoryDropsOldest
