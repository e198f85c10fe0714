\* Failures allowed: is every committed move in the audit table?
CONSTANTS
    site1 = site1
    unit1 = unit1
    fault1 = fault1
    action1 = action1
    unit2 = unit2
    q1 = q1
    q2 = q2
    f1 = f1
    f2 = f2
    Records = {action1}
    TypeOf <- MCTypeOf
    Seeded = {action1}
    SeedCode <- MCSeedCode
    SeedStatus <- MCSeedStatus
    Codes = {"001"}
    RawCodes = {}
    Canonical <- MCCanonical
    Fields = {f1}
    Requests = {q1}
    Targets = {"draft", "executing"}
    Lookahead = 0
    Faults = TRUE
    MaxVersion = 2
SPECIFICATION Spec
INVARIANTS
    EveryMoveAudited
