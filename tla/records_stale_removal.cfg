\* No failures: does the audit row of a removal name the status removed?
CONSTANTS
    site1 = site1
    unit1 = unit1
    fault1 = fault1
    action1 = action1
    unit2 = unit2
    q1 = q1
    q2 = q2
    f1 = f1
    f2 = f2
    Records = {unit1}
    TypeOf <- MCTypeOf
    Seeded = {unit1}
    SeedCode <- MCSeedCode
    SeedStatus <- MCSeedStatus
    Codes = {"001"}
    RawCodes = {}
    Canonical <- MCCanonical
    Fields = {f1}
    Requests = {q1, q2}
    Targets = {"warning", "online"}
    Lookahead = 0
    Faults = FALSE
    MaxVersion = 2
SYMMETRY Interchangeable
SPECIFICATION Spec
INVARIANTS
    RemovalAuditTruthful
