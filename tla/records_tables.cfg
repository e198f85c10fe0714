\* Two handlers on all four tables, with codes that collide after trimming and
\* room for another unit, no failures; a client may ask for a status of another
\* table or for none.
CONSTANTS
    site1 = site1
    unit1 = unit1
    fault1 = fault1
    action1 = action1
    unit2 = unit2
    q1 = q1
    q2 = q2
    f1 = f1
    f2 = f2
    Records = {site1, unit1, unit2, fault1}
    TypeOf <- MCTypeOf
    Seeded = {site1, unit1, fault1}
    SeedCode <- MCSeedCode
    SeedStatus <- MCSeedStatus
    Codes = {"001", "002"}
    RawCodes = {"001", " 001", "002", " "}
    Canonical <- MCCanonical
    Fields = {f1}
    Requests = {q1, q2}
    Targets = {"tripped", "mitigated", "no status"}
    Lookahead = 0
    Faults = FALSE
    MaxVersion = 2
SYMMETRY Interchangeable
CONSTRAINT FewWrites
SPECIFICATION Spec
INVARIANTS
    TypeOK
    CodesUnique
    EveryChangeAudited
