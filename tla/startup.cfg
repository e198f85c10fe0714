\* Every boot from the first on, two failures, records created and removed.
CONSTANTS
    site1 = site1
    site2 = site2
    unit1 = unit1
    fault1 = fault1
    action1 = action1
    f1 = f1
    Records = {site1, site2, unit1, fault1, action1}
    TypeOf <- MCTypeOf
    Seeded = {site1, unit1, fault1, action1}
    SeedCode <- MCSeedCode
    SeedStatus <- MCSeedStatus
    Codes = {"001", "002"}
    Fields = {f1}
    MaxAttempts = 2
    Blank = Blank
    NotANumber = NotANumber
    Environments <- Every
    MaxFaults = 2
SPECIFICATION FairSpec
INVARIANTS
    TypeOK
    ServingIsReady
    SettingsUsable
PROPERTIES
    BootKeepsRecords
    HealthyUnlessPurged
