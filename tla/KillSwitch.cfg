SPECIFICATION LiveSpec
CONSTANTS
    agent = agent
    otherAgent = otherAgent
    tenant = tenant
    otherTenant = otherTenant
    task1 = task1
    task2 = task2
    none = none
    Agent = agent
    Tenant = tenant
    Absent = none
    Messages <- MCMessages
    RevokedMax = 2
    WireMax = 2
    DropsMax = 2
INVARIANTS TypeOK KillsEnforced OnlyOwnKills HealthTracksLoop StoppedNearlyDown
PROPERTIES RevocationSticky ImplementsCache DeliveredKillEnforced Resubscribes StoppedStaysDown
