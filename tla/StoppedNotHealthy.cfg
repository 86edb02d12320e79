SPECIFICATION Spec
CONSTANTS
    agent = agent
    otherAgent = otherAgent
    tenant = tenant
    otherTenant = otherTenant
    task1 = task1
    task2 = task2
    none = none
    Agent = agent
    Tenant = tenant
    Absent = none
    Messages <- MCFewMessages
    RevokedMax = 2
    WireMax = 1
    DropsMax = 1
INVARIANT StoppedNotHealthy
