SPECIFICATION AgentSpec
CONSTANTS
    agent = agent
    tenant = tenant
    otherTenant = otherTenant
    task = task
    none = none
    high = high
    lowAsync = lowAsync
    Agent = agent
    Tenant = tenant
    Absent = none
    Messages <- MCMessages
    RevokedMax = 1
    WireMax = 1
    DropsMax = 1
    Calls <- MCCalls
    HighRisk <- MCHighRisk
    Async <- MCAsync
    Approvals = {}
    Nobody = nobody
    Task = itsTask
INVARIANTS KilledNeverRuns RevokedOnlyByKill StrictAwaitsSubscription
PROPERTY ImplementsCalls
