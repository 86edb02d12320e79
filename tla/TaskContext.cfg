SPECIFICATION Spec
CONSTANTS
    c1 = c1
    c2 = c2
    main = main
    child = child
    search = search
    store = store
    k1 = k1
    k2 = k2
    agent = agent
    otherAgent = otherAgent
    tenant = tenant
    otherTenant = otherTenant
    None = none
    Contexts = {c1, c2}
    Flows = {main, child}
    Main = main
    Tools = {search, store}
    Keys = {k1, k2}
    FirstKid = k1
    NextKid = k2
    Agents = {agent}
    Agent = agent
    TenantId = tenant
    Strangers = {otherTenant}
    Allowlist <- MCAllowlist
    Override <- MCNoOverride
    TTL <- MCTTL
    Deployments <- MCDeployments
    TimeMax = 1
    EntriesMax <- MCEntries
INVARIANTS TypeOK InnermostTask
PROPERTIES TaskMatchesToken RunsWithinGrant
CHECK_DEADLOCK FALSE
