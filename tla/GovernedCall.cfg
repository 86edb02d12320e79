SPECIFICATION LiveSpec
CONSTANTS
    high = high
    highAsync = highAsync
    lowAsync = lowAsync
    Approvals = {a1, a2}
    Nobody = nobody
    Calls <- MCContenders
    HighRisk <- MCContenders
    Async <- MCAsyncContender
INVARIANTS TypeOK GatedExecution OneRunPerApproval AuditTellsTheTruth ConsumedApprovalsAudited ReplayIsSomeoneElses KillSwitchGate
PROPERTY EveryCallEnds
