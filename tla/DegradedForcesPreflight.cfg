SPECIFICATION Spec
CONSTANTS
    high = high
    highAsync = highAsync
    lowAsync = lowAsync
    Nobody = nobody
    Approvals = {a1}
    Calls <- MCCalls
    HighRisk <- MCHighRisk
    Async <- MCAsync
INVARIANT DegradedForcesPreflight
