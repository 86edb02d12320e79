SPECIFICATION LiveSpec
CONSTANTS
    ApprovalTimeout = 7
    PollInterval = 3
    RpcMax = 3
    Slack = 2
INVARIANTS TypeOK WaitBounded TimeoutNotEarly PollsBounded
PROPERTIES WaitAdvances WaitEnds
CHECK_DEADLOCK FALSE
