\* The chain changes between the logs and the headers of one poll.
SPECIFICATION Spec
CONSTANTS
    Half = 32
    StartBlock = 1
    FilterRange = 2
    MaxGoBackRetries = 2
    NoRecord = NoRecord
    Addresses = {a1}
    InitHeight = 2
    MaxHeight = 5
    MaxReorgs = 1
    MaxReorgDepth = 2
    FlipBacks = FALSE
    Policies <- AllPolicies
    PollerFilterRange = 2
    FirstRuns = {TRUE}
    CalmPolls = FALSE
    MaxCrashes = 0
    MaxErrors = 0
INVARIANT NoPanic
CHECK_DEADLOCK FALSE
