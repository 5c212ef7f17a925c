\* The chain changes in the middle of polls.
SPECIFICATION Spec
CONSTANTS
    Half = 32
    StartBlock = 1
    FilterRange = 2
    MaxGoBackRetries = 2
    NoRecord = NoRecord
    Addresses = {a1}
    InitHeight = 2
    MaxHeight = 3
    MaxReorgs = 2
    MaxReorgDepth = 2
    FlipBacks = FALSE
    Policies <- AllPolicies
    PollerFilterRange = 2
    FirstRuns = {TRUE, FALSE}
    CalmPolls = FALSE
    MaxCrashes = 0
    MaxErrors = 0
INVARIANT OneLivePerHeight
PROPERTY ImplementsContract
CHECK_DEADLOCK FALSE
