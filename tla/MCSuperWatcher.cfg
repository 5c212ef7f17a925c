\* Two reorgs no deeper than FilterRange, between polls; every policy.
SPECIFICATION Spec
CONSTANTS
    Half = 32
    StartBlock = 1
    FilterRange = 2
    MaxGoBackRetries = 2
    NoRecord = NoRecord
    Addresses = {a1}
    InitHeight = 2
    MaxHeight = 5
    MaxReorgs = 2
    MaxReorgDepth = 2
    FlipBacks = FALSE
    Policies <- AllPolicies
    PollerFilterRange = 2
    FirstRuns = {TRUE}
    CalmPolls = TRUE
    MaxCrashes = 0
    MaxErrors = 0
INVARIANTS TypeOK ServiceMatchesChain OneLivePerHeight SeesBlockOnce NoPanic
