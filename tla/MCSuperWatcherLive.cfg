\* A reorg, a failing call and a crash; then the chain rests.
SPECIFICATION FairSpec
CONSTANTS
    Half = 32
    StartBlock = 1
    FilterRange = 2
    MaxGoBackRetries = 2
    NoRecord = NoRecord
    Addresses = {a1}
    InitHeight = 2
    MaxHeight = 3
    MaxReorgs = 1
    MaxReorgDepth = 2
    FlipBacks = FALSE
    Policies = {"Normal"}
    PollerFilterRange = 2
    FirstRuns = {TRUE, FALSE}
    CalmPolls = TRUE
    MaxCrashes = 1
    MaxErrors = 1
PROPERTY CatchesUp
