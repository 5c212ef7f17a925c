\* Every policy, the chain changing in the middle of polls, failing calls.
SPECIFICATION Spec
CONSTANTS
    Half = 16
    Addresses = {a1}
    InitHeight = 2
    MaxHeight = 3
    MaxReorgs = 2
    MaxReorgDepth = 2
    FlipBacks = TRUE
    Policies <- AllPolicies
    PollerFilterRange = 2
    FromBlocks = {1}
    ToBlocks <- MCTo
    Filters = {}
    DoReorgs = {}
    MaxPolls = 3
    CalmPolls = FALSE
INVARIANTS TypeOK ReorgedWereGood TrackerMatchesChain NoProcessReorgError
CHECK_DEADLOCK FALSE
