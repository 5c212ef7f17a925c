\* The chain changes between polls only; SetDoReorg and SetAddresses too.
SPECIFICATION Spec
CONSTANTS
    Half = 16
    Addresses = {a1}
    InitHeight = 2
    MaxHeight = 3
    MaxReorgs = 2
    MaxReorgDepth = 2
    FlipBacks = FALSE
    Policies = {"Fast", "Expensive"}
    PollerFilterRange = 2
    FromBlocks = {0, 1, 4}
    ToBlocks <- CalmTo
    Filters <- MCFilters
    DoReorgs = {TRUE, FALSE}
    MaxPolls = 3
    CalmPolls = TRUE
INVARIANTS ReorgedOnce GoodBlocksComplete NoFalseReorg PollPanicsOnlyWhenMisused
CHECK_DEADLOCK FALSE
