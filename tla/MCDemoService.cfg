SPECIFICATION Spec
CONSTANTS
    n1 = n1
    n2 = n2
    p1 = p1
    p2 = p2
    Names = {n1, n2}
    Pools = {p1, p2}
    TxOf <- MCTxOf
    MaxHead = 3
    MaxItems = 2
    MaxForks = 1
    MaxFaults = 1
    NoRecord = NoRecord
    NilRecord = NilRecord
INVARIANTS TypeOK ENSMatchesBlocks PoolsMatchBlocks NoRevertedENS StopsOnlyOnFaults
SYMMETRY Permuted
CHECK_DEADLOCK FALSE
