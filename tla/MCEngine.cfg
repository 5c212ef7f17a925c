\* Three results over two forks; the service and the gateway may fail.
SPECIFICATION Spec
CONSTANTS
    Half = 16
    StartBlock = 1
    FilterRange = 1
    MaxGoBackRetries = 1
    NoRecord = NoRecord
    a1 = a1
    b1 = b1
    a2 = a2
    b2 = b2
    a3 = a3
    Hashes <- MCHashes
    NumberOf <- MCNumberOf
    LastGoods <- MCLastGoods
    MaxResults = 3
INVARIANTS TypeOK NoPanic
PROPERTY ImplementsContract
CHECK_DEADLOCK FALSE
