\* Every script of up to two events; the height is thrown back by each.
SPECIFICATION Spec
CONSTANTS
    t1 = t1
    t2 = t2
    t3 = t3
    Txs <- MCTxs
    Home <- MCHome
    Address <- MCAddress
    Topic <- MCTopic
    Queries <- MCQueries
    Nil = Nil
    EventLists <- MCEventLists
    SimStart = 1
    BlockProgress = 2
    ExitBlock = 5
    Numbers <- MCNumbers
INVARIANTS TypeOK LogsInOneBlock PathsTellDestination
PROPERTIES ForkTakesTwoCalls HashChangesWithFork ReachesExit
CHECK_DEADLOCK FALSE
