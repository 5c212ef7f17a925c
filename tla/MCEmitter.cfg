\* Height changes and reorgs, crashes and errors; three reorgs exhaust the go-backs.
SPECIFICATION FairSpec
CONSTANTS
    Half = 16
    StartBlock = 2
    FilterRange = 2
    MaxGoBackRetries = 1
    NoRecord = NoRecord
    Heads <- MCHeads
    MaxMoves = 3
    MaxRestarts = 2
INVARIANTS TypeOK NoGap RangeBounded SeenTwice
PROPERTY CatchesUp
