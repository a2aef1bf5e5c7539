\* The pool was made for two nodes; a read may find SERVER_NUM raised to
\* three, and transfers may meet errors.
CONSTANTS
    ThreadCount = 2
    QueueSize = 2
    NodeNums = {2, 3}
    MaxReads = 2
    MayFail = TRUE
    NoTask = NoTask
    Tasks <- MCTransfers
SPECIFICATION PRFairSpec
INVARIANTS BarrierIsSound NoStaleTransfer CountIsHonest
PROPERTIES TransfersEnd
