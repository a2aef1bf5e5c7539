\* As MCParallelRead: nothing fails, SERVER_NUM does not change.
CONSTANTS
    ThreadCount = 2
    QueueSize = 2
    NodeNums = {2}
    MaxReads = 1
    MayFail = FALSE
    NoTask = NoTask
    Tasks <- MCTransfers
SPECIFICATION PRFairSpec
PROPERTIES ReadReturns
