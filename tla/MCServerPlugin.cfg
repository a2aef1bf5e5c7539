SPECIFICATION FairSpec
CONSTANTS
    MaxRequests = 2
    Kinds = {"create", "write", "delete", "dataset", "root", "info", "whole", "select"}
    MaxFd = 4
    Others = {0, 2}
    Size = 3
    PipeSize = 1
    MaxBuffer = 2
    Faults = TRUE
INVARIANTS AnswersAreOwn PiecesCover NothingLeftBehind
PROPERTIES RequestsEnd
CHECK_DEADLOCK FALSE
