SPECIFICATION Spec
CONSTANTS
    Groups = {1, 2, 3}
    Data = {9}
    Start = 1
    Graphs <- MCGraphs
    MaxCalls = 3
INVARIANTS VisitComplete ResumeCovers DescentEnds
CHECK_DEADLOCK FALSE
