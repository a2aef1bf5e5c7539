\* Three nodes, one or two 4 x 4 datasets, every selection of stride 1 or 2.
CONSTANTS
    n = 3
    Rank = 2
    Extent = 4
    Steps = {1, 2}
    FileTypeSize = 2
    MemTypeSize = 2
    MaxCount = 2
    WithAll = TRUE
SPECIFICATION RPSpec
INVARIANTS PartsCover PartsBalanced EachElementOnce OuterCutInOrder OnlyTerminatorBehind
