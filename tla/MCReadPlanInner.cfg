\* Three nodes, one 4 x 4 dataset, every contiguous selection.
CONSTANTS
    n = 3
    Rank = 2
    Extent = 4
    Steps = {1}
    FileTypeSize = 1
    MemTypeSize = 1
    MaxCount = 1
    WithAll = FALSE
SPECIFICATION RPSpec
INVARIANT MergedInOrder
