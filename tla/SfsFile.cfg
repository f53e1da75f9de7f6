SPECIFICATION Spec
CONSTANTS
    Files = {f1}
    Fds = {d1, d2, d3}
    NBlocks = 5
    Others = {0, 1, 3}
    NDirect = 1
    NEntry = 3
    BlkSize = 2
    MaxFileSize = 10
    NONE = NONE
SYMMETRY Symmetry
INVARIANTS
    BlocksOwnedOnce
    NoHoles
    FdWithinFile
    PanicsExplained
CHECK_DEADLOCK FALSE
