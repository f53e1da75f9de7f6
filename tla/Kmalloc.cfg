SPECIFICATION KSpec
CONSTANTS
    NPAGE = 5
    NULL <- MCNULL
    SLOB_UNIT = 2
    PageUnits = 4
    BigUnits = 2
    Sizes = {3, 8, 9, 32, 35, 64}
    OtherSizes = {1, 2}
INVARIANTS BlocksSound HeapSound BlocksLargeEnough
PROPERTY ImplementsPmmSpec
CHECK_DEADLOCK FALSE
