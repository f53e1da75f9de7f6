SPECIFICATION FairSpec
CONSTANTS
    init = init
    Procs = {init, p1, p2}
    IDLE = idle
    Wrap = 8
    BIG_STRIDE = 2
    Priorities = {2}
    MAX_TIME_SLICE = 2
    NULL = NULL
INVARIANTS PoolExact StridesInWindow
PROPERTY EveryoneRuns
CHECK_DEADLOCK FALSE
