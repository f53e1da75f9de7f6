SPECIFICATION FairSpec
CONSTANTS
    Procs = {p1, p2, p3, p4, p5}
    lock = lock
    pool = pool
    NULL = NULL
    Sems = {lock, pool}
    InitialValue <- LockAndPool
INVARIANTS
    PermitsConserved
    NoSleeperWithPermit
    DownReturnsZero
PROPERTIES
    HandoverInOrder
    WaiterServed
\* two processes that take lock and pool in opposite orders block each other
CHECK_DEADLOCK FALSE
