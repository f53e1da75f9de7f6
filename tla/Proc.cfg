SPECIFICATION Spec
CONSTANTS
    Procs = {idle, init, p1, p2, p3}
    idle = idle
    init = init
    NULL = NULL
    MAX_PROCESS = 5
SYMMETRY UserSymmetry
INVARIANTS
    RunQueueExact
    WaitStateCoherent
    TreeSound
    NoLostChildWakeup
    TimerOwnerInSleep
    CountExact
    InitAssertions
