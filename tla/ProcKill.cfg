SPECIFICATION FairSpec
CONSTANTS
    Procs = {idle, init, p1, p2}
    idle = idle
    init = init
    NULL = NULL
    MAX_PROCESS = 4
PROPERTIES
    KilledTerminates
