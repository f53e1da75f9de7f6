SPECIFICATION Spec
CONSTANTS
    root = root
    Procs = {root, p1, p2}
    MMs = {m1, m2, m3}
    FSs = {f1, f2, f3}
    rootfs = f1
    NULL = NULL
    MAX_PID = 6
    MaxCount = 3
    CloneFlags <- AllFlags
SYMMETRY Symmetry
INVARIANTS MmCountExact FilesOutliveUsers PidsUnique
CHECK_DEADLOCK FALSE
