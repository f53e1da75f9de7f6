SPECIFICATION Spec
CONSTANTS
    first = p1
    Procs = {p1, p2}
    ftab = t1
    Tabs = {t1, t2}
    NENTRY = 3
    root = root
    Dirs = {root}
    Regs = {f}
    Devs = {stdin}
    NONE = NONE
    MaxLeak = 1
SYMMETRY Symmetry
INVARIANTS RefsExact ReaderKeepsFile AssertionsHold
CHECK_DEADLOCK FALSE
