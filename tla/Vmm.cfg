SPECIFICATION Spec
CONSTANTS
    first = p1
    Procs = {p1, p2}
    PtN = 2
    PdN = 2
    UserBase = 1
    UserTop = 8
    StackPages = 2
    StackReady = 1
    NFrames = 20
    Programs <- MCPrograms
    NONE = NONE
INVARIANTS MmSound FramesAccounted  OverlapOnlyIfAsked UserMemCheckExact
CHECK_DEADLOCK FALSE
