SPECIFICATION Spec
CONSTANTS
    Readers = {p1, p2, p3}
    STDIN_BUFSIZE = 2
    MaxTyped = 5
    MaxLen = 3
SYMMETRY ReaderSymmetry
INVARIANTS CharactersAccounted WaitQueueSound
PROPERTY ReadAccounted
CHECK_DEADLOCK FALSE
