\* Two processes, and a second insertion that meets calls of the first.
CONSTANTS
    Callers = {c1, c2}
    MAX_INSERTIONS = 2
    ADDRESSES = 64
    REACH = 16
    OP_JMP_SIZE = 2
    Tables <- MCTables
    Rooms <- MCRooms
    hook = 49
SPECIFICATION HijackedSpec
INVARIANTS
    TypeOK
    LostOnlyByOverlap
    RestingStateClean
    CopyKeepsTargets
    PatchInsideFunction
\* A kernel whose processes are all lost has stopped.
CHECK_DEADLOCK FALSE
