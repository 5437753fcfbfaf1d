\* Two test programs at once, an older process, and two users.
CONSTANTS
    Callers = {c1, c2}
    Others = {p1}
    Uids = {"root", "student"}
SYMMETRY Symmetry
SPECIFICATION Spec
INVARIANTS
    AnswersHold
    LostOnlyBySleepOrOverlap
    KeptOnlyByOpenSections
\* A system whose processes have all exited has stopped.
CHECK_DEADLOCK FALSE
