\* Two threads of each kind on two slots, three rounds: written leaves the
\* range 0 .. 2 on both sides, and the slots are used again.
CONSTANTS
    Readers = {r1, r2}
    Writers = {w1, w2}
    TURNS = 3
    BUFFER_SIZE = 2
SPECIFICATION FairSpec
INVARIANTS
    SleepersJustified
    NoDeadlock
    LoadsStoredSlot
PROPERTIES
    Termination
