\* Three threads of each kind on three slots, two rounds: two batches.
CONSTANTS
    Readers = {r1, r2, r3}
    Writers = {w1, w2, w3}
    TURNS = 2
    BUFFER_SIZE = 3
SPECIFICATION FairSpec
INVARIANTS
    NoDataRace
    NoLostWakeup
    NoDeadlock
PROPERTIES
    Termination
    ImplementsBatches
