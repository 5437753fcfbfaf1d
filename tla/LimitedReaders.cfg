\* Three readers and two writers on two objects, one round; the limit of each
\* object is 1 or 2.
CONSTANTS
    Readers = {r1, r2, r3}
    Writers = {w1, w2}
    TURNS = 1
    OBJECT_COUNT = 2
    MAX_LIMIT = 2
    None = None
SPECIFICATION FairSpec
INVARIANTS
    LimitRespected
    FreshValueAnnounced
    NoDeadlock
PROPERTIES
    Termination
    ImplementsReadersWriters
