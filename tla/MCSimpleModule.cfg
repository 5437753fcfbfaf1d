\* Two users of the device, two readers of the /proc file, who open it once,
\* and two insertions of each of the modules; a buffer of two bytes.
CONSTANTS
    Users = {u1, u2}
    Readers = {r1, r2}
    mybuf_size = 2
    MAX_OPENINGS = 1
    MAX_INSERTIONS = 2
SYMMETRY Symmetry
SPECIFICATION Spec
INVARIANTS
    FailureReleasesAll
    TextServed
    AppendsKept

    
\* The insertions and the openings are bounded: when they are used up, the
\* system stops.
CHECK_DEADLOCK FALSE
