\* Three PIDs, two of them in one bucket, call concurrently, twice each; any
\* call may fail.  WORD is more than the calls can deliver.
CONSTANTS
    PIDs = {p1, p2, p3}
    Loner = p3
    Bucket <- LonerApart
    Results <- AnyResult
    WORD = 8
    MAX_CALLS = 2
SYMMETRY Symmetry
VIEW Live
SPECIFICATION Spec
INVARIANTS
    NeverOvercounts
    LossNeedsCollision
    ExactWhileSerial
