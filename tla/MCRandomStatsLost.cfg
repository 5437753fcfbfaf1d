\* Two PIDs call concurrently, in buckets of their own; no call fails.
CONSTANTS
    PIDs = {p1, p2}
    Loner = p2
    Bucket <- LonerApart
    Results = {1}
    WORD = 8
    MAX_CALLS = 1
SPECIFICATION Spec
INVARIANT AllBytesExact
