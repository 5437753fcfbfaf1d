\* One PID reads, opens the device again and reads.
CONSTANTS
    PIDs = {p1}
    Loner = p1
    Bucket <- LonerApart
    Results = {1}
    WORD = 8
    MAX_CALLS = 2
SPECIFICATION Spec
INVARIANT CounterOfThisUse
