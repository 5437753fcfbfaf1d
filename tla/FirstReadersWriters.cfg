\* The program's three readers, two writers instead of one, three rounds.
CONSTANTS
    Readers = {r1, r2, r3}
    Writers = {w1, w2}
    ACTION_COUNT = 3
    None = None
SPECIFICATION FairSpec
INVARIANTS
    MutualExclusion
    NoReaderKeptWaiting
    NoDeadlock
PROPERTIES
    Termination
    ImplementsReadersWriters
