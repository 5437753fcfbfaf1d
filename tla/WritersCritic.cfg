\* Two readers, three writers and the critic, two rounds.
CONSTANTS
    Readers = {r1, r2}
    Writers = {w1, w2, w3}
    Critic = critic
    TURNS = 2
    None = None
SPECIFICATION FairSpec
INVARIANTS
    CriticAfterEveryWriter
    NoDeadlock
PROPERTIES
    Termination
    ImplementsReadersWriters
