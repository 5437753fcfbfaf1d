\* Two threads of each kind on two objects, two rounds; only r1 and w1 are
\* scheduled fairly.
CONSTANTS
    Readers = {r1, r2}
    Writers = {w1, w2}
    OneReader = r1
    OneWriter = w1
    TURNS = 2
    OBJECT_COUNT = 2
    None = None
SPECIFICATION LoneSpec
INVARIANTS
    EachValueReadOnce
PROPERTIES
    ReturnsAlone
