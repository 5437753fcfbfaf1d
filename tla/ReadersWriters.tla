--------------------------- MODULE ReadersWriters ---------------------------
(***************************************************************************)
(* What the locking protocols of lab01/ex1.c, lab01/ex4.c and (for each of *)
(* its objects) lab01/ex5.c promise: any number of readers may be at the   *)
(* object together, a writer is there alone.                               *)
(***************************************************************************)
CONSTANTS Readers, Writers

VARIABLES reading,  \* the readers at the object
          writing   \* the writers at the object

Init == reading = {} /\ writing = {}

BeginRead(r) ==
    /\ writing = {}
    /\ r \notin reading
    /\ reading' = reading \cup {r}
    /\ UNCHANGED writing

EndRead(r) ==
    /\ r \in reading
    /\ reading' = reading \ {r}
    /\ UNCHANGED writing

BeginWrite(w) ==
    /\ reading = {}
    /\ writing = {}
    /\ writing' = {w}
    /\ UNCHANGED reading

EndWrite(w) ==
    /\ writing = {w}
    /\ writing' = {}
    /\ UNCHANGED reading

Next ==
    \/ \E r \in Readers : BeginRead(r) \/ EndRead(r)
    \/ \E w \in Writers : BeginWrite(w) \/ EndWrite(w)

Spec == Init /\ [][Next]_<<reading, writing>>
=============================================================================
