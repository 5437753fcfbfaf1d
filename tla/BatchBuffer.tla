----------------------------- MODULE BatchBuffer -----------------------------
(***************************************************************************)
(* What the fill-and-drain buffer of lab01/ex6.c promises.  The slots are  *)
(* used in batches: while the buffer is being filled every empty slot may  *)
(* receive a value, and nothing is taken out; once it is full it is        *)
(* sealed, and every value is taken exactly once; once it is empty it is   *)
(* opened for the next batch.                                              *)
(***************************************************************************)
CONSTANT Slots

VARIABLES full,  \* the slots that hold a value nobody has taken
          mode   \* "fill" or "drain"

Init == full = {} /\ mode = "fill"

Put(j) ==
    /\ mode = "fill"
    /\ j \notin full
    /\ full' = full \cup {j}
    /\ UNCHANGED mode

Seal ==
    /\ mode = "fill"
    /\ full = Slots
    /\ mode' = "drain"
    /\ UNCHANGED full

Take(j) ==
    /\ mode = "drain"
    /\ j \in full
    /\ full' = full \ {j}
    /\ UNCHANGED mode

Reopen ==
    /\ mode = "drain"
    /\ full = {}
    /\ mode' = "fill"
    /\ UNCHANGED full

Next == (\E j \in Slots : Put(j) \/ Take(j)) \/ Seal \/ Reopen

Spec == Init /\ [][Next]_<<full, mode>>
==============================================================================
