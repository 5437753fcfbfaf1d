---------------------------- MODULE MCRandomStats ----------------------------
(* Model-checking instances of RandomStats.                                 *)
EXTENDS RandomStats, TLC

CONSTANT Loner  \* the PID that shares its bucket with no other

\* All PIDs but Loner fall in one bucket.
LonerApart == [p \in PIDs |-> IF p = Loner THEN "own" ELSE "shared"]

\* What the kernel's function may return: an error, nothing, or a byte.
AnyResult == {-1, 0, 1}

\* The state up to the history used, the locals that are not in use and, once
\* a call has failed, the counts of bytes: nothing is said of them any more.
Live ==
    LET Local(f, labels) == [p \in PIDs |-> IF pc[p] \in labels THEN <<f[p]>> ELSE <<>>]
        Finished == [p \in PIDs |-> [i \in DOMAIN records[p] |-> records[p][i].finished]]
        Bytes == <<records, all_bytes, delivered, Local(loaded, {"storeBytes"})>>
    IN  <<reader_count, hashmap, pc, existing, calls, failed, overlapped, Finished,
          Local(head, {"storeHead"}), Local(loaded, {"storeUp", "storeDown"}),
          Local(bytes_read, {"loadBytes", "storeBytes"}), IF failed THEN <<>> ELSE Bytes>>

Symmetry == Permutations(PIDs \ {Loner})
==============================================================================
