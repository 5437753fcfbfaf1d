---------------------------- MODULE AppendBuffer ----------------------------
(***************************************************************************)
(* The buffer of lab02/ex1: simple_write appends to it, and nothing is     *)
(* locked.  mybuf_count is read for the room that is left, read again for  *)
(* the place to copy to (the calls in between make the compiler reload     *)
(* it), and increased after the copy by a load and a store.  simple_read   *)
(* and simple_read_proc change nothing that an append depends on.          *)
(*                                                                         *)
(* A byte is abstracted to the process that wrote it.                      *)
(***************************************************************************)
EXTENDS Integers, Sequences, FiniteSets

CONSTANTS Users,       \* the processes that write to the device
          mybuf_size   \* the room of the buffer

VARIABLES
    mybuf_count,  \* how many bytes the buffer is said to hold
    mybuf,        \* the bytes of the buffer and of the memory beyond its end
    write,        \* of each process: where its simple_write is, max, and the count loaded
    appended,     \* history: the bytes promised by the writes, in the order of their copies
    serial        \* history: no two writes have overlapped

Idle == [at |-> "idle", max |-> 0, loaded |-> 0]

Unwritten == [i \in 1 .. mybuf_size * (Cardinality(Users) + 1) |-> "unwritten"]

bufferVars == <<mybuf_count, mybuf, write, appended, serial>>

Load ==
    /\ mybuf_count' = 0
    /\ mybuf' = Unwritten
    /\ write' = [u \in Users |-> Idle]
    /\ appended' = <<>>
    /\ serial' = TRUE

Init ==
    /\ mybuf_count = 0
    /\ mybuf = Unwritten
    /\ write = [u \in Users |-> Idle]
    /\ appended = <<>>
    /\ serial = TRUE

\* simple_write computes how much fits.  If nothing does it returns -ENOSPC,
\* and nothing has changed.
BeginWrite(u, count) ==
    LET room == mybuf_size - mybuf_count
        max == IF count > room THEN room ELSE count
    IN  /\ write[u].at = "idle"
        /\ max > 0
        /\ write' = [write EXCEPT ![u] = [at |-> "copy", max |-> max, loaded |-> 0]]
        /\ serial' = (serial /\ \A v \in Users : write[v].at = "idle")
        /\ UNCHANGED <<mybuf_count, mybuf, appended>>

\* copy_from_user to &mybuf[mybuf_count].
CopyIn(u) ==
    /\ write[u].at = "copy"
    /\ mybuf' = [i \in DOMAIN mybuf |->
                    IF i - mybuf_count \in 1 .. write[u].max THEN u ELSE mybuf[i]]
    /\ write' = [write EXCEPT ![u].at = "load"]
    /\ appended' = appended \o [i \in 1 .. write[u].max |-> u]
    /\ UNCHANGED <<mybuf_count, serial>>

LoadCount(u) ==
    /\ write[u].at = "load"
    /\ write' = [write EXCEPT ![u].at = "store", ![u].loaded = mybuf_count]
    /\ UNCHANGED <<mybuf_count, mybuf, appended, serial>>

\* Mutation: the count is set to the room asked for, not increased by it.
StoreCountOnly(u) ==
    /\ write[u].at = "store"
    /\ mybuf_count' = write[u].max
    /\ write' = [write EXCEPT ![u] = Idle]
    /\ UNCHANGED <<mybuf, appended, serial>>

\* mybuf_count += max, and simple_write returns max.
StoreCount(u) ==
    /\ write[u].at = "store"
    /\ mybuf_count' = write[u].loaded + write[u].max
    /\ write' = [write EXCEPT ![u] = Idle]
    /\ UNCHANGED <<mybuf, appended, serial>>

simple_write(u) == CopyIn(u) \/ LoadCount(u) \/ StoreCount(u)

------------------------------------------------------------------------------
(* Properties                                                              *)

\* As long as no two writes have overlapped, the buffer holds what the writes
\* have copied, in their order, and the memory beyond its end is untouched;
\* when none of them is on its way, the count is right too.  With overlaps one
\* promise is left: the count never exceeds the bytes the writes have copied.
AppendsKept ==
    /\ mybuf_count <= Len(appended)
    /\ serial => /\ \A i \in DOMAIN mybuf :
                        mybuf[i] = IF i <= Len(appended) THEN appended[i] ELSE "unwritten"
                 /\ Len(appended) <= mybuf_size
                 /\ (\A u \in Users : write[u] = Idle) => mybuf_count = Len(appended)
=============================================================================
