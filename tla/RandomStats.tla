----------------------------- MODULE RandomStats -----------------------------
(***************************************************************************)
(* project/module.c: the function that replaces random_read while the      *)
(* module is inserted.  It keeps a record per PID in a hash table, and two *)
(* global counters: the bytes read and the processes now reading.          *)
(*                                                                         *)
(* Processes call it concurrently and nothing is locked.  An update of a   *)
(* counter is a load and a store; so is the insertion at the head of a     *)
(* bucket.  The links of the nodes in a bucket never change once they are  *)
(* published, so a bucket, as a thread that has loaded its head sees it,   *)
(* is a sequence.  The fields of a record are only touched by the process  *)
(* with its PID.                                                           *)
(***************************************************************************)
EXTENDS Integers, Sequences, FiniteSets, FiniteSetsExt, Functions

CONSTANTS PIDs,       \* the PIDs of the processes that read /dev/random
          Bucket,     \* the bucket hash_min() gives each PID
          Results,    \* what the kernel's random_read may return: bytes, 0 or an error
          WORD,       \* the counters are unsigned: they count modulo WORD (2^64)
          MAX_CALLS   \* bound: calls made by each process

\* The shapes of the constants.
ASSUME ConstantsAssumption ==
    /\ IsFiniteSet(PIDs)
    /\ DOMAIN Bucket = PIDs
    /\ Results \subseteq Int
    /\ WORD \in Nat \ {0}
    /\ MAX_CALLS \in Nat

Buckets == {Bucket[p] : p \in PIDs}

VARIABLES
    all_bytes,     \* the counter behind /proc/random/bytes_read
    reader_count,  \* the counter behind "Currently reading"
    records,       \* per PID, the user_hash records allocated for it
    hashmap,       \* per bucket, its nodes <<pid, index in records[pid]>>
    pc,            \* where each process is in random_read
    existing,      \* the local of that name: an index in records[pid], or 0
    head,          \* the bucket as loaded by hash_add_rcu
    loaded,        \* the counter as loaded by ++, -- or +=
    bytes_read,    \* the local of that name
    calls,         \* calls begun by each process
    delivered,     \* history: the bytes the kernel has handed out
    failed,        \* history: whether a call has ever failed
    overlapped,    \* history: whether two calls have ever overlapped
    used           \* history: per PID, the results of the present open-read-close

counters == <<all_bytes, reader_count>>
table == <<records, hashmap>>
locals == <<existing, head, loaded, bytes_read, calls>>
history == <<delivered, failed, overlapped, used>>
vars == <<counters, table, pc, locals, history>>

Init ==
    /\ all_bytes = 0
    /\ reader_count = 0
    /\ records = [p \in PIDs |-> <<>>]
    /\ hashmap = [b \in Buckets |-> <<>>]
    /\ pc = [p \in PIDs |-> "outside"]
    /\ existing = [p \in PIDs |-> 0]
    /\ head = [p \in PIDs |-> <<>>]
    /\ loaded = [p \in PIDs |-> 0]
    /\ bytes_read = [p \in PIDs |-> 0]
    /\ calls = [p \in PIDs |-> 0]
    /\ delivered = 0
    /\ failed = FALSE
    /\ overlapped = FALSE
    /\ used = [p \in PIDs |-> <<>>]

------------------------------------------------------------------------------
(* get()                                                                   *)

\* The nodes of the bucket of p: its places, and those where a record of p is.
Nodes(p) == hashmap[Bucket[p]]
Mine(p) == {i \in DOMAIN Nodes(p) : Nodes(p)[i][1] = p}

\* Mutation: finished records are passed over.
getActive(p) ==
    LET active == {i \in Mine(p) : ~records[p][Nodes(p)[i][2]].finished}
    IN  IF active = {} THEN 0 ELSE Nodes(p)[Min(active)][2]

\* The index of the first record of p in its bucket, or 0.
get(p) == IF Mine(p) = {} THEN 0 ELSE Nodes(p)[Min(Mine(p))][2]

------------------------------------------------------------------------------
(* random_read()                                                           *)

Goto(p, label) == pc' = [pc EXCEPT ![p] = label]

\* The counters are unsigned.
Wrapped(n) == n % WORD

FreshRecord == [bytes_read |-> 0, finished |-> FALSE]

\* Mutation: a finished record is not used again.
NewPID(p, i) == i = 0

\* Whether a process that found record i of p counts as a new reader.
NewReader(p, i) == i = 0 \/ records[p][i].finished

Lookup(p) ==
    /\ pc[p] = "outside"
    /\ calls[p] < MAX_CALLS
    /\ calls' = [calls EXCEPT ![p] = @ + 1]
    /\ existing' = [existing EXCEPT ![p] = get(p)]
    /\ Goto(p, IF NewReader(p, get(p)) THEN "loadUp" ELSE "run")
    /\ overlapped' = (overlapped \/ \E q \in PIDs \ {p} : pc[q] # "outside")
    /\ UNCHANGED <<counters, table, head, loaded, bytes_read, delivered, failed, used>>

LoadUp(p) ==
    /\ pc[p] = "loadUp"
    /\ loaded' = [loaded EXCEPT ![p] = reader_count]
    /\ Goto(p, "storeUp")
    /\ UNCHANGED <<counters, table, existing, head, bytes_read, calls, history>>

\* The record is allocated or, when it is a finished one, used again.
StoreUp(p) ==
    /\ pc[p] = "storeUp"
    /\ reader_count' = Wrapped(loaded[p] + 1)
    /\ IF existing[p] = 0
       THEN /\ records' = [records EXCEPT ![p] = Append(@, FreshRecord)]
            /\ existing' = [existing EXCEPT ![p] = Len(records'[p])]
            /\ Goto(p, "loadHead")
       ELSE /\ records' = [records EXCEPT ![p][existing[p]] = FreshRecord]
            /\ Goto(p, "run")
            /\ UNCHANGED existing
    /\ UNCHANGED <<all_bytes, hashmap, head, loaded, bytes_read, calls, history>>

\* hash_add_rcu: the new node points to the first node of the bucket...
LoadHead(p) ==
    /\ pc[p] = "loadHead"
    /\ head' = [head EXCEPT ![p] = hashmap[Bucket[p]]]
    /\ Goto(p, "storeHead")
    /\ UNCHANGED <<counters, table, existing, loaded, bytes_read, calls, history>>

\* ... and the head of the bucket points to the new node.
StoreHead(p) ==
    /\ pc[p] = "storeHead"
    /\ hashmap' = [hashmap EXCEPT ![Bucket[p]] = <<<<p, existing[p]>>>> \o head[p]]
    /\ Goto(p, "run")
    /\ UNCHANGED <<counters, records, locals, history>>

\* The original function, run through sym_random_read.run.
Run(p) ==
    /\ pc[p] = "run"
    /\ \E n \in Results :
           /\ bytes_read' = [bytes_read EXCEPT ![p] = n]
           /\ delivered' = IF n > 0 THEN delivered + n ELSE delivered
           /\ failed' = (failed \/ n < 0)
           /\ used' = [used EXCEPT ![p] = Append(@, n)]
    /\ Goto(p, "loadBytes")
    /\ UNCHANGED <<counters, table, existing, head, loaded, calls, overlapped>>

LoadBytes(p) ==
    /\ pc[p] = "loadBytes"
    /\ loaded' = [loaded EXCEPT ![p] = all_bytes]
    /\ Goto(p, "storeBytes")
    /\ UNCHANGED <<counters, table, existing, head, bytes_read, calls, history>>

\* Mutation: what the record holds is added, not what was just read.
StoreRecord(p) ==
    /\ pc[p] = "storeBytes"
    /\ records' = [records EXCEPT ![p][existing[p]].bytes_read = Wrapped(@ + bytes_read[p])]
    /\ all_bytes' = Wrapped(loaded[p] + records'[p][existing[p]].bytes_read)
    /\ Goto(p, IF bytes_read[p] < 1 THEN "loadDown" ELSE "outside")
    /\ UNCHANGED <<reader_count, hashmap, locals, history>>

\* A result below 1 is taken for the end of the process's reading.
StoreBytes(p) ==
    /\ pc[p] = "storeBytes"
    /\ all_bytes' = Wrapped(loaded[p] + bytes_read[p])
    /\ records' = [records EXCEPT ![p][existing[p]].bytes_read = Wrapped(@ + bytes_read[p])]
    /\ Goto(p, IF bytes_read[p] < 1 THEN "loadDown" ELSE "outside")
    /\ UNCHANGED <<reader_count, hashmap, locals, history>>

LoadDown(p) ==
    /\ pc[p] = "loadDown"
    /\ loaded' = [loaded EXCEPT ![p] = reader_count]
    /\ Goto(p, "storeDown")
    /\ UNCHANGED <<counters, table, existing, head, bytes_read, calls, history>>

StoreDown(p) ==
    /\ pc[p] = "storeDown"
    /\ reader_count' = Wrapped(loaded[p] - 1)
    /\ records' = [records EXCEPT ![p][existing[p]].finished = TRUE]
    /\ Goto(p, "outside")
    /\ UNCHANGED <<all_bytes, hashmap, locals, history>>

random_read(p) ==
    \/ Lookup(p) \/ LoadUp(p) \/ StoreUp(p) \/ LoadHead(p) \/ StoreHead(p)
    \/ Run(p) \/ LoadBytes(p) \/ StoreBytes(p) \/ LoadDown(p) \/ StoreDown(p)

------------------------------------------------------------------------------
\* The process opens the device again, or another process with its PID opens
\* it.  The module does not see that.
OpenAgain(p) ==
    /\ pc[p] = "outside"
    /\ used[p] # <<>>
    /\ used' = [used EXCEPT ![p] = <<>>]
    /\ UNCHANGED <<counters, table, pc, locals, delivered, failed, overlapped>>

AllDone == \A p \in PIDs : pc[p] = "outside" /\ calls[p] = MAX_CALLS

Terminating == AllDone /\ UNCHANGED vars

Next == (\E p \in PIDs : random_read(p) \/ OpenAgain(p)) \/ Terminating

Spec == Init /\ [][Next]_vars

------------------------------------------------------------------------------
(* Properties                                                              *)

NobodyInside == \A p \in PIDs : pc[p] = "outside"

\* The records listed by /proc/random/readers.
Listed == UNION {Range(hashmap[b]) : b \in Buckets}

\* Between calls, all_bytes tells how many bytes were read from /dev/random
\* since the module was inserted (README.md, line 15).
AllBytesExact == NobodyInside => all_bytes = delivered % WORD

\* Lost updates of all_bytes lose bytes, they never invent them, as long as no
\* call fails.
NeverOvercounts == ~failed /\ delivered < WORD => all_bytes <= delivered

\* reader_count is the number of active records.
ReadersCounted ==
    reader_count = Cardinality({n \in Listed : ~records[n[1]][n[2]].finished}) % WORD

\* Every PID that has read has exactly one record (README.md, line 18:
\* historical records are kept).
HistoryKept ==
    \A p \in PIDs : calls[p] > 0 => Cardinality({n \in Listed : n[1] = p}) = 1

\* As long as the calls come one after the other, the statistics are exact
\* between calls, the counter of bytes as long as none fails.
ExactWhileSerial ==
    ~overlapped /\ NobodyInside =>
        (~failed => AllBytesExact) /\ ReadersCounted /\ HistoryKept

\* A record is only lost to a process whose PID falls in the same bucket: the
\* others keep exactly one, whatever runs concurrently.
LossNeedsCollision ==
    \A p \in PIDs :
        /\ pc[p] = "outside" /\ calls[p] > 0
        /\ \A q \in PIDs : Bucket[q] = Bucket[p] => q = p
        => hashmap[Bucket[p]] = <<<<p, 1>>>>

SumOfUses(p) == FoldFunction(+, 0, used[p])

\* The counter of a PID is that of its present use of the device: a new
\* open-read-close resets it (README.md, lines 18 and 19).
CounterOfThisUse ==
    \A p \in PIDs : pc[p] = "outside" /\ used[p] # <<>> =>
        records[p][existing[p]].bytes_read = SumOfUses(p) % WORD
=============================================================================
