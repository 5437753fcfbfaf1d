--------------------------- MODULE LimitedReaders ---------------------------
(***************************************************************************)
(* lab01/ex5.c: every thread walks the objects in order, TURNS times, as   *)
(* in ex3.c, but an object may be read by up to limits[j] readers at once. *)
(*                                                                         *)
(* Each object has two mutexes.  objectMutexes[j] guards its flag and its  *)
(* reader count and is tried first; objectDeepMutexes[j] guards its value  *)
(* and is held by a writer, or by the readers as a group: the first one in *)
(* locks it, the last one out unlocks it, whoever that is.  The mutexes    *)
(* have the default type, whose unlock does not look at the owner.         *)
(*                                                                         *)
(* A failed trylock shows that somebody holds the mutex, however briefly:  *)
(* locking and the critical section that unlocks are separate steps.       *)
(***************************************************************************)
EXTENDS Integers, FiniteSets

CONSTANTS Readers,       \* the READERS_COUNT reader threads
          Writers,       \* the WRITERS_COUNT writer threads
          TURNS,         \* rounds of every thread
          OBJECT_COUNT,  \* objects shared by the threads
          MAX_LIMIT,     \* the largest limit main() may draw (5)
          None           \* the holder of a free mutex

\* The shapes of the constants.
ASSUME ConstantsAssumption ==
    /\ IsFiniteSet(Readers)
    /\ IsFiniteSet(Writers)
    /\ Readers \cap Writers = {}
    /\ None \notin Readers \cup Writers
    /\ TURNS \in Nat \ {0}
    /\ OBJECT_COUNT \in Nat \ {0}
    /\ MAX_LIMIT \in Nat \ {0}

Threads == Readers \cup Writers
Objects == 0 .. OBJECT_COUNT - 1

VARIABLES
    objectMutexes,      \* per object, the thread that locked it, or None
    objectDeepMutexes,  \* per object, the thread that locked it, or None
    buffer,             \* per object, its value: "unset", "fresh" (no reader
                        \* has loaded it) or "loaded"
    full,               \* per object, its flag
    readerCount,        \* per object, the readers admitted and not departed
    limits,             \* per object, the limit drawn by main()
    pc,                 \* where each thread is at its object
    at,                 \* the local j of each thread
    turn                \* the local i of each thread

vars == <<objectMutexes, objectDeepMutexes, buffer, full, readerCount, limits, pc, at, turn>>

Init ==
    /\ objectMutexes = [j \in Objects |-> None]
    /\ objectDeepMutexes = [j \in Objects |-> None]
    /\ buffer = [j \in Objects |-> "unset"]
    /\ full = [j \in Objects |-> FALSE]
    /\ readerCount = [j \in Objects |-> 0]
    /\ limits \in [Objects -> 1 .. MAX_LIMIT]
    /\ pc = [t \in Threads |-> "try"]
    /\ at = [t \in Threads |-> 0]
    /\ turn = [t \in Threads |-> 0]

------------------------------------------------------------------------------
(* Pieces shared by the two thread functions.                              *)

\* t passes on to the next object, to its next round, or returns.
Advance(t) ==
    /\ at' = [at EXCEPT ![t] = (@ + 1) % OBJECT_COUNT]
    /\ turn' = [turn EXCEPT ![t] = IF at'[t] = 0 THEN @ + 1 ELSE @]
    /\ pc' = [pc EXCEPT ![t] = IF turn'[t] < TURNS THEN "try" ELSE "done"]

Goto(t, label) ==
    /\ pc' = [pc EXCEPT ![t] = label]
    /\ UNCHANGED <<at, turn>>

Lock(t) ==
    /\ objectMutexes[at[t]] = None
    /\ objectMutexes' = [objectMutexes EXCEPT ![at[t]] = t]

Unlock(t) == objectMutexes' = [objectMutexes EXCEPT ![at[t]] = None]

\* Mutation: the deep mutex is not waited for.
LockDeepAnyway(t) == objectDeepMutexes' = [objectDeepMutexes EXCEPT ![at[t]] = t]

LockDeep(t) ==
    /\ objectDeepMutexes[at[t]] = None
    /\ objectDeepMutexes' = [objectDeepMutexes EXCEPT ![at[t]] = t]

\* Mutation: the deep mutex is never unlocked.
KeepDeep(t) == UNCHANGED objectDeepMutexes

UnlockDeep(t) == objectDeepMutexes' = [objectDeepMutexes EXCEPT ![at[t]] = None]

\* pthread_mutex_trylock fails: the object is skipped.
TryBusy(t) ==
    /\ pc[t] = "try"
    /\ objectMutexes[at[t]] # None
    /\ Advance(t)
    /\ UNCHANGED <<objectMutexes, objectDeepMutexes, buffer, full, readerCount, limits>>

TryLock(t) ==
    /\ pc[t] = "try"
    /\ Lock(t)
    /\ Goto(t, "test")
    /\ UNCHANGED <<objectDeepMutexes, buffer, full, readerCount, limits>>

\* lock(&objectMutexes[j]) once the value has been read or written.
Relock(t) ==
    /\ pc[t] = "relock"
    /\ Lock(t)
    /\ Goto(t, "leave")
    /\ UNCHANGED <<objectDeepMutexes, buffer, full, readerCount, limits>>

------------------------------------------------------------------------------
(* reader()                                                                *)

\* Mutation: one reader too many.
ReaderRefusedLate(j) == ~full[j] \/ readerCount[j] > limits[j]

\* The reader's condition to skip object j.
ReaderRefused(j) == ~full[j] \/ readerCount[j] >= limits[j]

ReaderSkip(r) ==
    /\ pc[r] = "test"
    /\ ReaderRefused(at[r])
    /\ Unlock(r)
    /\ Advance(r)
    /\ UNCHANGED <<objectDeepMutexes, buffer, full, readerCount, limits>>

\* The first reader keeps the object's mutex until it has the deep one.
ReaderEnter(r) ==
    /\ pc[r] = "test"
    /\ ~ReaderRefused(at[r])
    /\ readerCount' = [readerCount EXCEPT ![at[r]] = @ + 1]
    /\ IF readerCount'[at[r]] = 1
       THEN Goto(r, "lockDeep") /\ UNCHANGED objectMutexes
       ELSE Goto(r, "access") /\ Unlock(r)
    /\ UNCHANGED <<objectDeepMutexes, buffer, full, limits>>

ReaderLockDeep(r) ==
    /\ pc[r] = "lockDeep"
    /\ LockDeep(r)
    /\ Unlock(r)
    /\ Goto(r, "access")
    /\ UNCHANGED <<buffer, full, readerCount, limits>>

ReaderLoad(r) ==
    /\ pc[r] = "access"
    /\ buffer' = [buffer EXCEPT ![at[r]] = "loaded"]
    /\ Goto(r, "relock")
    /\ UNCHANGED <<objectMutexes, objectDeepMutexes, full, readerCount, limits>>

ReaderLeave(r) ==
    /\ pc[r] = "leave"
    /\ full' = [full EXCEPT ![at[r]] = FALSE]
    /\ readerCount' = [readerCount EXCEPT ![at[r]] = @ - 1]
    /\ IF readerCount'[at[r]] = 0 THEN UnlockDeep(r) ELSE UNCHANGED objectDeepMutexes
    /\ Unlock(r)
    /\ Advance(r)
    /\ UNCHANGED <<buffer, limits>>

Reader(r) ==
    \/ TryBusy(r) \/ TryLock(r) \/ ReaderSkip(r) \/ ReaderEnter(r)
    \/ ReaderLockDeep(r) \/ ReaderLoad(r) \/ Relock(r) \/ ReaderLeave(r)

------------------------------------------------------------------------------
(* writer()                                                                *)

WriterSkip(w) ==
    /\ pc[w] = "test"
    /\ full[at[w]]
    /\ Unlock(w)
    /\ Advance(w)
    /\ UNCHANGED <<objectDeepMutexes, buffer, full, readerCount, limits>>

\* The writer gives up the object's mutex: its test may be out of date by the
\* time it has the deep one.
WriterAccept(w) ==
    /\ pc[w] = "test"
    /\ ~full[at[w]]
    /\ Unlock(w)
    /\ Goto(w, "lockDeep")
    /\ UNCHANGED <<objectDeepMutexes, buffer, full, readerCount, limits>>

WriterLockDeep(w) ==
    /\ pc[w] = "lockDeep"
    /\ LockDeep(w)
    /\ Goto(w, "access")
    /\ UNCHANGED <<objectMutexes, buffer, full, readerCount, limits>>

WriterStore(w) ==
    /\ pc[w] = "access"
    /\ buffer' = [buffer EXCEPT ![at[w]] = "fresh"]
    /\ UnlockDeep(w)
    /\ Goto(w, "relock")
    /\ UNCHANGED <<objectMutexes, full, readerCount, limits>>

WriterLeave(w) ==
    /\ pc[w] = "leave"
    /\ full' = [full EXCEPT ![at[w]] = TRUE]
    /\ Unlock(w)
    /\ Advance(w)
    /\ UNCHANGED <<objectDeepMutexes, buffer, readerCount, limits>>

Writer(w) ==
    \/ TryBusy(w) \/ TryLock(w) \/ WriterSkip(w) \/ WriterAccept(w)
    \/ WriterLockDeep(w) \/ WriterStore(w) \/ Relock(w) \/ WriterLeave(w)

------------------------------------------------------------------------------
(* main() returns once it has joined every thread.                         *)

AllDone == \A t \in Threads : pc[t] = "done"

Terminating == AllDone /\ UNCHANGED vars

Next ==
    \/ \E r \in Readers : Reader(r)
    \/ \E w \in Writers : Writer(w)
    \/ Terminating

Spec == Init /\ [][Next]_vars

\* Every thread the scheduler can run is eventually run.  A thread waiting
\* for a mutex may be overtaken, but the others have finitely many rounds.
Fairness ==
    /\ \A r \in Readers : WF_vars(Reader(r))
    /\ \A w \in Writers : WF_vars(Writer(w))

FairSpec == Spec /\ Fairness

------------------------------------------------------------------------------
(* Properties                                                              *)

\* The threads of S at the value of object j.
AtValue(S, j) == {t \in S : pc[t] = "access" /\ at[t] = j}

\* No more than limits[j] readers load the value of object j at once.
LimitRespected == \A j \in Objects : Cardinality(AtValue(Readers, j)) <= limits[j]

\* The last value stored in an object is not lost: until a reader has loaded
\* it, either the flag announces it or a writer is about to set the flag.  A
\* reader clears the flag for values it has seen, never for a newer one.
FreshValueAnnounced ==
    \A j \in Objects : buffer[j] = "fresh" =>
        \/ full[j]
        \/ \E w \in Writers : at[w] = j /\ pc[w] \in {"relock", "leave"}

\* No reader is counted in and every mutex is free.
Clean ==
    \A j \in Objects :
        readerCount[j] = 0 /\ objectMutexes[j] = None /\ objectDeepMutexes[j] = None

\* t is about to lock, not just to try, a mutex that is held.
Waiting(t) ==
    \/ pc[t] = "relock" /\ objectMutexes[at[t]] # None
    \/ pc[t] = "lockDeep" /\ objectDeepMutexes[at[t]] # None

\* The threads never all wait for each other, although readers take an object's
\* two mutexes in either order: one of them can go on until all have returned,
\* and they leave no object locked or counted.
NoDeadlock ==
    IF AllDone THEN Clean ELSE \E t \in Threads : pc[t] # "done" /\ ~Waiting(t)

\* Every thread returns, so that main() joins them all.
Termination == <>(AllDone /\ Clean)

\* Each object, on its own, is an abstract readers-writers object.
Object(j) == INSTANCE ReadersWriters
                 WITH reading <- AtValue(Readers, j), writing <- AtValue(Writers, j)

ImplementsReadersWriters ==
    /\ \A j \in Objects : Object(j)!Init
    /\ [][\A j \in Objects :
              \/ Object(j)!Next
              \/ UNCHANGED <<AtValue(Readers, j), AtValue(Writers, j)>>]_vars
=============================================================================
