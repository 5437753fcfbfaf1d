---------------------------- MODULE SlotExchange ----------------------------
(***************************************************************************)
(* lab01/ex3.c: every thread walks the objects in order, TURNS times.  It  *)
(* tries the mutex of each object and passes on at once when the mutex is  *)
(* taken or when the object is not in the state it wants; otherwise it     *)
(* reads a full object, or writes an empty one, and flips its full flag.   *)
(*                                                                         *)
(* A failed trylock shows that somebody holds the mutex, however briefly:  *)
(* locking, testing, accessing and unlocking are steps of their own.       *)
(*                                                                         *)
(* The integers stored in buffer[] are abstracted to unread, the objects   *)
(* whose last access was a store.                                          *)
(***************************************************************************)
EXTENDS Integers, FiniteSets

CONSTANTS Readers,       \* the READERS_COUNT reader threads
          Writers,       \* the WRITERS_COUNT writer threads
          TURNS,         \* rounds of every thread
          OBJECT_COUNT,  \* objects shared by the threads
          None           \* the holder of a free mutex

\* The shapes of the constants.
ASSUME ConstantsAssumption ==
    /\ Readers \cap Writers = {}
    /\ None \notin Readers \cup Writers
    /\ TURNS \in Nat \ {0}
    /\ OBJECT_COUNT \in Nat \ {0}

Threads == Readers \cup Writers
Objects == 0 .. OBJECT_COUNT - 1

VARIABLES
    objectMutexes,  \* per object, the thread that holds its mutex, or None
    full,           \* per object, its flag
    unread,         \* the objects whose value no reader has loaded
    pc,             \* where each thread is at its object
    at,             \* the local j of each thread
    turn            \* the local i of each thread

vars == <<objectMutexes, full, unread, pc, at, turn>>

Init ==
    /\ objectMutexes = [j \in Objects |-> None]
    /\ full = [j \in Objects |-> FALSE]
    /\ unread = {}
    /\ pc = [t \in Threads |-> "try"]
    /\ at = [t \in Threads |-> 0]
    /\ turn = [t \in Threads |-> 0]

NextObject(j) == (j + 1) % OBJECT_COUNT

\* t passes on to the next object, to its next round, or returns.
Advance(t) ==
    /\ at' = [at EXCEPT ![t] = NextObject(@)]
    /\ turn' = [turn EXCEPT ![t] = IF at'[t] = 0 THEN @ + 1 ELSE @]
    /\ pc' = [pc EXCEPT ![t] = IF turn'[t] < TURNS THEN "try" ELSE "done"]

\* The value of full[j] a thread is looking for.
Wanted(t) == t \in Readers

\* Mutation: the result of pthread_mutex_trylock is ignored.
FreeAlways(j) == TRUE

\* pthread_mutex_trylock succeeds.
Free(j) == objectMutexes[j] = None

\* Mutation: lock() in place of pthread_mutex_trylock().
TryBusyBlocks(t) == FALSE

\* pthread_mutex_trylock fails: the object is skipped.
TryBusy(t) ==
    /\ pc[t] = "try"
    /\ ~Free(at[t])
    /\ Advance(t)
    /\ UNCHANGED <<objectMutexes, full, unread>>

TryLock(t) ==
    /\ pc[t] = "try"
    /\ Free(at[t])
    /\ objectMutexes' = [objectMutexes EXCEPT ![at[t]] = t]
    /\ pc' = [pc EXCEPT ![t] = "test"]
    /\ UNCHANGED <<full, unread, at, turn>>

\* The object is not in the wanted state: it is unlocked and skipped.
Skip(t) ==
    /\ pc[t] = "test"
    /\ full[at[t]] # Wanted(t)
    /\ objectMutexes' = [objectMutexes EXCEPT ![at[t]] = None]
    /\ Advance(t)
    /\ UNCHANGED <<full, unread>>

Accept(t) ==
    /\ pc[t] = "test"
    /\ full[at[t]] = Wanted(t)
    /\ pc' = [pc EXCEPT ![t] = "access"]
    /\ UNCHANGED <<objectMutexes, full, unread, at, turn>>

\* The load of a reader, the store of a writer.
Access(t) ==
    /\ pc[t] = "access"
    /\ unread' = IF t \in Readers THEN unread \ {at[t]} ELSE unread \cup {at[t]}
    /\ pc' = [pc EXCEPT ![t] = "release"]
    /\ UNCHANGED <<objectMutexes, full, at, turn>>

Release(t) ==
    /\ pc[t] = "release"
    /\ full' = [full EXCEPT ![at[t]] = t \in Writers]
    /\ objectMutexes' = [objectMutexes EXCEPT ![at[t]] = None]
    /\ Advance(t)
    /\ UNCHANGED unread

Thread(t) ==
    \/ TryBusy(t) \/ TryLock(t) \/ Skip(t)
    \/ Accept(t) \/ Access(t) \/ Release(t)

\* reader() and writer() are the same walk, looking for opposite flags.
Reader(r) == r \in Readers /\ Thread(r)
Writer(w) == w \in Writers /\ Thread(w)

------------------------------------------------------------------------------
(* main() returns once it has joined every thread.                         *)

AllDone == \A t \in Threads : pc[t] = "done"

Terminating == AllDone /\ UNCHANGED vars

Next == (\E t \in Threads : Reader(t) \/ Writer(t)) \/ Terminating

Spec == Init /\ [][Next]_vars

------------------------------------------------------------------------------
(* Properties                                                              *)

\* A reader loads a value nobody has loaded before; a writer never overwrites
\* a value nobody has loaded.  So every value is read at most once.
EachValueReadOnce ==
    \A t \in Threads : pc[t] = "access" => (at[t] \in unread <=> t \in Readers)
=============================================================================
