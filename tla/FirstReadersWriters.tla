------------------------ MODULE FirstReadersWriters ------------------------
(***************************************************************************)
(* lab01/ex1.c: the first readers-writers problem with two mutexes.        *)
(* readerMutex guards readersCount; writerMutex is held by a writer, or by *)
(* the readers as a group: the first one in locks it, the last one out     *)
(* unlocks it.                                                             *)
(*                                                                         *)
(* The first reader blocks on writerMutex while it holds readerMutex, so   *)
(* both mutexes are state.  A critical section of readerMutex in which     *)
(* nothing blocks is one action.  The mutexes have the default type, whose *)
(* unlock does not look at the owner: writerMutex records the thread that  *)
(* locked it, and any thread's unlock frees it.                            *)
(*                                                                         *)
(* The integer *object is left out: what matters is who is at it.          *)
(***************************************************************************)
EXTENDS Integers, FiniteSets

CONSTANTS Readers,       \* the READER_COUNT reader threads
          Writers,       \* the writer threads (the program starts one)
          ACTION_COUNT,  \* rounds of every thread
          None           \* the holder of a free mutex

\* The shapes of the constants.
ASSUME ConstantsAssumption ==
    /\ IsFiniteSet(Readers)
    /\ IsFiniteSet(Writers)
    /\ Readers \cap Writers = {}
    /\ None \notin Readers \cup Writers
    /\ ACTION_COUNT \in Nat \ {0}

Threads == Readers \cup Writers

VARIABLES
    readersCount,  \* the static counter of reader()
    readerMutex,   \* the thread that locked it, or None
    writerMutex,   \* the thread that locked it, or None
    pc,            \* where each thread is in its round
    turn           \* the local i of each thread

vars == <<readersCount, readerMutex, writerMutex, pc, turn>>

Init ==
    /\ readersCount = 0
    /\ readerMutex = None
    /\ writerMutex = None
    /\ pc = [t \in Threads |-> "idle"]
    /\ turn = [t \in Threads |-> 0]

\* The end of a round of t: the loop head is next, or the thread returns.
EndTurn(t) ==
    /\ turn' = [turn EXCEPT ![t] = @ + 1]
    /\ pc' = [pc EXCEPT ![t] = IF turn[t] + 1 < ACTION_COUNT THEN "idle" ELSE "done"]

------------------------------------------------------------------------------
(* reader()                                                                *)

\* Mutations: every reader locks writerMutex, or the second one does.
FirstInAll(n) == TRUE
FirstInSecond(n) == n = 2

\* The reader that brought readersCount to n locks writerMutex.
FirstIn(n) == n = 1

\* Mutations: every reader unlocks writerMutex, or the last but one does.
LastOutAll(n) == TRUE
LastOutEarly(n) == n = 1

\* The reader that brought readersCount to n unlocks writerMutex.
LastOut(n) == n = 0

\* The first reader goes on to lock writerMutex and keeps readerMutex until
\* it has it.  The others are in.
ReaderArrive(r) ==
    /\ pc[r] = "idle"
    /\ readerMutex = None
    /\ readersCount' = readersCount + 1
    /\ IF FirstIn(readersCount')
       THEN readerMutex' = r /\ pc' = [pc EXCEPT ![r] = "lockWriter"]
       ELSE UNCHANGED readerMutex /\ pc' = [pc EXCEPT ![r] = "read"]
    /\ UNCHANGED <<writerMutex, turn>>

ReaderLockWriter(r) ==
    /\ pc[r] = "lockWriter"
    /\ writerMutex = None
    /\ writerMutex' = r
    /\ readerMutex' = None
    /\ pc' = [pc EXCEPT ![r] = "read"]
    /\ UNCHANGED <<readersCount, turn>>

ReaderRead(r) ==
    /\ pc[r] = "read"
    /\ pc' = [pc EXCEPT ![r] = "depart"]
    /\ UNCHANGED <<readersCount, readerMutex, writerMutex, turn>>

ReaderDepart(r) ==
    /\ pc[r] = "depart"
    /\ readerMutex = None
    /\ readersCount' = readersCount - 1
    /\ writerMutex' = IF LastOut(readersCount') THEN None ELSE writerMutex
    /\ EndTurn(r)
    /\ UNCHANGED readerMutex

Reader(r) ==
    \/ ReaderArrive(r)
    \/ ReaderLockWriter(r)
    \/ ReaderRead(r)
    \/ ReaderDepart(r)

------------------------------------------------------------------------------
(* writer()                                                                *)

WriterLock(w) ==
    /\ pc[w] = "idle"
    /\ writerMutex = None
    /\ writerMutex' = w
    /\ pc' = [pc EXCEPT ![w] = "write"]
    /\ UNCHANGED <<readersCount, readerMutex, turn>>

WriterUnlock(w) ==
    /\ pc[w] = "write"
    /\ writerMutex' = None
    /\ EndTurn(w)
    /\ UNCHANGED <<readersCount, readerMutex>>

Writer(w) == WriterLock(w) \/ WriterUnlock(w)

------------------------------------------------------------------------------
(* main() returns once it has joined every thread.                         *)

AllDone == \A t \in Threads : pc[t] = "done"

Terminating == AllDone /\ UNCHANGED vars

Next ==
    \/ \E r \in Readers : Reader(r)
    \/ \E w \in Writers : Writer(w)
    \/ Terminating

Spec == Init /\ [][Next]_vars

\* Every thread the scheduler can run is eventually run.  A thread waiting
\* for a mutex may be overtaken, but the others have finitely many rounds.
Fairness ==
    /\ \A r \in Readers : WF_vars(Reader(r))
    /\ \A w \in Writers : WF_vars(Writer(w))

FairSpec == Spec /\ Fairness

------------------------------------------------------------------------------
(* Properties                                                              *)

TypeOK ==
    /\ readersCount \in 0 .. Cardinality(Readers)
    /\ readerMutex \in Readers \cup {None}
    /\ writerMutex \in Threads \cup {None}
    /\ pc \in [Threads -> {"idle", "lockWriter", "read", "depart", "write", "done"}]
    /\ turn \in [Threads -> 0 .. ACTION_COUNT]

\* The readers that have passed both mutexes and not yet left.
Inside == {r \in Readers : pc[r] \in {"read", "depart"}}

\* A writer is alone at the object.
MutualExclusion ==
    \A w \in Writers : pc[w] = "write" =>
        /\ Inside = {}
        /\ \A v \in Writers : pc[v] = "write" => v = w

\* What makes this the first readers-writers problem (ex1.c names it so): as
\* long as one reader is inside, no other reader is kept waiting.  The gate,
\* readerMutex, is then free, and no reader queues for writerMutex.
NoReaderKeptWaiting ==
    Inside # {} =>
        /\ readerMutex = None
        /\ \A r \in Readers : pc[r] # "lockWriter"

\* The count is back to zero and both mutexes are free.
Clean == readersCount = 0 /\ readerMutex = None /\ writerMutex = None

\* t is about to lock a mutex that is held.
Waiting(t) ==
    \/ pc[t] = "lockWriter" /\ writerMutex # None
    \/ pc[t] = "idle" /\ t \in Writers /\ writerMutex # None
    \/ pc[t] \in {"idle", "depart"} /\ t \in Readers /\ readerMutex # None

\* The threads never all wait for each other, although the first reader waits
\* for one mutex while it holds the other: one of them can go on until all
\* have returned, and they leave everything as they found it.
NoDeadlock ==
    IF AllDone THEN Clean ELSE \E t \in Threads : pc[t] # "done" /\ ~Waiting(t)

\* Every thread returns, so that main() joins them all.
Termination == <>(AllDone /\ Clean)

\* The protocol implements the abstract readers-writers object.
Object == INSTANCE ReadersWriters
              WITH reading <- {r \in Readers : pc[r] = "read"},
                   writing <- {w \in Writers : pc[w] = "write"}

ImplementsReadersWriters == Object!Spec
=============================================================================
