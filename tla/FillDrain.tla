------------------------------ MODULE FillDrain ------------------------------
(***************************************************************************)
(* lab01/ex6.c: writers fill a buffer of BUFFER_SIZE slots, readers then   *)
(* empty it, slot by slot, and the two phases alternate.                   *)
(*                                                                         *)
(* One mutex guards the four counters.  No thread blocks inside a critical *)
(* section except in pthread_cond_wait, which releases the mutex, so every *)
(* critical section is one atomic action.  The slot itself is read or      *)
(* written between two critical sections, without the mutex: that access   *)
(* is an action of its own.                                                *)
(*                                                                         *)
(* The integers stored in buffer[] are abstracted to what the properties   *)
(* tell apart: unread is the set of slots whose last access was a store.   *)
(***************************************************************************)
EXTENDS Integers, FiniteSets

CONSTANTS Readers,      \* the READERS_COUNT reader threads
          Writers,      \* the WRITERS_COUNT writer threads
          TURNS,        \* rounds of every thread
          BUFFER_SIZE   \* slots of the buffer

\* The shapes of the constants.
ASSUME ConstantsAssumption ==
    /\ IsFiniteSet(Readers)
    /\ IsFiniteSet(Writers)
    /\ Readers \cap Writers = {}
    /\ TURNS \in Nat \ {0}
    /\ BUFFER_SIZE \in Nat \ {0}

\* The program's constants (8 readers, 8 writers, 4 turns, 4 slots) make as
\* many reads as writes, and a whole number of batches.
ASSUME BalanceAssumption ==
    /\ Cardinality(Readers) = Cardinality(Writers)
    /\ (Cardinality(Writers) * TURNS) % BUFFER_SIZE = 0

Threads == Readers \cup Writers
Slots == 0 .. BUFFER_SIZE - 1

VARIABLES
    written,     \* slots stored in this batch
    toRead,      \* slots of this batch not yet given back by a reader
    writeIndex,  \* next slot for a writer
    readIndex,   \* next slot for a reader
    unread,      \* slots holding a value that no reader has loaded
    pc,          \* where each thread is in its round
    slot,        \* the local j of each thread
    turn         \* the local i of each thread

vars == <<written, toRead, writeIndex, readIndex, unread, pc, slot, turn>>

Init ==
    /\ written = 0
    /\ toRead = 0
    /\ writeIndex = 0
    /\ readIndex = 0
    /\ unread = {}
    /\ pc = [t \in Threads |-> "enter"]
    /\ slot = [t \in Threads |-> 0]
    /\ turn = [t \in Threads |-> 0]

------------------------------------------------------------------------------
(* Pieces shared by the two thread functions.                              *)

\* Mutation: the readers start counting their rounds at one.
EndTurnReadersEarly(t) ==
    LET done == IF t \in Readers THEN turn[t] + 2 ELSE turn[t] + 1
    IN  [pc EXCEPT ![t] = IF done < TURNS THEN "enter" ELSE "done"]

\* The end of a round of t: the loop head is next, or the thread returns.
EndTurn(t) ==
    [pc EXCEPT ![t] = IF turn[t] + 1 < TURNS THEN "enter" ELSE "done"]

\* Mutation: the broadcast is forgotten.
BroadcastNobody(S, p) == p

\* pthread_cond_broadcast: every thread of S asleep on its condition variable
\* goes back to test its condition.
Broadcast(S, p) ==
    [t \in Threads |-> IF t \in S /\ p[t] = "asleep" THEN "enter" ELSE p[t]]

\* pthread_cond_wait, entered with the waiting condition true.
Sleep(t) ==
    /\ pc' = [pc EXCEPT ![t] = "asleep"]
    /\ UNCHANGED <<written, toRead, writeIndex, readIndex, unread, slot, turn>>

\* POSIX lets pthread_cond_wait return without a broadcast.
SpuriousWakeup(t) ==
    /\ pc[t] = "asleep"
    /\ pc' = [pc EXCEPT ![t] = "enter"]
    /\ UNCHANGED <<written, toRead, writeIndex, readIndex, unread, slot, turn>>

------------------------------------------------------------------------------
(* reader()                                                                *)

\* Mutation: a reader does not wait for the end of the batch.
ReaderMustWaitNoPhase == readIndex = BUFFER_SIZE

\* The condition of the reader's waiting loop.
ReaderMustWait == written < BUFFER_SIZE \/ readIndex = BUFFER_SIZE

ReaderSleep(r) ==
    /\ pc[r] = "enter"
    /\ ReaderMustWait
    /\ Sleep(r)

ReaderClaim(r) ==
    /\ pc[r] = "enter"
    /\ ~ReaderMustWait
    /\ slot' = [slot EXCEPT ![r] = readIndex]
    /\ readIndex' = readIndex + 1
    /\ pc' = [pc EXCEPT ![r] = "access"]
    /\ UNCHANGED <<written, toRead, writeIndex, unread, turn>>

ReaderLoad(r) ==
    /\ pc[r] = "access"
    /\ unread' = unread \ {slot[r]}
    /\ pc' = [pc EXCEPT ![r] = "leave"]
    /\ UNCHANGED <<written, toRead, writeIndex, readIndex, slot, turn>>

ReaderLeave(r) ==
    /\ pc[r] = "leave"
    /\ toRead' = toRead - 1
    /\ turn' = [turn EXCEPT ![r] = @ + 1]
    /\ IF toRead' = 0
       THEN /\ written' = 0
            /\ writeIndex' = 0
            /\ pc' = Broadcast(Writers, EndTurn(r))
       ELSE /\ pc' = EndTurn(r)
            /\ UNCHANGED <<written, writeIndex>>
    /\ UNCHANGED <<readIndex, unread, slot>>

Reader(r) == ReaderSleep(r) \/ ReaderClaim(r) \/ ReaderLoad(r) \/ ReaderLeave(r)

------------------------------------------------------------------------------
(* writer()                                                                *)

\* The condition of the writer's waiting loop.
WriterMustWait == toRead > 0 \/ writeIndex = BUFFER_SIZE

WriterSleep(w) ==
    /\ pc[w] = "enter"
    /\ WriterMustWait
    /\ Sleep(w)

WriterClaim(w) ==
    /\ pc[w] = "enter"
    /\ ~WriterMustWait
    /\ slot' = [slot EXCEPT ![w] = writeIndex]
    /\ writeIndex' = writeIndex + 1
    /\ pc' = [pc EXCEPT ![w] = "access"]
    /\ UNCHANGED <<written, toRead, readIndex, unread, turn>>

WriterStore(w) ==
    /\ pc[w] = "access"
    /\ unread' = unread \cup {slot[w]}
    /\ pc' = [pc EXCEPT ![w] = "leave"]
    /\ UNCHANGED <<written, toRead, writeIndex, readIndex, slot, turn>>

WriterLeave(w) ==
    /\ pc[w] = "leave"
    /\ written' = written + 1
    /\ turn' = [turn EXCEPT ![w] = @ + 1]
    /\ IF written' = BUFFER_SIZE
       THEN /\ toRead' = BUFFER_SIZE
            /\ readIndex' = 0
            /\ pc' = Broadcast(Readers, EndTurn(w))
       ELSE /\ pc' = EndTurn(w)
            /\ UNCHANGED <<toRead, readIndex>>
    /\ UNCHANGED <<writeIndex, unread, slot>>

Writer(w) == WriterSleep(w) \/ WriterClaim(w) \/ WriterStore(w) \/ WriterLeave(w)

------------------------------------------------------------------------------
(* main() returns once it has joined every thread.                         *)

AllDone == \A t \in Threads : pc[t] = "done"

Terminating == AllDone /\ UNCHANGED vars

Next ==
    \/ \E r \in Readers : Reader(r)
    \/ \E w \in Writers : Writer(w)
    \/ \E t \in Threads : SpuriousWakeup(t)
    \/ Terminating

Spec == Init /\ [][Next]_vars

\* Every thread the scheduler can run is eventually run.  Nothing is assumed
\* of spurious wakeups.
Fairness ==
    /\ \A r \in Readers : WF_vars(Reader(r))
    /\ \A w \in Writers : WF_vars(Writer(w))

FairSpec == Spec /\ Fairness

------------------------------------------------------------------------------
(* Properties                                                              *)

TypeOK ==
    /\ written \in 0 .. BUFFER_SIZE
    /\ toRead \in 0 .. BUFFER_SIZE
    /\ writeIndex \in 0 .. BUFFER_SIZE
    /\ readIndex \in 0 .. BUFFER_SIZE
    /\ unread \in SUBSET Slots
    /\ pc \in [Threads -> {"enter", "asleep", "access", "leave", "done"}]
    /\ slot \in [Threads -> Slots]
    /\ turn \in [Threads -> 0 .. TURNS]

\* Two threads never work on the same slot at the same time, although
\* buffer[j] is accessed without the mutex.
NoDataRace ==
    \A s, t \in Threads :
        (pc[s] = "access" /\ pc[t] = "access" /\ slot[s] = slot[t]) => s = t

\* A thread asleep on a condition variable still has to wait: whenever its
\* waiting condition becomes false somebody has broadcast to it.
NoLostWakeup ==
    /\ \A r \in Readers : pc[r] = "asleep" => ReaderMustWait
    /\ \A w \in Writers : pc[w] = "asleep" => WriterMustWait

\* Every value stored has been read and no batch is under way.
Clean == unread = {} /\ toRead = 0 /\ written = 0

\* The threads are never all asleep: none of the broadcasts is missing, and no
\* batch is left that has not enough readers or writers.  When all have
\* returned, no value is left.
NoDeadlock ==
    IF AllDone THEN Clean ELSE \E t \in Threads : pc[t] \notin {"asleep", "done"}

\* Every thread returns, so that main() joins them all.
Termination == <>(AllDone /\ Clean)

\* The buffer is used in batches as BatchBuffer describes: the drain mode is
\* exactly the time when toRead is positive.
Batches == INSTANCE BatchBuffer
               WITH full <- unread,
                    mode <- IF toRead > 0 THEN "drain" ELSE "fill"

ImplementsBatches == Batches!Spec
==============================================================================
