---------------------------- MODULE SharedBuffer ----------------------------
(***************************************************************************)
(* lab01/ex2.c: writers store into the slots of a circular buffer, readers *)
(* read the slot that was completed last.                                  *)
(*                                                                         *)
(* One mutex guards the counters, and no thread blocks inside a critical   *)
(* section except in pthread_cond_wait, so a critical section is one       *)
(* action.  A thread tests written in its first critical section and       *)
(* changes it in its second: several threads may pass the test on the same *)
(* value, so written leaves the range 0 .. BUFFER_SIZE on both sides.      *)
(*                                                                         *)
(* The integers stored in buffer[] are abstracted to stored, the slots     *)
(* that some writer has stored into.                                       *)
(***************************************************************************)
EXTENDS Integers, FiniteSets

CONSTANTS Readers,      \* the READERS_COUNT reader threads
          Writers,      \* the WRITERS_COUNT writer threads
          TURNS,        \* rounds of every thread
          BUFFER_SIZE   \* slots of the buffer

\* The shapes of the constants.
ASSUME ConstantsAssumption ==
    /\ IsFiniteSet(Readers)
    /\ IsFiniteSet(Writers)
    /\ Readers \cap Writers = {}
    /\ TURNS \in Nat \ {0}
    /\ BUFFER_SIZE \in Nat \ {0}

\* The program starts as many readers (8) as writers (8).
ASSUME BalanceAssumption == Cardinality(Readers) = Cardinality(Writers)

Threads == Readers \cup Writers
Slots == 0 .. BUFFER_SIZE - 1

VARIABLES
    written,     \* values counted in by writers minus those counted out by readers
    writeIndex,  \* next slot for a writer
    readIndex,   \* the slot completed last
    stored,      \* slots some writer has stored into
    pc,          \* where each thread is in its round
    slot,        \* the local j of each thread
    turn         \* the local i of each thread

vars == <<written, writeIndex, readIndex, stored, pc, slot, turn>>

Init ==
    /\ written = 0
    /\ writeIndex = 0
    /\ readIndex = 0
    /\ stored = {}
    /\ pc = [t \in Threads |-> "enter"]
    /\ slot = [t \in Threads |-> 0]
    /\ turn = [t \in Threads |-> 0]

------------------------------------------------------------------------------
(* Pieces shared by the two thread functions.                              *)

\* Mutation: the writers start counting their rounds at one.
EndTurnWritersEarly(t) ==
    LET done == IF t \in Writers THEN turn[t] + 2 ELSE turn[t] + 1
    IN  [pc EXCEPT ![t] = IF done < TURNS THEN "enter" ELSE "done"]

\* The end of a round of t: the loop head is next, or the thread returns.
EndTurn(t) ==
    [pc EXCEPT ![t] = IF turn[t] + 1 < TURNS THEN "enter" ELSE "done"]

\* Mutation: the broadcast is forgotten.
BroadcastNobody(S, p) == p

\* pthread_cond_broadcast: every thread of S asleep on its condition variable
\* goes back to test its condition.
Broadcast(S, p) ==
    [t \in Threads |-> IF t \in S /\ p[t] = "asleep" THEN "enter" ELSE p[t]]

\* pthread_cond_wait, entered with the waiting condition true.
Sleep(t) ==
    /\ pc' = [pc EXCEPT ![t] = "asleep"]
    /\ UNCHANGED <<written, writeIndex, readIndex, stored, slot, turn>>

\* POSIX lets pthread_cond_wait return without a broadcast.
SpuriousWakeup(t) ==
    /\ pc[t] = "asleep"
    /\ pc' = [pc EXCEPT ![t] = "enter"]
    /\ UNCHANGED <<written, writeIndex, readIndex, stored, slot, turn>>

------------------------------------------------------------------------------
(* reader()                                                                *)

\* Mutation: a reader waits only when others have run ahead of the writers.
ReaderMustWaitBelow == written < 0

\* The condition of the reader's waiting loop.
ReaderMustWait == written = 0

ReaderSleep(r) ==
    /\ pc[r] = "enter"
    /\ ReaderMustWait
    /\ Sleep(r)

\* The reader takes the slot completed last.  It counts nothing yet.
ReaderClaim(r) ==
    /\ pc[r] = "enter"
    /\ ~ReaderMustWait
    /\ slot' = [slot EXCEPT ![r] = readIndex]
    /\ pc' = [pc EXCEPT ![r] = "access"]
    /\ UNCHANGED <<written, writeIndex, readIndex, stored, turn>>

ReaderLoad(r) ==
    /\ pc[r] = "access"
    /\ pc' = [pc EXCEPT ![r] = "leave"]
    /\ UNCHANGED <<written, writeIndex, readIndex, stored, slot, turn>>

ReaderLeave(r) ==
    /\ pc[r] = "leave"
    /\ written' = written - 1
    /\ turn' = [turn EXCEPT ![r] = @ + 1]
    /\ pc' = Broadcast(Writers, EndTurn(r))
    /\ UNCHANGED <<writeIndex, readIndex, stored, slot>>

Reader(r) == ReaderSleep(r) \/ ReaderClaim(r) \/ ReaderLoad(r) \/ ReaderLeave(r)

------------------------------------------------------------------------------
(* writer()                                                                *)

\* The condition of the writer's waiting loop.
WriterMustWait == written = BUFFER_SIZE

NextSlot(i) == IF i + 1 = BUFFER_SIZE THEN 0 ELSE i + 1

WriterSleep(w) ==
    /\ pc[w] = "enter"
    /\ WriterMustWait
    /\ Sleep(w)

WriterClaim(w) ==
    /\ pc[w] = "enter"
    /\ ~WriterMustWait
    /\ slot' = [slot EXCEPT ![w] = writeIndex]
    /\ writeIndex' = NextSlot(writeIndex)
    /\ pc' = [pc EXCEPT ![w] = "access"]
    /\ UNCHANGED <<written, readIndex, stored, turn>>

WriterStore(w) ==
    /\ pc[w] = "access"
    /\ stored' = stored \cup {slot[w]}
    /\ pc' = [pc EXCEPT ![w] = "leave"]
    /\ UNCHANGED <<written, writeIndex, readIndex, slot, turn>>

WriterLeave(w) ==
    /\ pc[w] = "leave"
    /\ written' = written + 1
    /\ readIndex' = slot[w]
    /\ turn' = [turn EXCEPT ![w] = @ + 1]
    /\ pc' = Broadcast(Readers, EndTurn(w))
    /\ UNCHANGED <<writeIndex, stored, slot>>

Writer(w) == WriterSleep(w) \/ WriterClaim(w) \/ WriterStore(w) \/ WriterLeave(w)

------------------------------------------------------------------------------
(* main() returns once it has joined every thread.                         *)

AllDone == \A t \in Threads : pc[t] = "done"

Terminating == AllDone /\ UNCHANGED vars

Next ==
    \/ \E r \in Readers : Reader(r)
    \/ \E w \in Writers : Writer(w)
    \/ \E t \in Threads : SpuriousWakeup(t)
    \/ Terminating

Spec == Init /\ [][Next]_vars

\* Every thread the scheduler can run is eventually run.  Nothing is assumed
\* of spurious wakeups.
Fairness ==
    /\ \A r \in Readers : WF_vars(Reader(r))
    /\ \A w \in Writers : WF_vars(Writer(w))

FairSpec == Spec /\ Fairness

------------------------------------------------------------------------------
(* Properties                                                              *)

TypeOK ==
    /\ written \in Int
    /\ writeIndex \in Slots
    /\ readIndex \in Slots
    /\ stored \in SUBSET Slots
    /\ pc \in [Threads -> {"enter", "asleep", "access", "leave", "done"}]
    /\ slot \in [Threads -> Slots]
    /\ turn \in [Threads -> 0 .. TURNS]
    /\ \A t \in Threads : pc[t] = "done" <=> turn[t] = TURNS

\* A thread sleeps only on its own side of the range.  A reader may sleep on
\* while written is negative, a writer while it is beyond BUFFER_SIZE, but no
\* reader sleeps over a value counted in, no writer over a slot counted free.
SleepersJustified ==
    /\ \A r \in Readers : pc[r] = "asleep" => written <= 0
    /\ \A w \in Writers : pc[w] = "asleep" => written >= BUFFER_SIZE

\* While a thread has rounds left, some thread with rounds left is awake: the
\* threads never all wait for each other.  When all have returned, as many
\* values have been counted out as in.
NoDeadlock ==
    IF AllDone THEN written = 0 ELSE \E t \in Threads : pc[t] \notin {"asleep", "done"}

\* A reader never loads from a slot no writer has stored into, however many
\* readers pass the test together.
LoadsStoredSlot ==
    \A r \in Readers : pc[r] = "access" => slot[r] \in stored

\* Every thread returns, so that main() joins them all.
Termination == <>(AllDone /\ written = 0)
=============================================================================
