---------------------------- MODULE WritersCritic ----------------------------
(***************************************************************************)
(* lab01/ex4.c: the readers and writers of ex1.c and a critic, who needs   *)
(* the object for himself and first waits, on the condition variable       *)
(* criticAway, until every writer has written something.                   *)
(*                                                                         *)
(* The reader threads, and the way a writer takes the object, are those of *)
(* FirstReadersWriters.  writerMutex is the mutex of criticAway as well:   *)
(* the critic gives it up while asleep and tests writerCount again when he *)
(* has it back.                                                            *)
(*                                                                         *)
(* Thread identifiers run from 1 to WRITERS_COUNT and index an array of    *)
(* WRITERS_COUNT cells, so the last writer uses the byte after the array.  *)
(* With seven writers that byte is padding in the program's memory layout: *)
(* a zero byte of its own, which is how it is modelled.                    *)
(***************************************************************************)
EXTENDS Integers, FiniteSets

CONSTANTS Readers,  \* the READERS_COUNT reader threads
          Writers,  \* the WRITERS_COUNT writer threads
          Critic,   \* the critic thread
          TURNS,    \* rounds of every thread
          None      \* the holder of a free mutex

\* The shapes of the constants.
ASSUME ConstantsAssumption ==
    /\ IsFiniteSet(Readers)
    /\ IsFiniteSet(Writers)
    /\ Readers \cap Writers = {}
    /\ Critic \notin Readers \cup Writers
    /\ None \notin Readers \cup Writers \cup {Critic}
    /\ TURNS \in Nat \ {0}

Threads == Readers \cup Writers \cup {Critic}
WRITERS_COUNT == Cardinality(Writers)

VARIABLES
    readerCount,     \* the readers that have arrived and not departed
    readerMutex,     \* the thread that locked it, or None
    writerMutex,     \* the thread that locked it, or None
    wroteSomething,  \* per writer, whether it has written
    writerCount,     \* the writers that have written
    pc,              \* where each thread is in its round
    turn             \* the local i of each thread

vars == <<readerCount, readerMutex, writerMutex, wroteSomething, writerCount, pc, turn>>

Init ==
    /\ readerCount = 0
    /\ readerMutex = None
    /\ writerMutex = None
    /\ wroteSomething = [w \in Writers |-> FALSE]
    /\ writerCount = 0
    /\ pc = [t \in Threads |-> "idle"]
    /\ turn = [t \in Threads |-> 0]

\* The protocol shared with ex1.c.
RW == INSTANCE FirstReadersWriters
          WITH ACTION_COUNT <- TURNS, readersCount <- readerCount

\* The end of a round of t: the loop head is next, or the thread returns.
EndTurn(t) ==
    [pc EXCEPT ![t] = IF turn[t] + 1 < TURNS THEN "idle" ELSE "done"]

------------------------------------------------------------------------------
(* reader()                                                                *)

Reader(r) == RW!Reader(r) /\ UNCHANGED <<wroteSomething, writerCount>>

------------------------------------------------------------------------------
(* writer()                                                                *)

WriterLock(w) == RW!WriterLock(w) /\ UNCHANGED <<wroteSomething, writerCount>>

\* Mutation: every writing counts.
CountWriting(w) ==
    /\ wroteSomething' = [wroteSomething EXCEPT ![w] = TRUE]
    /\ writerCount' = writerCount + 1

\* writerCount goes up with the writer's first writing only.
CountWriter(w) ==
    IF wroteSomething[w]
    THEN UNCHANGED <<wroteSomething, writerCount>>
    ELSE /\ wroteSomething' = [wroteSomething EXCEPT ![w] = TRUE]
         /\ writerCount' = writerCount + 1

\* pthread_cond_broadcast(&criticAway).
WakeCritic(p) == IF p[Critic] = "asleep" THEN [p EXCEPT ![Critic] = "idle"] ELSE p

WriterUnlock(w) ==
    /\ pc[w] = "write"
    /\ CountWriter(w)
    /\ pc' = IF writerCount' = WRITERS_COUNT THEN WakeCritic(EndTurn(w)) ELSE EndTurn(w)
    /\ writerMutex' = None
    /\ turn' = [turn EXCEPT ![w] = @ + 1]
    /\ UNCHANGED <<readerCount, readerMutex>>

Writer(w) == WriterLock(w) \/ WriterUnlock(w)

------------------------------------------------------------------------------
(* critic()                                                                *)

\* Mutation: the critic counts the writers from one.
CriticMustWaitMore == writerCount # WRITERS_COUNT + 1

\* The condition of the critic's waiting loop.
CriticMustWait == writerCount # WRITERS_COUNT

CriticSleep ==
    /\ pc[Critic] = "idle"
    /\ writerMutex = None
    /\ CriticMustWait
    /\ pc' = [pc EXCEPT ![Critic] = "asleep"]
    /\ UNCHANGED <<readerCount, readerMutex, writerMutex, wroteSomething, writerCount, turn>>

\* Mutation: the critic does not have writerMutex when he has waited.
CriticLockNothing ==
    /\ pc[Critic] = "idle"
    /\ ~CriticMustWait
    /\ writerMutex' = Critic
    /\ pc' = [pc EXCEPT ![Critic] = "criticize"]
    /\ UNCHANGED <<readerCount, readerMutex, wroteSomething, writerCount, turn>>

CriticLock ==
    /\ pc[Critic] = "idle"
    /\ writerMutex = None
    /\ ~CriticMustWait
    /\ writerMutex' = Critic
    /\ pc' = [pc EXCEPT ![Critic] = "criticize"]
    /\ UNCHANGED <<readerCount, readerMutex, wroteSomething, writerCount, turn>>

CriticUnlock ==
    /\ pc[Critic] = "criticize"
    /\ writerMutex' = None
    /\ turn' = [turn EXCEPT ![Critic] = @ + 1]
    /\ pc' = EndTurn(Critic)
    /\ UNCHANGED <<readerCount, readerMutex, wroteSomething, writerCount>>

CriticStep == CriticSleep \/ CriticLock \/ CriticUnlock

\* POSIX lets pthread_cond_wait return without a broadcast.
SpuriousWakeup ==
    /\ pc[Critic] = "asleep"
    /\ pc' = WakeCritic(pc)
    /\ UNCHANGED <<readerCount, readerMutex, writerMutex, wroteSomething, writerCount, turn>>

------------------------------------------------------------------------------
(* main() returns once it has joined every thread.                         *)

AllDone == \A t \in Threads : pc[t] = "done"

Terminating == AllDone /\ UNCHANGED vars

Next ==
    \/ \E r \in Readers : Reader(r)
    \/ \E w \in Writers : Writer(w)
    \/ CriticStep
    \/ SpuriousWakeup
    \/ Terminating

Spec == Init /\ [][Next]_vars

\* Every thread the scheduler can run is eventually run.  The critic also
\* competes for writerMutex when he tests his condition; the other threads
\* have finitely many rounds, so weak fairness is enough for him too.
Fairness ==
    /\ \A r \in Readers : WF_vars(Reader(r))
    /\ \A w \in Writers : WF_vars(Writer(w))
    /\ WF_vars(CriticStep)

FairSpec == Spec /\ Fairness

------------------------------------------------------------------------------
(* Properties                                                              *)

\* The critic starts only when every writer has written (ex4.c: "you are not
\* a writer till you have written something!").
CriticAfterEveryWriter ==
    pc[Critic] = "criticize" => \A w \in Writers : wroteSomething[w]

\* t is asleep, or about to lock a mutex that is held.
Waiting(t) ==
    \/ RW!Waiting(t)
    \/ t = Critic /\ (pc[t] = "asleep" \/ (pc[t] = "idle" /\ writerMutex # None))

\* The threads never all wait for each other or for a broadcast: one of them
\* can go on until all have returned, and by then the readers' count is back to
\* zero and both mutexes are free.
NoDeadlock ==
    IF AllDone THEN RW!Clean ELSE \E t \in Threads : pc[t] # "done" /\ ~Waiting(t)

\* Every thread returns, so that main() joins them all.
Termination == <>(AllDone /\ RW!Clean)

\* The critic is one more writer to the abstract readers-writers object.
Object == INSTANCE ReadersWriters
              WITH Writers <- Writers \cup {Critic},
                   reading <- {r \in Readers : pc[r] = "read"},
                   writing <- {t \in Writers \cup {Critic} : pc[t] \in {"write", "criticize"}}

ImplementsReadersWriters == Object!Spec
==============================================================================
