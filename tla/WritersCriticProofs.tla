------------------------- MODULE WritersCriticProofs -------------------------
(***************************************************************************)
(* Proofs about lab01/ex4.c (module WritersCritic), for any number of      *)
(* readers, writers and rounds.                                            *)
(*                                                                         *)
(* Towards the readers the critic is one more writer, so that writerMutex  *)
(* is shared as in ex1.c.  What he waits for rests on writerCount being    *)
(* the number of writers that have written: each is counted once, and the  *)
(* one that completes the count wakes him.                                 *)
(***************************************************************************)
EXTENDS WritersCritic, FiniteSetTheorems, TLAPS

\* The threads that want the object for themselves.
Takers == Writers \cup {Critic}

Labels == {"idle", "lockWriter", "read", "depart", "write", "asleep", "criticize", "done"}

Typed ==
    /\ readerCount \in 0 .. Cardinality(Readers)
    /\ readerMutex \in Readers \cup {None}
    /\ writerMutex \in Threads \cup {None}
    /\ wroteSomething \in [Writers -> BOOLEAN]
    /\ writerCount \in 0 .. WRITERS_COUNT
    /\ pc \in [Threads -> Labels]
    /\ turn \in [Threads -> 0 .. TURNS]

\* Every thread goes through the states of its own function, and one that
\* has not returned has a round to do.
Places ==
    /\ \A r \in Readers : pc[r] \in {"idle", "lockWriter", "read", "depart", "done"}
    /\ \A w \in Writers : pc[w] \in {"idle", "write", "done"}
    /\ pc[Critic] \in {"idle", "asleep", "criticize", "done"}
    /\ \A t \in Threads : pc[t] # "done" => turn[t] < TURNS

\* The readers that have counted themselves in and not yet out.
Counted == {r \in Readers : pc[r] \in {"lockWriter", "read", "depart"}}

\* The readers that have passed both mutexes and not yet left.
Inside == {r \in Readers : pc[r] \in {"read", "depart"}}

\* The writers and the critic, while they have the object.
Alone == {t \in Takers : pc[t] \in {"write", "criticize"}}

CountExact == readerCount = Cardinality(Counted)

\* readerMutex is held between actions only by a first reader that waits for
\* writerMutex, and then nobody else is counted.
GateHeld ==
    /\ \A r \in Readers : pc[r] = "lockWriter" => readerMutex = r
    /\ readerMutex # None => /\ pc[readerMutex] = "lockWriter"
                             /\ Counted = {readerMutex}

\* writerMutex is held by the writer or the critic at the object, or by the
\* readers inside.
ObjectHeld ==
    /\ \A t \in Takers : t \in Alone <=> writerMutex = t
    /\ Inside # {} <=> writerMutex \in Readers

\* The writers that have written something.
Written == {w \in Writers : wroteSomething[w]}

\* Each writer is counted once, when it has written for the first time.
WritersExact == writerCount = Cardinality(Written)

\* The critic has the object only when the count is complete.
CriticInformed == pc[Critic] = "criticize" => ~CriticMustWait

\* The critic does not sleep through the broadcast of the last writer to be
\* counted: asleep, he has something to wait for.
NoLostWakeup == pc[Critic] = "asleep" => CriticMustWait

Sharing == Typed /\ Places /\ CountExact /\ GateHeld /\ ObjectHeld

IInv == Sharing /\ WritersExact /\ CriticInformed /\ NoLostWakeup

------------------------------------------------------------------------------
(* Sets of threads.                                                        *)

\* Any set of readers is finite, has at most as many elements as there are
\* readers, and is empty exactly when it has none.
LEMMA ReaderSets ==
    ASSUME NEW S \in SUBSET Readers
    PROVE  /\ IsFiniteSet(S)
           /\ Cardinality(S) \in 0 .. Cardinality(Readers)
           /\ Cardinality(Readers) \in Nat
           /\ Cardinality(S) = 0 <=> S = {}
<1>1. IsFiniteSet(S) /\ Cardinality(S) <= Cardinality(Readers)
  BY FS_Subset, ConstantsAssumption
<1>2. Cardinality(S) \in Nat /\ Cardinality(Readers) \in Nat
  BY <1>1, FS_CardinalityType, ConstantsAssumption
<1>. QED
  BY <1>1, <1>2, FS_EmptySet

\* Any set of writers is finite and has at most as many elements as there are
\* writers; with as many, it is the set of all writers.
LEMMA WriterSets ==
    ASSUME NEW S \in SUBSET Writers
    PROVE  /\ IsFiniteSet(S)
           /\ WRITERS_COUNT \in Nat
           /\ Cardinality(S) \in 0 .. WRITERS_COUNT
           /\ Cardinality(S) = WRITERS_COUNT => S = Writers
<1>. USE DEF WRITERS_COUNT
<1>1. /\ IsFiniteSet(S)
      /\ Cardinality(S) <= Cardinality(Writers)
      /\ Cardinality(S) = Cardinality(Writers) => S = Writers
  BY FS_Subset, ConstantsAssumption
<1>2. Cardinality(S) \in Nat /\ Cardinality(Writers) \in Nat
  BY <1>1, FS_CardinalityType, ConstantsAssumption
<1>. QED
  BY <1>1, <1>2

\* The readers, the writers and the critic are different threads, and none of
\* them is None.
LEMMA Kinds ==
    /\ Threads = Readers \cup Takers
    /\ Readers \cap Takers = {}
    /\ None \notin Threads
    /\ Critic \in Takers
    /\ Writers \subseteq Takers
    /\ Critic \notin Writers
BY ConstantsAssumption DEF Threads, Takers

------------------------------------------------------------------------------
(* The invariant holds initially, and every action preserves it.           *)

\* Nobody has begun.
LEMMA InitInvariant == Init => IInv
<1>. SUFFICES ASSUME Init PROVE IInv
  OBVIOUS
<1>. USE ConstantsAssumption, Kinds DEF Init
<1>1. Counted = {} /\ Inside = {} /\ Alone = {} /\ Written = {}
  BY DEF Counted, Inside, Alone, Written
<1>2. Typed
  <2>1. 0 \in 0 .. Cardinality(Readers) /\ 0 \in 0 .. WRITERS_COUNT
    BY ReaderSets, WriterSets
  <2>. QED
    BY <2>1 DEF Typed, Labels
<1>3. Places
  BY DEF Places
<1>4. CountExact /\ WritersExact
  BY <1>1, FS_EmptySet DEF CountExact, WritersExact
<1>5. GateHeld /\ ObjectHeld
  BY <1>1 DEF GateHeld, ObjectHeld
<1>6. CriticInformed /\ NoLostWakeup
  BY DEF CriticInformed, NoLostWakeup
<1>. QED
  BY <1>2, <1>3, <1>4, <1>5, <1>6 DEF IInv, Sharing

\* A reader counts itself in.
LEMMA ReaderArriveInvariant ==
    ASSUME Sharing, NEW r \in Readers, RW!ReaderArrive(r),
           UNCHANGED <<wroteSomething, writerCount>>
    PROVE  Sharing' /\ pc'[Critic] = pc[Critic]
<1>. USE ConstantsAssumption, Kinds DEF Sharing, RW!ReaderArrive
<1>1. /\ pc' \in [Threads -> Labels]
      /\ pc'[r] \in {"lockWriter", "read"}
      /\ \A t \in Threads \ {r} : pc'[t] = pc[t]
  BY DEF Typed, Labels
<1>2. Counted' = Counted \cup {r} /\ r \notin Counted
  BY <1>1 DEF Counted
<1>3. readerCount' = Cardinality(Counted')
  BY <1>2, ReaderSets, FS_AddElement DEF CountExact, Counted
<1>4. readerCount' \in 0 .. Cardinality(Readers)
  BY <1>3, ReaderSets DEF Counted
<1>5. Typed'
  BY <1>1, <1>4 DEF Typed
<1>6. Places'
  BY <1>1 DEF Places
<1>7. Alone' = Alone
  BY <1>1 DEF Alone
<1>8. CASE RW!FirstIn(readerCount')
  <2>1. Counted = {}
    <3>1. Cardinality(Counted) \in Nat
      BY ReaderSets DEF Counted
    <3>2. Cardinality(Counted) = 0
      BY <1>8, <3>1 DEF CountExact, RW!FirstIn
    <3>. QED
      BY <3>2, ReaderSets DEF Counted
  <2>2. readerMutex' = r /\ pc'[r] = "lockWriter"
    BY <1>8 DEF Typed
  <2>3. GateHeld'
    BY <1>1, <1>2, <2>1, <2>2 DEF GateHeld
  <2>4. Inside' = Inside
    BY <1>1, <2>1, <2>2 DEF Inside, Counted
  <2>5. ObjectHeld'
    BY <1>7, <2>4 DEF ObjectHeld
  <2>. QED
    BY <1>1, <1>3, <1>5, <1>6, <2>3, <2>5 DEF CountExact
<1>9. CASE ~RW!FirstIn(readerCount')
  <2>1. pc'[r] = "read" /\ readerMutex' = None
    BY <1>9 DEF Typed
  <2>2. Counted # {}
    BY <1>9, FS_EmptySet DEF CountExact, RW!FirstIn
  <2>3. Inside # {} /\ Inside' # {}
    BY <2>1, <2>2 DEF Inside, Counted, GateHeld
  <2>4. GateHeld'
    BY <1>1, <2>1 DEF GateHeld
  <2>5. ObjectHeld'
    BY <1>7, <2>3 DEF ObjectHeld
  <2>. QED
    BY <1>1, <1>3, <1>5, <1>6, <2>4, <2>5 DEF CountExact
<1>. QED
  BY <1>8, <1>9

\* The first reader gets the object for all of them.
LEMMA ReaderLockWriterInvariant ==
    ASSUME Sharing, NEW r \in Readers, RW!ReaderLockWriter(r),
           UNCHANGED <<wroteSomething, writerCount>>
    PROVE  Sharing' /\ pc'[Critic] = pc[Critic]
<1>. USE ConstantsAssumption, Kinds DEF Sharing, RW!ReaderLockWriter
<1>1. /\ pc' \in [Threads -> Labels]
      /\ pc'[r] = "read"
      /\ \A t \in Threads \ {r} : pc'[t] = pc[t]
  BY DEF Typed, Labels
<1>2. Counted' = Counted /\ Alone' = Alone
  BY <1>1 DEF Counted, Alone
<1>3. Typed' /\ CountExact'
  BY <1>1, <1>2 DEF Typed, CountExact
<1>4. Places'
  BY <1>1 DEF Places
<1>5. GateHeld'
  BY <1>1 DEF GateHeld
<1>6. Inside' # {}
  BY <1>1 DEF Inside
<1>7. Alone = {}
  BY DEF ObjectHeld, Alone
<1>8. ObjectHeld'
  BY <1>2, <1>6, <1>7 DEF ObjectHeld
<1>. QED
  BY <1>1, <1>3, <1>4, <1>5, <1>8

\* A reader is through with reading.
LEMMA ReaderReadInvariant ==
    ASSUME Sharing, NEW r \in Readers, RW!ReaderRead(r),
           UNCHANGED <<wroteSomething, writerCount>>
    PROVE  Sharing' /\ pc'[Critic] = pc[Critic]
<1>. USE ConstantsAssumption, Kinds DEF Sharing, RW!ReaderRead
<1>1. /\ pc' \in [Threads -> Labels]
      /\ pc'[r] = "depart"
      /\ \A t \in Threads \ {r} : pc'[t] = pc[t]
  BY DEF Typed, Labels
<1>2. Counted' = Counted /\ Inside' = Inside /\ Alone' = Alone
  BY <1>1 DEF Counted, Inside, Alone
<1>3. Typed' /\ CountExact'
  BY <1>1, <1>2 DEF Typed, CountExact
<1>4. Places'
  BY <1>1 DEF Places
<1>5. GateHeld'
  BY <1>1, <1>2 DEF GateHeld, Typed
<1>6. ObjectHeld'
  BY <1>2 DEF ObjectHeld
<1>. QED
  BY <1>1, <1>3, <1>4, <1>5, <1>6

\* A reader counts itself out, and the last one gives the object back.
LEMMA ReaderDepartInvariant ==
    ASSUME Sharing, NEW r \in Readers, RW!ReaderDepart(r),
           UNCHANGED <<wroteSomething, writerCount>>
    PROVE  Sharing' /\ pc'[Critic] = pc[Critic]
<1>. USE ConstantsAssumption, Kinds DEF Sharing, RW!ReaderDepart
<1>1. /\ pc' \in [Threads -> Labels]
      /\ pc'[r] \in {"idle", "done"}
      /\ \A t \in Threads \ {r} : pc'[t] = pc[t]
  BY DEF Typed, Labels, RW!EndTurn
<1>2. Counted' = Counted \ {r} /\ r \in Counted
  BY <1>1 DEF Counted
<1>3. readerCount' = Cardinality(Counted')
  <2>1. IsFiniteSet(Counted)
    BY ReaderSets DEF Counted
  <2>2. Cardinality(Counted') = Cardinality(Counted) - 1
    BY <1>2, <2>1, FS_RemoveElement
  <2>. QED
    BY <2>2 DEF CountExact
<1>4. readerCount' \in 0 .. Cardinality(Readers)
  BY <1>3, ReaderSets DEF Counted
<1>5. turn' \in [Threads -> 0 .. TURNS]
  BY DEF Typed, RW!EndTurn, Places
<1>6. Typed'
  BY <1>1, <1>4, <1>5 DEF Typed
<1>7. Places'
  BY <1>1 DEF Places, RW!EndTurn, Typed
<1>8. Inside # {} /\ writerMutex \in Readers
  BY DEF Inside, ObjectHeld
<1>9. Inside' = Counted' /\ Alone' = Alone
  BY <1>1 DEF Inside, Counted, GateHeld, Alone
<1>10. Inside' = {} <=> RW!LastOut(readerCount')
  BY <1>3, <1>9, ReaderSets DEF RW!LastOut, Counted
<1>11. GateHeld'
  BY <1>1 DEF GateHeld
<1>12. ObjectHeld'
  BY <1>8, <1>9, <1>10 DEF ObjectHeld
<1>. QED
  BY <1>1, <1>3, <1>6, <1>7, <1>11, <1>12 DEF CountExact

\* A thread that wants the object for itself takes it from nobody.
LEMMA TakeInvariant ==
    ASSUME Sharing, NEW t \in Takers, writerMutex = None, writerMutex' = t,
           pc' \in [Threads -> Labels], pc'[t] \in {"write", "criticize"},
           \A u \in Threads \ {t} : pc'[u] = pc[u], Places',
           UNCHANGED <<readerCount, readerMutex, wroteSomething, writerCount, turn>>
    PROVE  Sharing'
<1>. USE ConstantsAssumption, Kinds DEF Sharing
<1>1. Counted' = Counted /\ Inside' = Inside
  BY DEF Counted, Inside
<1>2. Typed' /\ CountExact'
  BY <1>1 DEF Typed, CountExact
<1>3. GateHeld'
  BY <1>1 DEF GateHeld, Typed
<1>4. Alone = {} /\ Inside = {}
  BY DEF ObjectHeld, Alone
<1>5. Alone' = {t}
  BY <1>4 DEF Alone
<1>6. ObjectHeld'
  BY <1>1, <1>4, <1>5 DEF ObjectHeld
<1>. QED
  BY <1>2, <1>3, <1>6

\* A thread that has had the object for itself leaves it free.
LEMMA ReleaseInvariant ==
    ASSUME Sharing, NEW t \in Alone, writerMutex' = None,
           pc' \in [Threads -> Labels], pc'[t] \in {"idle", "done"},
           \A u \in Threads \ {t, Critic} : pc'[u] = pc[u],
           pc[Critic] = "criticize" \/ pc'[Critic] # "criticize",
           wroteSomething' \in [Writers -> BOOLEAN],
           writerCount' \in 0 .. WRITERS_COUNT,
           turn' = [turn EXCEPT ![t] = @ + 1], Places',
           UNCHANGED <<readerCount, readerMutex>>
    PROVE  Sharing'
<1>. USE ConstantsAssumption, Kinds DEF Sharing
<1>. t \in Takers /\ t \in Threads
  BY DEF Alone
<1>1. Counted' = Counted /\ Inside' = Inside
  BY DEF Counted, Inside
<1>2. turn' \in [Threads -> 0 .. TURNS]
  BY DEF Typed, Places, Alone
<1>3. Typed' /\ CountExact'
  BY <1>1, <1>2 DEF Typed, CountExact
<1>4. GateHeld'
  BY <1>1 DEF GateHeld, Typed
<1>5. Alone = {t} /\ Inside = {}
  BY DEF ObjectHeld, Alone
<1>6. Alone' = {}
  <2>1. ASSUME NEW u \in Alone' PROVE FALSE
    <3>1. u # t
      BY <2>1 DEF Alone
    <3>2. u \in Takers /\ pc'[u] \in {"write", "criticize"} /\ u \notin Alone
      BY <2>1, <3>1, <1>5 DEF Alone
    <3>3. u = Critic
      BY <3>1, <3>2 DEF Alone
    <3>. QED
      BY <3>2, <3>3 DEF Alone, Places
  <2>. QED
    BY <2>1
<1>7. ObjectHeld'
  BY <1>1, <1>5, <1>6 DEF ObjectHeld
<1>. QED
  BY <1>3, <1>4, <1>7

\* A writer gets the object.
LEMMA WriterLockInvariant ==
    ASSUME IInv, NEW w \in Writers, WriterLock(w)
    PROVE  IInv'
<1>. USE ConstantsAssumption, Kinds DEF IInv, WriterLock, RW!WriterLock
<1>1. /\ pc' \in [Threads -> Labels]
      /\ pc'[w] = "write"
      /\ \A t \in Threads \ {w} : pc'[t] = pc[t]
  BY DEF Sharing, Typed, Labels
<1>2. Places'
  BY <1>1 DEF Sharing, Places
<1>3. Sharing'
  BY <1>1, <1>2, TakeInvariant
<1>4. WritersExact' /\ CriticInformed' /\ NoLostWakeup'
  BY <1>1 DEF WritersExact, Written, CriticInformed, NoLostWakeup, CriticMustWait
<1>. QED
  BY <1>3, <1>4

\* Counting a writer keeps the count exact.
LEMMA CountWriterExact ==
    ASSUME Typed, WritersExact, NEW w \in Writers, CountWriter(w)
    PROVE  /\ WritersExact'
           /\ wroteSomething' \in [Writers -> BOOLEAN]
           /\ writerCount' \in 0 .. WRITERS_COUNT
<1>1. CASE wroteSomething[w]
  BY <1>1 DEF CountWriter, WritersExact, Written, Typed
<1>2. CASE ~wroteSomething[w]
  <2>1. wroteSomething' = [wroteSomething EXCEPT ![w] = TRUE] /\ writerCount' = writerCount + 1
    BY <1>2 DEF CountWriter
  <2>2. wroteSomething' \in [Writers -> BOOLEAN]
    BY <2>1 DEF Typed
  <2>3. Written' = Written \cup {w} /\ w \notin Written
    BY <1>2, <2>1 DEF Written, Typed
  <2>4. writerCount' = Cardinality(Written')
    BY <2>1, <2>3, WriterSets, FS_AddElement DEF WritersExact, Written
  <2>5. writerCount' \in 0 .. WRITERS_COUNT
    BY <2>4, WriterSets DEF Written
  <2>. QED
    BY <2>2, <2>4, <2>5 DEF WritersExact
<1>. QED
  BY <1>1, <1>2

\* A writer gives the object back, is counted if it is its first time, and may wake
\* the critic.
LEMMA WriterUnlockInvariant ==
    ASSUME IInv, NEW w \in Writers, WriterUnlock(w)
    PROVE  IInv'
<1>. USE ConstantsAssumption, Kinds DEF IInv, WriterUnlock
<1>. w \in Threads /\ w # Critic
  OBVIOUS
<1>1. /\ pc' \in [Threads -> Labels]
      /\ pc'[w] = IF turn[w] + 1 < TURNS THEN "idle" ELSE "done"
      /\ \A t \in Threads \ {w, Critic} : pc'[t] = pc[t]
      /\ pc'[Critic] = IF writerCount' = WRITERS_COUNT /\ pc[Critic] = "asleep"
                       THEN "idle" ELSE pc[Critic]
  BY DEF Sharing, Typed, Labels, WakeCritic, EndTurn
<1>2. /\ WritersExact'
      /\ wroteSomething' \in [Writers -> BOOLEAN]
      /\ writerCount' \in 0 .. WRITERS_COUNT
  BY CountWriterExact DEF Sharing
<1>3. Places'
  <2>1. \A t \in Threads : pc'[t] # "done" => turn'[t] < TURNS
    BY <1>1 DEF Sharing, Typed, Places
  <2>. QED
    BY <1>1, <2>1 DEF Sharing, Places
<1>4. w \in Alone /\ pc[Critic] # "criticize"
  BY DEF Alone, Sharing, ObjectHeld
<1>5. Sharing'
  BY <1>1, <1>2, <1>3, <1>4, ReleaseInvariant DEF Sharing
<1>6. CriticInformed'
  BY <1>1, <1>4 DEF CriticInformed
<1>7. NoLostWakeup'
  BY <1>1 DEF NoLostWakeup, CriticMustWait
<1>. QED
  BY <1>2, <1>5, <1>6, <1>7

\* The critic falls asleep or is woken: nobody else can tell.
LEMMA CriticRestInvariant ==
    ASSUME IInv, CriticSleep \/ SpuriousWakeup
    PROVE  IInv'
<1>. USE ConstantsAssumption, Kinds DEF IInv, CriticSleep, SpuriousWakeup, WakeCritic
<1>1. /\ pc' \in [Threads -> Labels]
      /\ pc'[Critic] \in {"idle", "asleep"}
      /\ pc[Critic] \in {"idle", "asleep"}
      /\ pc'[Critic] = "asleep" => CriticMustWait
      /\ \A t \in Threads \ {Critic} : pc'[t] = pc[t]
      /\ UNCHANGED <<readerCount, readerMutex, writerMutex, wroteSomething, writerCount, turn>>
  BY DEF Sharing, Typed, Labels
<1>2. Counted' = Counted /\ Inside' = Inside /\ Alone' = Alone
  BY <1>1 DEF Counted, Inside, Alone
<1>3. Typed' /\ CountExact'
  BY <1>1, <1>2 DEF Sharing, Typed, CountExact
<1>4. Places'
  BY <1>1 DEF Sharing, Places
<1>5. GateHeld'
  BY <1>1, <1>2 DEF Sharing, GateHeld, Typed
<1>6. ObjectHeld'
  BY <1>1, <1>2 DEF Sharing, ObjectHeld
<1>7. WritersExact' /\ CriticInformed' /\ NoLostWakeup'
  BY <1>1 DEF WritersExact, Written, CriticInformed, NoLostWakeup, CriticMustWait
<1>. QED
  BY <1>3, <1>4, <1>5, <1>6, <1>7 DEF Sharing

\* The critic knows that every writer has written, and gets the object.
LEMMA CriticLockInvariant == ASSUME IInv, CriticLock PROVE IInv'
<1>. USE ConstantsAssumption, Kinds DEF IInv, CriticLock
<1>1. /\ pc' \in [Threads -> Labels]
      /\ pc'[Critic] = "criticize"
      /\ \A t \in Threads \ {Critic} : pc'[t] = pc[t]
  BY DEF Sharing, Typed, Labels
<1>2. Places'
  BY <1>1 DEF Sharing, Places
<1>3. Sharing'
  BY <1>1, <1>2, TakeInvariant
<1>4. WritersExact' /\ CriticInformed' /\ NoLostWakeup'
  BY <1>1 DEF WritersExact, Written, CriticInformed, NoLostWakeup, CriticMustWait
<1>. QED
  BY <1>3, <1>4

\* The critic gives the object back.
LEMMA CriticUnlockInvariant == ASSUME IInv, CriticUnlock PROVE IInv'
<1>. USE ConstantsAssumption, Kinds DEF IInv, CriticUnlock
<1>1. /\ pc' \in [Threads -> Labels]
      /\ pc'[Critic] = IF turn[Critic] + 1 < TURNS THEN "idle" ELSE "done"
      /\ \A t \in Threads \ {Critic} : pc'[t] = pc[t]
  BY DEF Sharing, Typed, Labels, EndTurn
<1>2. Places'
  <2>1. \A t \in Threads : pc'[t] # "done" => turn'[t] < TURNS
    BY <1>1 DEF Sharing, Typed, Places
  <2>. QED
    BY <1>1, <2>1 DEF Sharing, Places
<1>3. Critic \in Alone
  BY DEF Alone
<1>4. Sharing'
  BY <1>1, <1>2, <1>3, ReleaseInvariant DEF Sharing, Typed
<1>5. WritersExact' /\ CriticInformed' /\ NoLostWakeup'
  BY <1>1 DEF WritersExact, Written, CriticInformed, NoLostWakeup
<1>. QED
  BY <1>4, <1>5

\* Every step keeps the invariant.
LEMMA NextInvariant == IInv /\ [Next]_vars => IInv'
<1>. SUFFICES ASSUME IInv, [Next]_vars PROVE IInv'
  OBVIOUS
<1>1. CASE UNCHANGED vars
  BY <1>1 DEF vars, IInv, Sharing, Typed, Places, CountExact, GateHeld, ObjectHeld, Counted,
              Inside, Alone, WritersExact, Written, CriticInformed, NoLostWakeup, CriticMustWait
<1>2. ASSUME NEW r \in Readers, Reader(r) PROVE IInv'
  <2>1. UNCHANGED <<wroteSomething, writerCount>>
    BY <1>2 DEF Reader
  <2>2. Sharing' /\ pc'[Critic] = pc[Critic]
    BY <1>2, <2>1, ReaderArriveInvariant, ReaderLockWriterInvariant, ReaderReadInvariant,
       ReaderDepartInvariant DEF Reader, RW!Reader, IInv
  <2>3. WritersExact' /\ CriticInformed' /\ NoLostWakeup'
    BY <2>1, <2>2 DEF IInv, WritersExact, Written, CriticInformed, NoLostWakeup, CriticMustWait
  <2>. QED
    BY <2>2, <2>3 DEF IInv
<1>3. CASE \E w \in Writers : Writer(w)
  BY <1>3, WriterLockInvariant, WriterUnlockInvariant DEF Writer
<1>4. CASE CriticStep \/ SpuriousWakeup
  BY <1>4, CriticRestInvariant, CriticLockInvariant, CriticUnlockInvariant DEF CriticStep
<1>. QED
  BY <1>1, <1>2, <1>3, <1>4 DEF Next, Terminating

------------------------------------------------------------------------------
(* The theorems.                                                           *)

\* The inductive invariant holds throughout every behaviour of ex4.
THEOREM Invariance == Spec => []IInv
BY InitInvariant, NextInvariant, PTL DEF Spec

\* The critic of ex4 starts only when every writer has written: the count he
\* tests is complete only when the set of those that have is.
THEOREM CriticWaitsForAll == Spec => []CriticAfterEveryWriter
<1>1. IInv => CriticAfterEveryWriter
  BY WriterSets DEF IInv, CriticAfterEveryWriter, CriticInformed, CriticMustWait,
                    WritersExact, Written
<1>. QED
  BY <1>1, Invariance, PTL

\* The critic of ex4 is never left asleep once the last writer is counted,
\* whatever the order of broadcasts, spurious wakeups and further writings.
THEOREM CriticIsWoken == Spec => []NoLostWakeup
BY Invariance, PTL DEF IInv

------------------------------------------------------------------------------
(* Freedom from deadlock.                                                  *)

\* A writer that has returned has written something.
ReturnedWrote == \A w \in Writers : pc[w] = "done" => wroteSomething[w]

\* No writer returns before its first writing is counted, and none is forgotten.
LEMMA ReturnedWroteInvariance == Spec => []ReturnedWrote
<1>1. Init => ReturnedWrote
  BY Kinds DEF Init, ReturnedWrote
<1>2. ASSUME IInv, ReturnedWrote, [Next]_vars PROVE ReturnedWrote'
  <2>. USE <1>2, Kinds DEF IInv, Sharing, Typed, ReturnedWrote
  <2>1. CASE UNCHANGED vars
    BY <2>1 DEF vars
  <2>2. ASSUME NEW r \in Readers, Reader(r) PROVE ReturnedWrote'
    <3>1. wroteSomething' = wroteSomething /\ \A t \in Threads \ {r} : pc'[t] = pc[t]
      BY <2>2 DEF Reader, RW!Reader, RW!ReaderArrive, RW!ReaderLockWriter, RW!ReaderRead,
                  RW!ReaderDepart, RW!EndTurn
    <3>. QED
      BY <3>1
  <2>3. ASSUME NEW w \in Writers, WriterLock(w) PROVE ReturnedWrote'
    BY <2>3 DEF WriterLock, RW!WriterLock
  <2>4. ASSUME NEW w \in Writers, WriterUnlock(w) PROVE ReturnedWrote'
    <3>1. wroteSomething'[w] /\ \A v \in Writers : wroteSomething[v] => wroteSomething'[v]
      BY <2>4 DEF WriterUnlock, CountWriter
    <3>2. \A v \in Writers \ {w} : pc'[v] = pc[v]
      BY <2>4 DEF WriterUnlock, WakeCritic, EndTurn
    <3>. QED
      BY <3>1, <3>2
  <2>5. CASE CriticStep \/ SpuriousWakeup
    <3>1. wroteSomething' = wroteSomething /\ \A w \in Writers : pc'[w] = pc[w]
      BY <2>5 DEF CriticStep, CriticSleep, CriticLock, CriticUnlock, SpuriousWakeup,
                  WakeCritic, EndTurn
    <3>. QED
      BY <3>1
  <2>. QED
    BY <2>1, <2>2, <2>3, <2>4, <2>5 DEF Next, Terminating, Writer
<1>. QED
  BY <1>1, <1>2, Invariance, PTL DEF Spec

\* Whoever has returned has left nothing behind.
LEMMA CleanWhenDone == IInv /\ AllDone => RW!Clean
<1>. SUFFICES ASSUME IInv, AllDone PROVE RW!Clean
  OBVIOUS
<1>. USE Kinds DEF IInv, Sharing, AllDone
<1>1. Counted = {} /\ Inside = {} /\ Alone = {}
  BY DEF Counted, Inside, Alone
<1>2. readerCount = 0
  BY <1>1, FS_EmptySet DEF CountExact
<1>3. readerMutex = None
  BY DEF GateHeld, Typed
<1>4. writerMutex = None
  BY <1>1 DEF ObjectHeld, Typed
<1>. QED
  BY <1>2, <1>3, <1>4 DEF RW!Clean

\* The threads at the mutexes do not all wait, as in ex1; and the critic does not
\* sleep when all others have returned, since all writers have been counted then.
LEMMA SomebodyGoesOn ==
    IInv /\ ReturnedWrote /\ ~AllDone => \E t \in Threads : pc[t] # "done" /\ ~Waiting(t)
<1>. SUFFICES ASSUME IInv, ReturnedWrote, NEW u \in Threads, pc[u] # "done"
              PROVE  \E t \in Threads : pc[t] # "done" /\ ~Waiting(t)
  BY DEF AllDone
<1>. USE Kinds DEF IInv, Sharing
<1>1. CASE writerMutex \in Takers
  <2>1. pc[writerMutex] \in {"write", "criticize"} /\ writerMutex \in Threads
    BY <1>1 DEF ObjectHeld, Alone
  <2>. QED
    BY <2>1 DEF Waiting, RW!Waiting
<1>2. CASE writerMutex \in Readers
  <2>1. PICK r \in Readers : pc[r] \in {"read", "depart"}
    BY <1>2 DEF ObjectHeld, Inside
  <2>2. readerMutex = None
    BY <2>1 DEF GateHeld, Counted, Typed
  <2>. QED
    BY <2>1, <2>2 DEF Waiting, RW!Waiting
<1>3. CASE writerMutex = None /\ readerMutex # None
  <2>1. readerMutex \in Readers /\ pc[readerMutex] = "lockWriter"
    BY <1>3 DEF GateHeld, Typed
  <2>. QED
    BY <1>3, <2>1 DEF Waiting, RW!Waiting
<1>4. CASE writerMutex = None /\ readerMutex = None
  <2>1. CASE u # Critic \/ pc[u] # "asleep"
    BY <1>4, <2>1 DEF Waiting, RW!Waiting
  <2>2. CASE u = Critic /\ pc[u] = "asleep"
    <3>1. Written # Writers
      <4>1. writerCount # WRITERS_COUNT
        BY <2>2 DEF NoLostWakeup, CriticMustWait
      <4>. QED
        BY <4>1 DEF WritersExact, WRITERS_COUNT
    <3>2. PICK w \in Writers : ~wroteSomething[w]
      BY <3>1 DEF Written
    <3>3. pc[w] # "done" /\ w # Critic
      BY <3>2 DEF ReturnedWrote
    <3>. QED
      BY <1>4, <3>3 DEF Waiting, RW!Waiting
  <2>. QED
    BY <2>1, <2>2
<1>. QED
  BY <1>1, <1>2, <1>3, <1>4 DEF Typed

\* The threads of ex4 never all wait for each other or for a broadcast, and when all have
\* returned the count of the readers is zero and both mutexes are free.
THEOREM NeverAllWait == Spec => []NoDeadlock
<1>1. IInv /\ ReturnedWrote => NoDeadlock
  BY CleanWhenDone, SomebodyGoesOn DEF NoDeadlock
<1>. QED
  BY <1>1, Invariance, ReturnedWroteInvariance, PTL

------------------------------------------------------------------------------
(* The abstract object.                                                    *)

\* Every step of ex4 is a step of the abstract object, to which the critic is
\* a writer, or leaves it alone.
LEMMA ObjectStep ==
    IInv /\ IInv' /\ [Next]_vars =>
        [Object!Next]_<<{r \in Readers : pc[r] = "read"},
                        {t \in Writers \cup {Critic} : pc[t] \in {"write", "criticize"}}>>
<1>. DEFINE reading == {r \in Readers : pc[r] = "read"}
<1>1. Alone = {t \in Writers \cup {Critic} : pc[t] \in {"write", "criticize"}}
  BY DEF Alone, Takers
<1>. SUFFICES ASSUME IInv, IInv', [Next]_vars
              PROVE  Object!Next \/ UNCHANGED <<reading, Alone>>
  BY <1>1 DEF Alone, Takers
<1>. USE ConstantsAssumption, Kinds DEF IInv, Sharing
<1>2. CASE UNCHANGED vars
  BY <1>2 DEF vars, Alone
<1>3. ASSUME NEW r \in Readers, Reader(r)
      PROVE  Object!BeginRead(r) \/ Object!EndRead(r) \/ UNCHANGED <<reading, Alone>>
  <2>. USE DEF Reader, RW!Reader, RW!ReaderArrive, RW!ReaderLockWriter, RW!ReaderRead,
               RW!ReaderDepart, RW!EndTurn
  <2>1. \A t \in Threads \ {r} : pc'[t] = pc[t]
    BY <1>3 DEF Typed
  <2>2. Alone' = Alone
    BY <2>1 DEF Alone
  <2>3. CASE pc[r] = "read"
    <3>1. pc'[r] # "read"
      BY <1>3, <2>3 DEF Typed
    <3>2. r \in reading /\ reading' = reading \ {r}
      BY <2>1, <2>3, <3>1
    <3>. QED
      BY <2>2, <3>2 DEF Object!EndRead, Alone, Takers
  <2>4. CASE pc[r] # "read" /\ pc'[r] # "read"
    <3>1. reading' = reading
      BY <2>1, <2>4
    <3>. QED
      BY <2>2, <3>1
  <2>5. CASE pc[r] # "read" /\ pc'[r] = "read"
    <3>1. r \notin reading /\ reading' = reading \cup {r}
      BY <2>1, <2>5
    <3>2. Inside' # {}
      BY <2>5 DEF Inside
    <3>3. Alone' = {}
      BY <3>2 DEF ObjectHeld, Alone
    <3>. QED
      BY <2>2, <3>1, <3>3 DEF Object!BeginRead, Alone, Takers
  <2>. QED
    BY <2>3, <2>4, <2>5
<1>4. ASSUME NEW t \in Takers, \A u \in Readers : pc'[u] = pc[u], Alone = {}, Alone' = {t},
             Inside = {}
      PROVE  Object!BeginWrite(t)
  BY <1>4 DEF Object!BeginWrite, Alone, Takers, Inside
<1>5. ASSUME NEW t \in Takers, \A u \in Readers : pc'[u] = pc[u], Alone = {t}, Alone' = {}
      PROVE  Object!EndWrite(t)
  BY <1>5 DEF Object!EndWrite, Alone, Takers
<1>6. ASSUME NEW w \in Writers, Writer(w)
      PROVE  Object!BeginWrite(w) \/ Object!EndWrite(w)
  <2>1. CASE WriterLock(w)
    <3>1. Alone = {} /\ Inside = {} /\ Alone' = {w} /\ \A u \in Readers : pc'[u] = pc[u]
      BY <2>1 DEF WriterLock, RW!WriterLock, ObjectHeld, Alone, Typed
    <3>. QED
      BY <1>4, <3>1
  <2>2. CASE WriterUnlock(w)
    <3>1. Alone = {w} /\ w # Critic
      BY <2>2 DEF WriterUnlock, ObjectHeld, Alone
    <3>2. Alone' = {} /\ \A u \in Readers : pc'[u] = pc[u]
      BY <2>2, <3>1 DEF WriterUnlock, WakeCritic, EndTurn, Alone, ObjectHeld, Typed
    <3>. QED
      BY <1>5, <3>1, <3>2
  <2>. QED
    BY <1>6, <2>1, <2>2 DEF Writer
<1>7. CASE CriticLock
  <2>1. Alone = {} /\ Inside = {} /\ Alone' = {Critic} /\ \A u \in Readers : pc'[u] = pc[u]
    BY <1>7 DEF CriticLock, ObjectHeld, Alone, Typed
  <2>. QED
    BY <1>4, <2>1 DEF Object!Next, Takers
<1>8. CASE CriticUnlock
  <2>1. Alone = {Critic}
    BY <1>8 DEF CriticUnlock, ObjectHeld, Alone
  <2>2. Alone' = {} /\ \A u \in Readers : pc'[u] = pc[u]
    BY <1>8, <2>1 DEF CriticUnlock, EndTurn, Alone, ObjectHeld, Typed
  <2>. QED
    BY <1>5, <2>1, <2>2 DEF Object!Next, Takers
<1>9. CASE CriticSleep \/ SpuriousWakeup
  BY <1>9 DEF CriticSleep, SpuriousWakeup, WakeCritic, Alone, Typed
<1>. QED
  <2>1. ASSUME NEW r \in Readers, Reader(r) PROVE Object!Next \/ UNCHANGED <<reading, Alone>>
    BY <1>3, <2>1 DEF Object!Next
  <2>2. ASSUME NEW w \in Writers, Writer(w) PROVE Object!Next
    BY <1>6, <2>2 DEF Object!Next
  <2>. HIDE DEF reading
  <2>. QED
    BY <1>2, <1>7, <1>8, <1>9, <2>1, <2>2 DEF Next, Terminating, CriticStep

\* ex4 implements the abstract readers-writers object.
THEOREM ObjectRefinement == Spec => ImplementsReadersWriters
<1>1. Init => Object!Init
  BY ConstantsAssumption, Kinds DEF Init, Object!Init
<1>. QED
  BY <1>1, Invariance, ObjectStep, PTL DEF Spec, ImplementsReadersWriters, Object!Spec
==============================================================================
