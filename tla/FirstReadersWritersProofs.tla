---------------------- MODULE FirstReadersWritersProofs ----------------------
(***************************************************************************)
(* Proofs about lab01/ex1.c (module FirstReadersWriters), for any number   *)
(* of readers, writers and rounds.                                         *)
(*                                                                         *)
(* Mutual exclusion rests on one fact about the readers as a group: they   *)
(* hold writerMutex exactly while one of them is inside.  That it survives *)
(* arrivals and departures needs the count to be exact and the first       *)
(* reader to keep everybody else out of the count while it waits.          *)
(***************************************************************************)
EXTENDS FirstReadersWriters, FiniteSetTheorems, TLAPS

\* The readers that have counted themselves in and not yet out.
Counted == {r \in Readers : pc[r] \in {"lockWriter", "read", "depart"}}

\* Readers and writers go through the states of their own function, and a
\* thread that has not returned has a round to do.
Places ==
    /\ \A r \in Readers : pc[r] # "write"
    /\ \A w \in Writers : pc[w] \in {"idle", "write", "done"}
    /\ \A t \in Threads : pc[t] # "done" => turn[t] < ACTION_COUNT

CountExact == readersCount = Cardinality(Counted)

\* readerMutex is held between actions only by a first reader that waits for
\* writerMutex, and then nobody else is counted.
GateHeld ==
    /\ \A r \in Readers : pc[r] = "lockWriter" => readerMutex = r
    /\ readerMutex # None => /\ pc[readerMutex] = "lockWriter"
                             /\ Counted = {readerMutex}

\* writerMutex is held by the writer at the object, or by the readers inside.
ObjectHeld ==
    /\ \A w \in Writers : pc[w] = "write" <=> writerMutex = w
    /\ Inside # {} <=> writerMutex \in Readers

IInv == TypeOK /\ Places /\ CountExact /\ GateHeld /\ ObjectHeld

------------------------------------------------------------------------------

\* Any set of readers is finite, has at most as many elements as there are
\* readers, and is empty exactly when it has none.
LEMMA ReaderSets ==
    ASSUME NEW S \in SUBSET Readers
    PROVE  /\ IsFiniteSet(S)
           /\ Cardinality(S) \in 0 .. Cardinality(Readers)
           /\ Cardinality(Readers) \in Nat
           /\ Cardinality(S) = 0 <=> S = {}
<1>1. IsFiniteSet(S) /\ Cardinality(S) <= Cardinality(Readers)
  BY FS_Subset, ConstantsAssumption
<1>2. Cardinality(S) \in Nat /\ Cardinality(Readers) \in Nat
  BY <1>1, FS_CardinalityType, ConstantsAssumption
<1>. QED
  BY <1>1, <1>2, FS_EmptySet

LEMMA InitInvariant == Init => IInv
<1>. SUFFICES ASSUME Init PROVE IInv
  OBVIOUS
<1>. USE ConstantsAssumption DEF Init
<1>1. Counted = {} /\ Inside = {}
  BY DEF Counted, Inside, Threads
<1>2. TypeOK
  <2>1. 0 \in 0 .. Cardinality(Readers)
    BY ReaderSets
  <2>. QED
    BY <2>1 DEF TypeOK
<1>3. Places
  BY DEF Places, Threads
<1>4. CountExact
  BY <1>1, FS_EmptySet DEF CountExact
<1>5. GateHeld /\ ObjectHeld
  BY <1>1 DEF GateHeld, ObjectHeld, Threads
<1>. QED
  BY <1>2, <1>3, <1>4, <1>5 DEF IInv

LEMMA ReaderArriveInvariant ==
    ASSUME IInv, NEW r \in Readers, ReaderArrive(r)
    PROVE  IInv'
<1>. USE ConstantsAssumption DEF IInv, ReaderArrive
<1>. r \in Threads /\ r \notin Writers /\ r # None
  BY DEF Threads
<1>1. /\ pc' \in [Threads -> {"idle", "lockWriter", "read", "depart", "write", "done"}]
      /\ pc'[r] \in {"lockWriter", "read"}
      /\ \A t \in Threads \ {r} : pc'[t] = pc[t]
  BY DEF TypeOK
<1>2. Counted' = Counted \cup {r} /\ r \notin Counted
  BY <1>1 DEF Counted, Threads
<1>3. readersCount' = Cardinality(Counted')
  BY <1>2, ReaderSets, FS_AddElement DEF CountExact, Counted
<1>4. readersCount' \in 0 .. Cardinality(Readers)
  BY <1>3, ReaderSets DEF Counted
<1>5. TypeOK'
  BY <1>1, <1>4 DEF TypeOK
<1>6. Places'
  BY <1>1 DEF Places, Threads
<1>7. CASE FirstIn(readersCount')
  <2>1. Counted = {}
    <3>1. Cardinality(Counted) \in Nat
      BY ReaderSets DEF Counted
    <3>2. Cardinality(Counted) = 0
      BY <1>7, <3>1 DEF CountExact, FirstIn
    <3>. QED
      BY <3>2, ReaderSets DEF Counted
  <2>2. readerMutex' = r /\ pc'[r] = "lockWriter"
    BY <1>7 DEF TypeOK
  <2>3. GateHeld'
    BY <1>1, <1>2, <2>1, <2>2 DEF GateHeld, Threads
  <2>4. Inside' = Inside
    BY <1>1, <2>1, <2>2 DEF Inside, Counted, Threads
  <2>5. ObjectHeld'
    BY <1>1, <2>4 DEF ObjectHeld, Threads
  <2>. QED
    BY <1>3, <1>5, <1>6, <2>3, <2>5 DEF CountExact
<1>8. CASE ~FirstIn(readersCount')
  <2>1. pc'[r] = "read" /\ readerMutex' = None
    BY <1>8 DEF TypeOK
  <2>2. Counted # {}
    BY <1>8, FS_EmptySet DEF CountExact, FirstIn
  <2>3. Inside # {}
    BY <2>2 DEF Inside, Counted, GateHeld
  <2>4. Inside' # {}
    BY <2>1 DEF Inside
  <2>5. GateHeld'
    BY <1>1, <2>1 DEF GateHeld, Threads
  <2>6. ObjectHeld'
    BY <1>1, <2>3, <2>4 DEF ObjectHeld, Threads
  <2>. QED
    BY <1>3, <1>5, <1>6, <2>5, <2>6 DEF CountExact
<1>. QED
  BY <1>7, <1>8

LEMMA ReaderLockWriterInvariant ==
    ASSUME IInv, NEW r \in Readers, ReaderLockWriter(r)
    PROVE  IInv'
<1>. USE ConstantsAssumption DEF IInv, ReaderLockWriter
<1>. r \in Threads /\ r \notin Writers /\ r # None
  BY DEF Threads
<1>1. /\ pc'[r] = "read"
      /\ \A t \in Threads \ {r} : pc'[t] = pc[t]
  BY DEF TypeOK
<1>2. Counted' = Counted
  BY <1>1 DEF Counted, Threads
<1>3. TypeOK' /\ CountExact'
  BY <1>2 DEF TypeOK, CountExact
<1>4. Places'
  BY <1>1 DEF Places, Threads
<1>5. GateHeld'
  BY <1>1 DEF GateHeld, Threads
<1>6. Inside' # {}
  BY <1>1 DEF Inside
<1>7. \A w \in Writers : pc'[w] # "write" /\ w # r
  BY <1>1 DEF ObjectHeld, Threads
<1>8. ObjectHeld'
  BY <1>6, <1>7 DEF ObjectHeld
<1>. QED
  BY <1>3, <1>4, <1>5, <1>8

LEMMA ReaderReadInvariant ==
    ASSUME IInv, NEW r \in Readers, ReaderRead(r)
    PROVE  IInv'
<1>. USE ConstantsAssumption DEF IInv, ReaderRead
<1>. r \in Threads /\ r \notin Writers
  BY DEF Threads
<1>1. /\ pc'[r] = "depart"
      /\ \A t \in Threads \ {r} : pc'[t] = pc[t]
  BY DEF TypeOK
<1>2. Counted' = Counted /\ Inside' = Inside
  BY <1>1 DEF Counted, Inside, Threads
<1>3. TypeOK' /\ CountExact'
  BY <1>2 DEF TypeOK, CountExact
<1>4. Places'
  BY <1>1 DEF Places, Threads
<1>5. GateHeld'
  BY <1>1, <1>2 DEF GateHeld, Threads, TypeOK
<1>6. ObjectHeld'
  BY <1>1, <1>2 DEF ObjectHeld, Threads
<1>. QED
  BY <1>3, <1>4, <1>5, <1>6

LEMMA ReaderDepartInvariant ==
    ASSUME IInv, NEW r \in Readers, ReaderDepart(r)
    PROVE  IInv'
<1>. USE ConstantsAssumption DEF IInv, ReaderDepart
<1>. r \in Threads /\ r \notin Writers
  BY DEF Threads
<1>1. /\ pc' \in [Threads -> {"idle", "lockWriter", "read", "depart", "write", "done"}]
      /\ pc'[r] \in {"idle", "done"}
      /\ \A t \in Threads \ {r} : pc'[t] = pc[t]
  BY DEF TypeOK, EndTurn
<1>2. Counted' = Counted \ {r} /\ r \in Counted
  BY <1>1 DEF Counted, Threads
<1>3. readersCount' = Cardinality(Counted')
  <2>1. IsFiniteSet(Counted)
    BY ReaderSets DEF Counted
  <2>2. Cardinality(Counted') = Cardinality(Counted) - 1
    BY <1>2, <2>1, FS_RemoveElement
  <2>. QED
    BY <2>2 DEF CountExact
<1>4. readersCount' \in 0 .. Cardinality(Readers)
  BY <1>3, ReaderSets DEF Counted
<1>5. turn' \in [Threads -> 0 .. ACTION_COUNT]
  BY DEF TypeOK, EndTurn, Places
<1>6. TypeOK'
  BY <1>1, <1>4, <1>5 DEF TypeOK
<1>7. Places'
  BY <1>1 DEF Places, Threads, EndTurn, TypeOK
<1>8. Inside # {} /\ writerMutex \in Readers
  BY DEF Inside, ObjectHeld
<1>9. Inside' = Counted'
  BY <1>1 DEF Inside, Counted, GateHeld, Threads
<1>10. Inside' = {} <=> LastOut(readersCount')
  BY <1>3, <1>9, ReaderSets DEF LastOut, Counted
<1>11. GateHeld'
  BY <1>1 DEF GateHeld, Threads
<1>12. ObjectHeld'
  BY <1>1, <1>8, <1>10 DEF ObjectHeld, Threads
<1>. QED
  BY <1>3, <1>6, <1>7, <1>11, <1>12 DEF CountExact

LEMMA WriterInvariant ==
    ASSUME IInv, NEW w \in Writers, Writer(w)
    PROVE  IInv'
<1>. USE ConstantsAssumption DEF IInv, Writer, WriterLock, WriterUnlock, EndTurn
<1>. w \in Threads /\ w \notin Readers /\ w # None
  BY DEF Threads
<1>1. /\ pc' \in [Threads -> {"idle", "lockWriter", "read", "depart", "write", "done"}]
      /\ pc'[w] \in {"idle", "write", "done"}
      /\ \A t \in Threads \ {w} : pc'[t] = pc[t]
  BY DEF TypeOK
<1>2. Counted' = Counted /\ Inside' = Inside
  BY <1>1 DEF Counted, Inside, Threads
<1>3. TypeOK' /\ CountExact'
  <2>1. turn' \in [Threads -> 0 .. ACTION_COUNT]
    BY DEF TypeOK, Places
  <2>2. writerMutex' \in Threads \cup {None}
    OBVIOUS
  <2>. QED
    BY <1>1, <1>2, <2>1, <2>2 DEF TypeOK, CountExact
<1>4. Places'
  BY <1>1 DEF Places, Threads, TypeOK
<1>5. GateHeld'
  BY <1>1, <1>2 DEF GateHeld, Threads, TypeOK
<1>6. CASE WriterLock(w)
  <2>1. Inside' = {} /\ \A v \in Writers : pc[v] # "write"
    BY <1>2, <1>6 DEF ObjectHeld
  <2>2. writerMutex' = w /\ pc'[w] = "write"
    BY <1>6 DEF TypeOK
  <2>3. ObjectHeld'
    BY <1>1, <2>1, <2>2 DEF ObjectHeld, Threads
  <2>. QED
    BY <1>3, <1>4, <1>5, <2>3
<1>7. CASE WriterUnlock(w)
  <2>1. writerMutex = w /\ Inside' = {}
    BY <1>2, <1>7 DEF ObjectHeld
  <2>2. writerMutex' = None /\ pc'[w] # "write"
    BY <1>7 DEF TypeOK
  <2>3. \A v \in Writers : pc'[v] # "write"
    BY <1>1, <2>1, <2>2 DEF ObjectHeld, Threads
  <2>4. ObjectHeld'
    BY <2>1, <2>2, <2>3 DEF ObjectHeld, Threads
  <2>. QED
    BY <1>3, <1>4, <1>5, <2>4
<1>. QED
  BY <1>6, <1>7

LEMMA NextInvariant == IInv /\ [Next]_vars => IInv'
<1>. SUFFICES ASSUME IInv, [Next]_vars PROVE IInv'
  OBVIOUS
<1>1. CASE UNCHANGED vars
  BY <1>1 DEF vars, IInv, TypeOK, Places, CountExact, GateHeld, ObjectHeld, Counted, Inside
<1>2. CASE \E r \in Readers : Reader(r)
  BY <1>2, ReaderArriveInvariant, ReaderLockWriterInvariant, ReaderReadInvariant,
     ReaderDepartInvariant DEF Reader
<1>3. CASE \E w \in Writers : Writer(w)
  BY <1>3, WriterInvariant
<1>. QED
  BY <1>1, <1>2, <1>3 DEF Next, Terminating

------------------------------------------------------------------------------
(* The theorems.                                                           *)

\* The inductive invariant holds throughout every behaviour of ex1.
THEOREM Invariance == Spec => []IInv
BY InitInvariant, NextInvariant, PTL DEF Spec

\* The count of ex1 stays between zero and the number of readers, and each
\* mutex is free or held by a thread that may hold it.
THEOREM TypeCorrect == Spec => []TypeOK
BY Invariance, PTL DEF IInv

\* A writer of ex1 is alone at the object.
THEOREM WriterAlone == Spec => []MutualExclusion
<1>1. IInv => MutualExclusion
  BY ConstantsAssumption DEF IInv, MutualExclusion, ObjectHeld
<1>. QED
  BY <1>1, Invariance, PTL

\* ex1 never keeps a reader waiting while another reader is inside.
THEOREM ReadersPreferred == Spec => []NoReaderKeptWaiting
<1>1. IInv => NoReaderKeptWaiting
  BY ConstantsAssumption DEF IInv, TypeOK, NoReaderKeptWaiting, GateHeld, Inside, Counted
<1>. QED
  BY <1>1, Invariance, PTL

\* Whoever has returned has left nothing behind.
LEMMA CleanWhenDone == IInv /\ AllDone => Clean
<1>. SUFFICES ASSUME IInv, AllDone PROVE Clean
  OBVIOUS
<1>. USE ConstantsAssumption DEF IInv
<1>1. Counted = {} /\ Inside = {}
  BY DEF Counted, Inside, AllDone, Threads
<1>2. readersCount = 0
  BY <1>1, FS_EmptySet DEF CountExact
<1>3. readerMutex = None
  BY DEF GateHeld, AllDone, TypeOK, Threads
<1>4. writerMutex = None
  BY <1>1 DEF ObjectHeld, AllDone, TypeOK, Threads
<1>. QED
  BY <1>2, <1>3, <1>4 DEF Clean

\* The gate is closed only by a reader that waits for the object; the object is
\* taken only by a writer, which waits for nothing, or by readers that are inside,
\* and then the gate is open for them to leave.
LEMMA SomebodyGoesOn ==
    IInv /\ ~AllDone => \E t \in Threads : pc[t] # "done" /\ ~Waiting(t)
<1>. SUFFICES ASSUME IInv, NEW u \in Threads, pc[u] # "done"
              PROVE  \E t \in Threads : pc[t] # "done" /\ ~Waiting(t)
  BY DEF AllDone
<1>. USE ConstantsAssumption DEF IInv
<1>1. CASE writerMutex \in Writers
  <2>1. pc[writerMutex] = "write" /\ writerMutex \in Threads
    BY <1>1 DEF ObjectHeld, Threads
  <2>. QED
    BY <2>1 DEF Waiting
<1>2. CASE writerMutex \in Readers
  <2>1. PICK r \in Readers : pc[r] \in {"read", "depart"}
    BY <1>2 DEF ObjectHeld, Inside
  <2>2. readerMutex = None
    BY <2>1 DEF GateHeld, Counted, TypeOK
  <2>. QED
    BY <2>1, <2>2 DEF Waiting, Threads
<1>3. CASE writerMutex = None
  <2>1. CASE readerMutex = None
    BY <1>3, <2>1 DEF Waiting
  <2>2. CASE readerMutex # None
    <3>1. readerMutex \in Threads /\ pc[readerMutex] = "lockWriter"
      BY <2>2 DEF GateHeld, TypeOK, Threads
    <3>. QED
      BY <1>3, <3>1 DEF Waiting
  <2>. QED
    BY <2>1, <2>2
<1>. QED
  BY <1>1, <1>2, <1>3 DEF TypeOK, Threads

\* The threads of ex1 never all wait for each other, and when all have returned
\* the count is zero and both mutexes are free.
THEOREM NeverAllWait == Spec => []NoDeadlock
<1>1. IInv => NoDeadlock
  BY CleanWhenDone, SomebodyGoesOn DEF NoDeadlock
<1>. QED
  BY <1>1, Invariance, PTL

\* Every step of ex1 is a step of the abstract object or leaves it alone.
LEMMA ObjectStep ==
    IInv /\ IInv' /\ [Next]_vars =>
        [Object!Next]_<<{r \in Readers : pc[r] = "read"}, {w \in Writers : pc[w] = "write"}>>
<1>. DEFINE reading == {r \in Readers : pc[r] = "read"}
            writing == {w \in Writers : pc[w] = "write"}
<1>. SUFFICES ASSUME IInv, IInv', [Next]_vars
              PROVE  Object!Next \/ UNCHANGED <<reading, writing>>
  OBVIOUS
<1>. USE ConstantsAssumption DEF IInv
<1>1. CASE UNCHANGED vars
  BY <1>1 DEF vars
<1>2. ASSUME NEW r \in Readers, Reader(r)
      PROVE  Object!BeginRead(r) \/ Object!EndRead(r) \/ UNCHANGED <<reading, writing>>
  <2>1. \A t \in Threads \ {r} : pc'[t] = pc[t]
    BY <1>2 DEF Reader, ReaderArrive, ReaderLockWriter, ReaderRead, ReaderDepart, EndTurn, TypeOK
  <2>2. writing' = writing
    BY <2>1 DEF Threads
  <2>3. CASE pc[r] = "read"
    <3>1. pc'[r] # "read"
      BY <1>2, <2>3 DEF Reader, ReaderArrive, ReaderLockWriter, ReaderRead, ReaderDepart,
                        TypeOK, Threads
    <3>2. r \in reading /\ reading' = reading \ {r}
      BY <2>1, <2>3, <3>1 DEF Threads
    <3>. QED
      BY <2>2, <3>2 DEF Object!EndRead
  <2>4. CASE pc[r] # "read" /\ pc'[r] # "read"
    <3>1. reading' = reading
      BY <2>1, <2>4 DEF Threads
    <3>. QED
      BY <2>2, <3>1
  <2>5. CASE pc[r] # "read" /\ pc'[r] = "read"
    <3>1. r \notin reading /\ reading' = reading \cup {r}
      BY <2>1, <2>5 DEF Threads
    <3>2. Inside' # {}
      BY <2>5 DEF Inside
    <3>3. writing' = {}
      BY <3>2 DEF ObjectHeld
    <3>. QED
      BY <2>2, <3>1, <3>3 DEF Object!BeginRead
  <2>. QED
    BY <2>3, <2>4, <2>5
<1>3. ASSUME NEW w \in Writers, Writer(w)
      PROVE  Object!BeginWrite(w) \/ Object!EndWrite(w)
  <2>1. /\ \A t \in Threads \ {w} : pc'[t] = pc[t]
        /\ w \in Threads /\ w \notin Readers
    BY <1>3 DEF Writer, WriterLock, WriterUnlock, EndTurn, TypeOK, Threads
  <2>2. reading' = reading
    BY <2>1 DEF Threads
  <2>3. CASE WriterLock(w)
    <3>1. Inside = {} /\ writing = {}
      BY <2>3 DEF WriterLock, ObjectHeld
    <3>2. reading = {} /\ writing' = {w}
      BY <2>1, <2>3, <3>1 DEF WriterLock, Inside, TypeOK, Threads
    <3>. QED
      BY <2>2, <3>1, <3>2 DEF Object!BeginWrite
  <2>4. CASE WriterUnlock(w)
    <3>1. writing = {w}
      BY <2>4 DEF WriterUnlock, ObjectHeld
    <3>2. pc'[w] # "write"
      BY <2>1, <2>4 DEF WriterUnlock, EndTurn, TypeOK
    <3>3. writing' = {}
      BY <2>1, <3>1, <3>2 DEF Threads
    <3>. QED
      BY <2>2, <3>1, <3>3 DEF Object!EndWrite
  <2>. QED
    BY <1>3, <2>3, <2>4 DEF Writer
<1>. QED
  BY <1>1, <1>2, <1>3 DEF Next, Terminating, Object!Next

\* ex1 implements the abstract readers-writers object.
THEOREM ObjectRefinement == Spec => ImplementsReadersWriters
<1>1. Init => Object!Init
  BY ConstantsAssumption DEF Init, Object!Init, Threads
<1>. QED
  BY <1>1, Invariance, ObjectStep, PTL DEF Spec, ImplementsReadersWriters, Object!Spec
==============================================================================
