------------------------ MODULE LimitedReadersProofs ------------------------
(***************************************************************************)
(* Proofs about lab01/ex5.c (module LimitedReaders), for any number of     *)
(* readers, writers, rounds and objects, and any limits; and, at the end,  *)
(* about lab01/ex3.c (module SlotExchange), its simpler predecessor.       *)
(*                                                                         *)
(* Each object is shared on its own, so the invariant speaks of one object *)
(* at a time.  The readers counted in at an object hold its deep mutex as  *)
(* a group, but for the first one, which waits for it behind the object's  *)
(* closed mutex.  Having the deep mutex keeps the writers from storing a   *)
(* value between a reader's load and its departure: that is why the flag   *)
(* it clears never stands for a newer value.                               *)
(***************************************************************************)
EXTENDS LimitedReaders, FiniteSetTheorems, TLAPS

Labels == {"try", "test", "lockDeep", "access", "relock", "leave", "done"}

Typed ==
    /\ objectMutexes \in [Objects -> Threads \cup {None}]
    /\ objectDeepMutexes \in [Objects -> Threads \cup {None}]
    /\ buffer \in [Objects -> {"unset", "fresh", "loaded"}]
    /\ full \in [Objects -> BOOLEAN]
    /\ readerCount \in [Objects -> 0 .. Cardinality(Readers)]
    /\ limits \in [Objects -> 1 .. MAX_LIMIT]
    /\ pc \in [Threads -> Labels]
    /\ at \in [Threads -> Objects]
    /\ turn \in [Threads -> Nat]

\* The threads that hold the mutex of their object.
InSection(t) ==
    \/ pc[t] \in {"test", "leave"}
    \/ t \in Readers /\ pc[t] = "lockDeep"

\* The readers that have counted themselves in at object j and not yet out.
Counted(j) ==
    {r \in Readers : at[r] = j /\ pc[r] \in {"lockDeep", "access", "relock", "leave"}}

\* Those of them that have passed the deep mutex.
Inside(j) == {r \in Readers : at[r] = j /\ pc[r] \in {"access", "relock", "leave"}}

MutexHeld ==
    /\ \A t \in Threads : InSection(t) => objectMutexes[at[t]] = t
    /\ \A j \in Objects : objectMutexes[j] # None =>
           InSection(objectMutexes[j]) /\ at[objectMutexes[j]] = j

CountExact ==
    \A j \in Objects : readerCount[j] = Cardinality(Counted(j)) /\ readerCount[j] <= limits[j]

\* Nobody else is counted while the first reader waits for the deep mutex.
FirstAlone == \A r \in Readers : pc[r] = "lockDeep" => Counted(at[r]) = {r}

\* The deep mutex is held by the writer at the value, or by the readers inside.
DeepHeld ==
    \A j \in Objects :
        /\ \A w \in Writers : w \in AtValue(Writers, j) <=> objectDeepMutexes[j] = w
        /\ Inside(j) # {} <=> objectDeepMutexes[j] \in Readers

\* The value at which a reader has looked is still there when it leaves.
Seen == \A r \in Readers : pc[r] \in {"relock", "leave"} => buffer[at[r]] = "loaded"

IInv ==
    /\ Typed
    /\ MutexHeld
    /\ CountExact
    /\ FirstAlone
    /\ DeepHeld
    /\ Seen
    /\ FreshValueAnnounced

------------------------------------------------------------------------------
(* Sets of readers, and the moves of a thread.                             *)

\* Any set of readers is finite, has at most as many elements as there are
\* readers, and is empty exactly when it has none.
LEMMA ReaderSets ==
    ASSUME NEW S \in SUBSET Readers
    PROVE  /\ IsFiniteSet(S)
           /\ Cardinality(S) \in 0 .. Cardinality(Readers)
           /\ Cardinality(Readers) \in Nat
           /\ Cardinality(S) = 0 <=> S = {}
<1>1. IsFiniteSet(S) /\ Cardinality(S) <= Cardinality(Readers)
  BY FS_Subset, ConstantsAssumption
<1>2. Cardinality(S) \in Nat /\ Cardinality(Readers) \in Nat
  BY <1>1, FS_CardinalityType, ConstantsAssumption
<1>. QED
  BY <1>1, <1>2, FS_EmptySet

\* Readers, writers and None are told apart.
LEMMA Kinds ==
    /\ Threads = Readers \cup Writers
    /\ Readers \cap Writers = {}
    /\ None \notin Threads
BY ConstantsAssumption DEF Threads

\* A thread walks along its round and nobody else moves.
Moves(t, labels) ==
    /\ pc' \in [Threads -> Labels]
    /\ at' \in [Threads -> Objects]
    /\ turn' \in [Threads -> Nat]
    /\ pc'[t] \in labels
    /\ \A u \in Threads \ {t} : pc'[u] = pc[u] /\ at'[u] = at[u]

\* A thread that is through with its object comes to the next one, or returns.
LEMMA AdvanceMoves ==
    ASSUME Typed, NEW t \in Threads, Advance(t)
    PROVE  Moves(t, {"try", "done"})
<1>. USE DEF Typed, Advance, Labels
<1>1. (at[t] + 1) % OBJECT_COUNT \in Objects
  BY ConstantsAssumption DEF Objects
<1>2. at' \in [Threads -> Objects]
  BY <1>1
<1>3. turn' \in [Threads -> Nat]
  OBVIOUS
<1>. QED
  BY <1>2, <1>3 DEF Moves

\* Within its stay at an object a thread only changes its place.
LEMMA GotoMoves ==
    ASSUME Typed, NEW t \in Threads, NEW label \in Labels, Goto(t, label)
    PROVE  Moves(t, {label}) /\ at' = at
BY DEF Typed, Goto, Moves

------------------------------------------------------------------------------
(* The mutex of an object.                                                 *)

\* A thread that comes to hold the free mutex of its object.
LEMMA Locking ==
    ASSUME Typed, MutexHeld, NEW t \in Threads, Lock(t),
           Moves(t, {"test", "leave"}), at' = at
    PROVE  MutexHeld' /\ objectMutexes' \in [Objects -> Threads \cup {None}]
<1>. USE Kinds DEF Lock, Typed
<1>1. objectMutexes' \in [Objects -> Threads \cup {None}]
  OBVIOUS
<1>2. InSection(t)' /\ \A u \in Threads \ {t} : InSection(u)' <=> InSection(u)
  BY DEF Moves, InSection
<1>3. \A u \in Threads : InSection(u)' => objectMutexes'[at'[u]] = u
  BY <1>2 DEF MutexHeld
<1>4. ASSUME NEW j \in Objects, objectMutexes'[j] # None
      PROVE  InSection(objectMutexes[j])' /\ at'[objectMutexes'[j]] = j
  BY <1>2, <1>4 DEF MutexHeld, InSection, Moves
<1>. QED
  BY <1>1, <1>3, <1>4 DEF MutexHeld

\* A thread that gives up the mutex of its object.
LEMMA Unlocking ==
    ASSUME Typed, MutexHeld, NEW t \in Threads, InSection(t), Unlock(t),
           NEW labels, Moves(t, labels), ~InSection(t)'
    PROVE  MutexHeld' /\ objectMutexes' \in [Objects -> Threads \cup {None}]
<1>. USE Kinds DEF Unlock, Typed
<1>1. objectMutexes' \in [Objects -> Threads \cup {None}]
  OBVIOUS
<1>2. \A u \in Threads \ {t} : /\ InSection(u)' <=> InSection(u)
                               /\ at'[u] = at[u]
  BY DEF Moves, InSection
<1>3. objectMutexes[at[t]] = t
  BY DEF MutexHeld
<1>4. \A u \in Threads : InSection(u)' => objectMutexes'[at'[u]] = u
  BY <1>2, <1>3 DEF MutexHeld
<1>5. ASSUME NEW j \in Objects, objectMutexes'[j] # None
      PROVE  InSection(objectMutexes[j])' /\ at'[objectMutexes'[j]] = j
  BY <1>2, <1>3, <1>5 DEF MutexHeld, InSection, Moves
<1>. QED
  BY <1>1, <1>4, <1>5 DEF MutexHeld

\* A thread that leaves the mutexes alone.
LEMMA NotLocking ==
    ASSUME Typed, MutexHeld, NEW t \in Threads, UNCHANGED objectMutexes,
           NEW labels, Moves(t, labels), InSection(t)' <=> InSection(t),
           at'[t] = at[t] \/ ~InSection(t)
    PROVE  MutexHeld'
<1>. USE Kinds DEF Typed
<1>1. \A u \in Threads : /\ InSection(u)' <=> InSection(u)
                         /\ at'[u] = at[u] \/ ~InSection(u)
  BY DEF Moves, InSection
<1>2. \A u \in Threads : InSection(u)' => objectMutexes'[at'[u]] = u
  BY <1>1 DEF MutexHeld
<1>3. ASSUME NEW j \in Objects, objectMutexes'[j] # None
      PROVE  InSection(objectMutexes[j])' /\ at'[objectMutexes'[j]] = j
  BY <1>1, <1>3 DEF MutexHeld, InSection, Moves
<1>. QED
  BY <1>2, <1>3 DEF MutexHeld

\* Two threads do not hold the mutex of one object.
LEMMA OneInSection ==
    ASSUME MutexHeld, NEW t \in Threads, NEW u \in Threads,
           InSection(t), InSection(u), at[t] = at[u]
    PROVE  t = u
BY DEF MutexHeld

------------------------------------------------------------------------------
(* Before and behind the value.                                            *)

\* A thread that is not counted and does not come to the value.
LEMMA Outside ==
    ASSUME IInv, NEW t \in Threads, pc[t] \in {"try", "test"},
           NEW labels, Moves(t, labels), labels \subseteq {"try", "test", "lockDeep", "done"},
           t \in Readers => "lockDeep" \notin labels,
           UNCHANGED <<objectDeepMutexes, buffer, full, readerCount, limits>>
    PROVE  CountExact' /\ FirstAlone' /\ DeepHeld' /\ Seen' /\ FreshValueAnnounced'
<1>. USE Kinds DEF IInv
<1>1. ASSUME NEW j \in Objects
      PROVE  /\ Counted(j)' = Counted(j)
             /\ Inside(j)' = Inside(j)
             /\ AtValue(Writers, j)' = AtValue(Writers, j)
  BY DEF Moves, Counted, Inside, AtValue
<1>2. \A r \in Readers : pc'[r] \in {"lockDeep", "relock", "leave"} =>
          pc'[r] = pc[r] /\ at'[r] = at[r]
  BY DEF Moves
<1>3. \A w \in Writers : pc[w] \in {"relock", "leave"} => pc'[w] = pc[w] /\ at'[w] = at[w]
  BY DEF Moves
<1>4. CountExact'
  BY <1>1 DEF CountExact
<1>5. FirstAlone'
  BY <1>1, <1>2 DEF FirstAlone, Typed
<1>6. DeepHeld'
  BY <1>1 DEF DeepHeld
<1>7. Seen'
  BY <1>2 DEF Seen
<1>8. FreshValueAnnounced'
  BY <1>3 DEF FreshValueAnnounced
<1>. QED
  BY <1>4, <1>5, <1>6, <1>7, <1>8

\* A thread finds the object busy.
LEMMA TryBusyInvariant ==
    ASSUME IInv, NEW t \in Threads, TryBusy(t)
    PROVE  IInv'
<1>. USE DEF IInv, TryBusy
<1>1. Moves(t, {"try", "done"})
  BY AdvanceMoves
<1>2. Typed'
  BY <1>1 DEF Typed, Moves
<1>3. MutexHeld'
  BY <1>1, NotLocking DEF InSection, Moves
<1>. QED
  BY <1>1, <1>2, <1>3, Outside

\* A thread gets the mutex of the object.
LEMMA TryLockInvariant ==
    ASSUME IInv, NEW t \in Threads, TryLock(t)
    PROVE  IInv'
<1>. USE DEF IInv, TryLock
<1>1. Moves(t, {"test"}) /\ at' = at
  BY GotoMoves DEF Labels
<1>2. MutexHeld' /\ objectMutexes' \in [Objects -> Threads \cup {None}]
  BY <1>1, Locking DEF Moves
<1>3. Typed'
  BY <1>1, <1>2 DEF Typed, Moves
<1>. QED
  BY <1>1, <1>2, <1>3, Outside

\* A reader that is refused, or a writer that finds a value, passes on.
LEMMA SkipInvariant ==
    ASSUME IInv, NEW t \in Threads, (t \in Readers /\ ReaderSkip(t)) \/ WriterSkip(t)
    PROVE  IInv'
<1>. USE DEF IInv, ReaderSkip, WriterSkip
<1>1. Moves(t, {"try", "done"})
  BY AdvanceMoves
<1>2. MutexHeld' /\ objectMutexes' \in [Objects -> Threads \cup {None}]
  BY <1>1, Unlocking DEF InSection, Moves
<1>3. Typed'
  BY <1>1, <1>2 DEF Typed, Moves
<1>. QED
  BY <1>1, <1>2, <1>3, Outside

\* A writer finds the object empty, and gives up its mutex.
LEMMA WriterAcceptInvariant ==
    ASSUME IInv, NEW w \in Writers, WriterAccept(w)
    PROVE  IInv'
<1>. USE Kinds DEF IInv, WriterAccept
<1>1. Moves(w, {"lockDeep"}) /\ at' = at
  BY GotoMoves DEF Labels
<1>2. MutexHeld' /\ objectMutexes' \in [Objects -> Threads \cup {None}]
  BY <1>1, Unlocking DEF InSection, Moves
<1>3. Typed'
  BY <1>1, <1>2 DEF Typed, Moves
<1>. QED
  BY <1>1, <1>2, <1>3, Outside

\* Whoever is done with the value takes the mutex again to leave.
LEMMA RelockInvariant ==
    ASSUME IInv, NEW t \in Threads, Relock(t)
    PROVE  IInv'
<1>. USE Kinds DEF IInv, Relock
<1>1. Moves(t, {"leave"}) /\ at' = at
  BY GotoMoves DEF Labels
<1>2. MutexHeld' /\ objectMutexes' \in [Objects -> Threads \cup {None}]
  BY <1>1, Locking DEF Moves
<1>3. Typed'
  BY <1>1, <1>2 DEF Typed, Moves
<1>4. ASSUME NEW j \in Objects
      PROVE  /\ Counted(j)' = Counted(j)
             /\ Inside(j)' = Inside(j)
             /\ AtValue(Writers, j)' = AtValue(Writers, j)
  BY <1>1 DEF Moves, Counted, Inside, AtValue
<1>5. CountExact' /\ DeepHeld'
  BY <1>4 DEF CountExact, DeepHeld
<1>6. FirstAlone'
  BY <1>1, <1>4 DEF FirstAlone, Moves, Typed
<1>7. Seen' /\ FreshValueAnnounced'
  BY <1>1 DEF Seen, FreshValueAnnounced, Moves
<1>. QED
  BY <1>2, <1>3, <1>5, <1>6, <1>7

------------------------------------------------------------------------------
(* The readers' side.                                                      *)

\* A reader is counted in.
LEMMA ReaderEnterInvariant ==
    ASSUME IInv, NEW r \in Readers, ReaderEnter(r)
    PROVE  IInv'
<1>. USE Kinds DEF IInv, ReaderEnter
<1>. SUFFICES ASSUME NEW j \in Objects, at[r] = j PROVE IInv'
  BY Kinds DEF Typed
<1>. DEFINE first == readerCount'[j] = 1
<1>1. /\ Moves(r, {"lockDeep", "access"}) /\ at' = at
      /\ pc'[r] = IF first THEN "lockDeep" ELSE "access"
  BY GotoMoves DEF Labels, Moves
<1>2. j \in Objects
  BY DEF Typed
<1>3. MutexHeld' /\ objectMutexes' \in [Objects -> Threads \cup {None}]
  <2>1. CASE first
    <3>1. UNCHANGED objectMutexes /\ InSection(r) /\ InSection(r)'
      BY <1>1, <2>1 DEF InSection
    <3>. QED
      BY <1>1, <3>1, NotLocking DEF Typed
  <2>2. CASE ~first
    <3>1. Unlock(r) /\ InSection(r) /\ ~InSection(r)'
      BY <1>1, <2>2 DEF InSection
    <3>. QED
      BY <1>1, <3>1, Unlocking
  <2>. QED
    BY <2>1, <2>2
<1>4. /\ Counted(j)' = Counted(j) \cup {r} /\ r \notin Counted(j)
      /\ \A k \in Objects \ {j} : Counted(k)' = Counted(k) /\ Inside(k)' = Inside(k)
      /\ \A k \in Objects : AtValue(Writers, k)' = AtValue(Writers, k)
  BY <1>1 DEF Counted, Inside, AtValue, Moves
<1>5. /\ readerCount'[j] = readerCount[j] + 1
      /\ \A k \in Objects \ {j} : readerCount'[k] = readerCount[k]
      /\ DOMAIN readerCount' = Objects
      /\ readerCount' = [k \in Objects |-> readerCount'[k]]
  BY <1>2 DEF Typed
<1>6. readerCount'[j] = Cardinality(Counted(j)')
  <2>1. IsFiniteSet(Counted(j))
    BY ReaderSets DEF Counted
  <2>2. Cardinality(Counted(j) \cup {r}) = Cardinality(Counted(j)) + 1
    BY <1>4, <2>1, FS_AddElement
  <2>. QED
    BY <1>4, <1>5, <2>2 DEF CountExact
<1>7. readerCount' \in [Objects -> 0 .. Cardinality(Readers)]
  <2>1. readerCount'[j] \in 0 .. Cardinality(Readers)
    BY <1>6, ReaderSets DEF Counted
  <2>. QED
    BY <1>5, <2>1 DEF Typed
<1>8. readerCount'[j] <= limits[j]
  BY <1>2, <1>5, ReaderSets DEF ReaderRefused, Typed
<1>9. Typed'
  BY <1>1, <1>3, <1>7 DEF Typed, Moves
<1>10. CountExact'
  BY <1>4, <1>5, <1>6, <1>8 DEF CountExact
<1>11. \A q \in Readers \ {r} : pc[q] = "lockDeep" => at[q] # j
  BY OneInSection DEF InSection
<1>12. FirstAlone'
  <2>1. ASSUME NEW q \in Readers \ {r}, pc'[q] = "lockDeep" PROVE Counted(at[q])' = {q}
    <3>1. pc[q] = "lockDeep" /\ at[q] # j /\ at[q] \in Objects
      BY <1>1, <1>11, <2>1 DEF Moves, Typed
    <3>2. Counted(at[q]) = {q} /\ Counted(at[q])' = Counted(at[q])
      BY <1>1, <1>4, <3>1 DEF FirstAlone
    <3>. QED
      BY <3>2
  <2>2. CASE first
    <3>1. Cardinality(Counted(j)) = 0
      BY <1>2, <1>5, <2>2, ReaderSets DEF CountExact, Counted
    <3>2. Counted(j)' = {r}
      BY <1>4, <3>1, ReaderSets DEF Counted
    <3>. QED
      BY <1>1, <2>1, <3>2 DEF FirstAlone
  <2>3. CASE ~first
    BY <1>1, <2>1, <2>3 DEF FirstAlone
  <2>. QED
    BY <2>2, <2>3
<1>13. Inside(j)' # {} <=> Inside(j) # {}
  <2>1. CASE first
    BY <1>1, <2>1 DEF Inside, Moves
  <2>2. CASE ~first
    <3>1. Cardinality(Counted(j)) # 0
      BY <1>2, <1>5, <2>2 DEF CountExact
    <3>2. Counted(j) # {}
      BY <3>1, FS_EmptySet
    <3>3. Inside(j) # {}
      BY <1>11, <3>2 DEF Counted, Inside
    <3>4. r \in Inside(j)'
      BY <1>1, <2>2 DEF Inside
    <3>. QED
      BY <3>3, <3>4
  <2>. QED
    BY <2>1, <2>2
<1>14. DeepHeld'
  BY <1>4, <1>13 DEF DeepHeld
<1>15. Seen' /\ FreshValueAnnounced'
  BY <1>1 DEF Seen, FreshValueAnnounced, Moves
<1>. QED
  BY <1>3, <1>9, <1>10, <1>12, <1>14, <1>15

\* A reader gets the inner mutex.
LEMMA ReaderLockDeepInvariant ==
    ASSUME IInv, NEW r \in Readers, ReaderLockDeep(r)
    PROVE  IInv'
<1>. USE Kinds DEF IInv, ReaderLockDeep
<1>. SUFFICES ASSUME NEW j \in Objects, at[r] = j PROVE IInv'
  BY Kinds DEF Typed
<1>1. Moves(r, {"access"}) /\ at' = at /\ j \in Objects
  BY GotoMoves DEF Labels, Typed
<1>2. MutexHeld' /\ objectMutexes' \in [Objects -> Threads \cup {None}]
  BY <1>1, Unlocking DEF InSection, Moves
<1>3. /\ objectDeepMutexes[j] = None /\ objectDeepMutexes'[j] = r
      /\ \A k \in Objects \ {j} : objectDeepMutexes'[k] = objectDeepMutexes[k]
      /\ objectDeepMutexes' \in [Objects -> Threads \cup {None}]
  BY <1>1 DEF LockDeep, Typed
<1>4. Typed'
  BY <1>1, <1>2, <1>3 DEF Typed, Moves
<1>5. /\ \A k \in Objects : /\ Counted(k)' = Counted(k)
                            /\ AtValue(Writers, k)' = AtValue(Writers, k)
      /\ \A k \in Objects \ {j} : Inside(k)' = Inside(k)
      /\ r \in Inside(j)'
  BY <1>1 DEF Moves, Counted, Inside, AtValue
<1>6. CountExact'
  BY <1>5 DEF CountExact
<1>7. FirstAlone'
  BY <1>1, <1>5 DEF FirstAlone, Moves, Typed
<1>8. DeepHeld'
  BY <1>3, <1>5 DEF DeepHeld, AtValue
<1>9. Seen' /\ FreshValueAnnounced'
  BY <1>1 DEF Seen, FreshValueAnnounced, Moves
<1>. QED
  BY <1>2, <1>4, <1>6, <1>7, <1>8, <1>9

\* A reader takes the value.
LEMMA ReaderLoadInvariant ==
    ASSUME IInv, NEW r \in Readers, ReaderLoad(r)
    PROVE  IInv'
<1>. USE Kinds DEF IInv, ReaderLoad
<1>. SUFFICES ASSUME NEW j \in Objects, at[r] = j PROVE IInv'
  BY Kinds DEF Typed
<1>1. Moves(r, {"relock"}) /\ at' = at /\ j \in Objects
  BY GotoMoves DEF Labels, Typed
<1>2. MutexHeld'
  BY <1>1, NotLocking DEF InSection, Moves
<1>3. Typed'
  BY <1>1 DEF Typed, Moves
<1>4. ASSUME NEW k \in Objects
      PROVE  /\ Counted(k)' = Counted(k)
             /\ Inside(k)' = Inside(k)
             /\ AtValue(Writers, k)' = AtValue(Writers, k)
  BY <1>1 DEF Moves, Counted, Inside, AtValue
<1>5. CountExact' /\ DeepHeld'
  BY <1>4 DEF CountExact, DeepHeld
<1>6. FirstAlone'
  BY <1>1, <1>4 DEF FirstAlone, Moves, Typed
<1>7. Seen' /\ FreshValueAnnounced'
  BY <1>1 DEF Seen, FreshValueAnnounced, Moves, Typed
<1>. QED
  BY <1>2, <1>3, <1>5, <1>6, <1>7

\* A reader is counted out.
LEMMA ReaderLeaveInvariant ==
    ASSUME IInv, NEW r \in Readers, ReaderLeave(r)
    PROVE  IInv'
<1>. USE Kinds DEF IInv, ReaderLeave
<1>. SUFFICES ASSUME NEW j \in Objects, at[r] = j PROVE IInv'
  BY Kinds DEF Typed
<1>. DEFINE last == readerCount'[j] = 0
<1>1. Moves(r, {"try", "done"}) /\ j \in Objects
  BY AdvanceMoves DEF Typed
<1>2. MutexHeld' /\ objectMutexes' \in [Objects -> Threads \cup {None}]
  BY <1>1, Unlocking DEF InSection, Moves
<1>3. /\ Counted(j)' = Counted(j) \ {r} /\ r \in Counted(j)
      /\ Inside(j)' = Inside(j) \ {r} /\ r \in Inside(j)
      /\ \A k \in Objects \ {j} : Counted(k)' = Counted(k) /\ Inside(k)' = Inside(k)
      /\ \A k \in Objects : AtValue(Writers, k)' = AtValue(Writers, k)
  BY <1>1 DEF Counted, Inside, AtValue, Moves
<1>4. /\ readerCount'[j] = readerCount[j] - 1
      /\ \A k \in Objects \ {j} : readerCount'[k] = readerCount[k]
      /\ readerCount' = [k \in Objects |-> readerCount'[k]]
  BY <1>1 DEF Typed
<1>5. readerCount'[j] = Cardinality(Counted(j)')
  <2>1. IsFiniteSet(Counted(j))
    BY ReaderSets DEF Counted
  <2>2. Cardinality(Counted(j) \ {r}) = Cardinality(Counted(j)) - 1
    BY <1>3, <2>1, FS_RemoveElement
  <2>. QED
    BY <1>3, <1>4, <2>2 DEF CountExact
<1>6. readerCount' \in [Objects -> 0 .. Cardinality(Readers)]
  <2>1. readerCount'[j] \in 0 .. Cardinality(Readers)
    BY <1>5, ReaderSets DEF Counted
  <2>. QED
    BY <1>4, <2>1 DEF Typed
<1>7. /\ objectDeepMutexes'[j] = IF last THEN None ELSE objectDeepMutexes[j]
      /\ \A k \in Objects \ {j} : objectDeepMutexes'[k] = objectDeepMutexes[k]
      /\ objectDeepMutexes' \in [Objects -> Threads \cup {None}]
  BY <1>1 DEF UnlockDeep, Typed
<1>8. Typed'
  BY <1>1, <1>2, <1>6, <1>7 DEF Typed, Moves
<1>9. CountExact'
  <2>1. readerCount'[j] <= limits[j]
    BY <1>1, <1>4, ReaderSets DEF CountExact, Typed
  <2>. QED
    BY <1>3, <1>4, <1>5, <2>1 DEF CountExact
<1>10. \A q \in Readers : pc[q] = "lockDeep" => at[q] # j
  BY OneInSection DEF InSection
<1>11. FirstAlone'
  BY <1>1, <1>3, <1>10 DEF FirstAlone, Moves, Typed
<1>12. Inside(j) = Counted(j)
  BY <1>10 DEF Inside, Counted
<1>13. Inside(j)' = {} <=> last
  BY <1>3, <1>5, <1>12, ReaderSets DEF Counted
<1>14. DeepHeld'
  <2>1. objectDeepMutexes[j] \in Readers /\ AtValue(Writers, j) = {}
    BY <1>1, <1>3 DEF DeepHeld, AtValue
  <2>2. /\ \A w \in Writers : w \in AtValue(Writers, j)' <=> objectDeepMutexes'[j] = w
        /\ Inside(j)' # {} <=> objectDeepMutexes'[j] \in Readers
    BY <1>1, <1>3, <1>7, <1>13, <2>1
  <2>. QED
    BY <1>3, <1>7, <2>2 DEF DeepHeld
<1>15. buffer[j] = "loaded"
  BY DEF Seen
<1>16. Seen'
  BY <1>1 DEF Seen, Moves
<1>17. FreshValueAnnounced'
  BY <1>1, <1>15 DEF FreshValueAnnounced, Moves, Typed
<1>. QED
  BY <1>2, <1>8, <1>9, <1>11, <1>14, <1>16, <1>17

------------------------------------------------------------------------------
(* The writers' side.                                                      *)

\* A writer gets the inner mutex.
LEMMA WriterLockDeepInvariant ==
    ASSUME IInv, NEW w \in Writers, WriterLockDeep(w)
    PROVE  IInv'
<1>. USE Kinds DEF IInv, WriterLockDeep
<1>. SUFFICES ASSUME NEW j \in Objects, at[w] = j PROVE IInv'
  BY Kinds DEF Typed
<1>1. Moves(w, {"access"}) /\ at' = at /\ j \in Objects
  BY GotoMoves DEF Labels, Typed
<1>2. MutexHeld'
  BY <1>1, NotLocking DEF InSection, Moves
<1>3. /\ objectDeepMutexes[j] = None /\ objectDeepMutexes'[j] = w
      /\ \A k \in Objects \ {j} : objectDeepMutexes'[k] = objectDeepMutexes[k]
      /\ objectDeepMutexes' \in [Objects -> Threads \cup {None}]
  BY <1>1 DEF LockDeep, Typed
<1>4. Typed'
  BY <1>1, <1>3 DEF Typed, Moves
<1>5. /\ \A k \in Objects : Counted(k)' = Counted(k) /\ Inside(k)' = Inside(k)
      /\ \A k \in Objects \ {j} : AtValue(Writers, k)' = AtValue(Writers, k)
      /\ AtValue(Writers, j)' = AtValue(Writers, j) \cup {w}
  BY <1>1 DEF Moves, Counted, Inside, AtValue
<1>6. CountExact'
  BY <1>5 DEF CountExact
<1>7. FirstAlone'
  BY <1>1, <1>5 DEF FirstAlone, Moves, Typed
<1>8. DeepHeld'
  <2>1. Inside(j) = {} /\ AtValue(Writers, j) = {}
    BY <1>1, <1>3 DEF DeepHeld, AtValue
  <2>. QED
    BY <1>3, <1>5, <2>1 DEF DeepHeld
<1>9. Seen' /\ FreshValueAnnounced'
  BY <1>1 DEF Seen, FreshValueAnnounced, Moves
<1>. QED
  BY <1>2, <1>4, <1>6, <1>7, <1>8, <1>9

\* A writer stores its value.
LEMMA WriterStoreInvariant ==
    ASSUME IInv, NEW w \in Writers, WriterStore(w)
    PROVE  IInv'
<1>. USE Kinds DEF IInv, WriterStore
<1>. SUFFICES ASSUME NEW j \in Objects, at[w] = j PROVE IInv'
  BY Kinds DEF Typed
<1>1. Moves(w, {"relock"}) /\ at' = at /\ j \in Objects
  BY GotoMoves DEF Labels, Typed
<1>2. MutexHeld'
  BY <1>1, NotLocking DEF InSection, Moves
<1>3. objectDeepMutexes[j] = w /\ Inside(j) = {}
  BY <1>1 DEF DeepHeld, AtValue
<1>4. /\ objectDeepMutexes'[j] = None
      /\ \A k \in Objects \ {j} : objectDeepMutexes'[k] = objectDeepMutexes[k]
      /\ objectDeepMutexes' \in [Objects -> Threads \cup {None}]
  BY <1>1 DEF UnlockDeep, Typed
<1>5. Typed'
  BY <1>1, <1>4 DEF Typed, Moves
<1>6. /\ \A k \in Objects : Counted(k)' = Counted(k) /\ Inside(k)' = Inside(k)
      /\ \A k \in Objects \ {j} : AtValue(Writers, k)' = AtValue(Writers, k)
      /\ AtValue(Writers, j)' = AtValue(Writers, j) \ {w}
  BY <1>1 DEF Moves, Counted, Inside, AtValue
<1>7. CountExact'
  BY <1>6 DEF CountExact
<1>8. FirstAlone'
  BY <1>1, <1>6 DEF FirstAlone, Moves, Typed
<1>9. DeepHeld'
  <2>1. AtValue(Writers, j) = {w}
    BY <1>1, <1>3 DEF DeepHeld, AtValue
  <2>2. AtValue(Writers, j)' = {} /\ Inside(j)' = {}
    BY <1>1, <1>3, <1>6, <2>1
  <2>. QED
    BY <1>4, <1>6, <2>2 DEF DeepHeld
<1>10. Seen'
  BY <1>1, <1>3 DEF Seen, Moves, Inside, Typed
<1>11. FreshValueAnnounced'
  BY <1>1 DEF FreshValueAnnounced, Moves, Typed
<1>. QED
  BY <1>2, <1>5, <1>7, <1>8, <1>9, <1>10, <1>11

\* A writer leaves.
LEMMA WriterLeaveInvariant ==
    ASSUME IInv, NEW w \in Writers, WriterLeave(w)
    PROVE  IInv'
<1>. USE Kinds DEF IInv, WriterLeave
<1>1. Moves(w, {"try", "done"}) /\ at[w] \in Objects
  BY AdvanceMoves DEF Typed
<1>2. MutexHeld' /\ objectMutexes' \in [Objects -> Threads \cup {None}]
  BY <1>1, Unlocking DEF InSection, Moves
<1>3. Typed'
  BY <1>1, <1>2 DEF Typed, Moves
<1>4. ASSUME NEW k \in Objects
      PROVE  /\ Counted(k)' = Counted(k)
             /\ Inside(k)' = Inside(k)
             /\ AtValue(Writers, k)' = AtValue(Writers, k)
  BY <1>1 DEF Moves, Counted, Inside, AtValue
<1>5. CountExact' /\ DeepHeld'
  BY <1>4 DEF CountExact, DeepHeld
<1>6. FirstAlone'
  BY <1>1, <1>4 DEF FirstAlone, Moves, Typed
<1>7. Seen' /\ FreshValueAnnounced'
  BY <1>1 DEF Seen, FreshValueAnnounced, Moves, Typed
<1>. QED
  BY <1>2, <1>3, <1>5, <1>6, <1>7

------------------------------------------------------------------------------
(* The invariant holds throughout.                                         *)

\* Nobody has begun.
LEMMA InitInvariant == Init => IInv
<1>. SUFFICES ASSUME Init PROVE IInv
  OBVIOUS
<1>. USE ConstantsAssumption, Kinds DEF Init
<1>1. 0 \in Objects /\ 0 \in 0 .. Cardinality(Readers) /\ Cardinality({}) = 0
  BY ReaderSets, FS_EmptySet DEF Objects
<1>2. Typed
  BY <1>1 DEF Typed, Labels
<1>3. ASSUME NEW j \in Objects
      PROVE  Counted(j) = {} /\ Inside(j) = {} /\ AtValue(Writers, j) = {}
  BY DEF Counted, Inside, AtValue
<1>4. CountExact
  BY <1>1, <1>3 DEF CountExact
<1>5. MutexHeld /\ DeepHeld
  BY <1>3 DEF MutexHeld, InSection, DeepHeld
<1>6. FirstAlone /\ Seen /\ FreshValueAnnounced
  BY DEF FirstAlone, Seen, FreshValueAnnounced
<1>. QED
  BY <1>2, <1>4, <1>5, <1>6 DEF IInv

\* Every step keeps the invariant.
LEMMA NextInvariant == IInv /\ [Next]_vars => IInv'
<1>. SUFFICES ASSUME IInv, [Next]_vars PROVE IInv'
  OBVIOUS
<1>1. CASE UNCHANGED vars
  <2>1. ASSUME NEW j \in Objects
        PROVE  /\ Counted(j)' = Counted(j)
               /\ Inside(j)' = Inside(j)
               /\ AtValue(Writers, j)' = AtValue(Writers, j)
    BY <1>1 DEF vars, Counted, Inside, AtValue
  <2>2. \A r \in Readers : pc[r] = "lockDeep" => Counted(at[r])' = Counted(at[r])
    BY <1>1 DEF vars, Counted
  <2>3. Typed' /\ MutexHeld' /\ Seen' /\ FreshValueAnnounced'
    BY <1>1 DEF vars, IInv, Typed, MutexHeld, InSection, Seen, FreshValueAnnounced
  <2>4. CountExact' /\ DeepHeld'
    BY <1>1, <2>1 DEF vars, IInv, CountExact, DeepHeld
  <2>5. FirstAlone'
    BY <1>1, <2>2 DEF vars, IInv, FirstAlone
  <2>. QED
    BY <2>3, <2>4, <2>5 DEF IInv
<1>2. ASSUME NEW r \in Readers, Reader(r) PROVE IInv'
  BY <1>2, Kinds, TryBusyInvariant, TryLockInvariant, SkipInvariant, ReaderEnterInvariant,
     ReaderLockDeepInvariant, ReaderLoadInvariant, RelockInvariant, ReaderLeaveInvariant
     DEF Reader
<1>3. ASSUME NEW w \in Writers, Writer(w) PROVE IInv'
  BY <1>3, Kinds, TryBusyInvariant, TryLockInvariant, SkipInvariant, WriterAcceptInvariant,
     WriterLockDeepInvariant, WriterStoreInvariant, RelockInvariant, WriterLeaveInvariant
     DEF Writer
<1>. QED
  BY <1>1, <1>2, <1>3 DEF Next, Terminating

------------------------------------------------------------------------------
(* The theorems.                                                           *)

\* The inductive invariant holds throughout every behaviour of ex5.
THEOREM Invariance == Spec => []IInv
BY InitInvariant, NextInvariant, PTL DEF Spec

\* No object of ex5 has more readers at its value than its limit, even though
\* the count is compared with the limit before the readers come to the value.
THEOREM LimitKept == Spec => []LimitRespected
<1>1. IInv => LimitRespected
  <2>1. SUFFICES ASSUME IInv, NEW j \in Objects
                 PROVE  Cardinality(AtValue(Readers, j)) <= limits[j]
    BY DEF LimitRespected
  <2>2. IsFiniteSet(Counted(j)) /\ AtValue(Readers, j) \subseteq Counted(j)
    BY ReaderSets DEF Counted, AtValue
  <2>3. Cardinality(AtValue(Readers, j)) <= Cardinality(Counted(j))
    BY <2>2, FS_Subset
  <2>4. Cardinality(AtValue(Readers, j)) \in Nat
    BY ReaderSets DEF AtValue
  <2>. QED
    BY <2>1, <2>3, <2>4 DEF IInv, Typed, CountExact
<1>. QED
  BY <1>1, Invariance, PTL

\* A value stored in ex5 stays announced, or about to be announced, until a
\* reader has loaded it: no departing reader takes back the announcement of a
\* value newer than the one it has seen.
THEOREM ValueNotLost == Spec => []FreshValueAnnounced
BY Invariance, PTL DEF IInv

\* Whoever has returned has left nothing behind, at any object.
LEMMA CleanWhenDone == IInv /\ AllDone => Clean
<1>. SUFFICES ASSUME IInv, AllDone, NEW j \in Objects
              PROVE  readerCount[j] = 0 /\ objectMutexes[j] = None /\ objectDeepMutexes[j] = None
  BY DEF Clean
<1>. USE Kinds DEF IInv, AllDone
<1>1. Counted(j) = {} /\ Inside(j) = {} /\ AtValue(Writers, j) = {}
  BY DEF Counted, Inside, AtValue
<1>2. readerCount[j] = 0
  BY <1>1, FS_EmptySet DEF CountExact
<1>3. objectMutexes[j] = None
  BY DEF MutexHeld, InSection, Typed
<1>4. objectDeepMutexes[j] = None
  BY <1>1 DEF DeepHeld, Typed
<1>. QED
  BY <1>2, <1>3, <1>4

\* A held deep mutex belongs to a writer at the value, which waits for nothing, or
\* to readers inside; while there are any, the first reader is not waiting behind
\* the object's mutex, so whoever holds that can go on.
LEMMA DeepIsGivenBack ==
    ASSUME IInv, NEW j \in Objects, objectDeepMutexes[j] # None
    PROVE  \E t \in Threads : pc[t] # "done" /\ ~Waiting(t)
<1>. USE Kinds DEF IInv
<1>1. CASE objectDeepMutexes[j] \in Writers
  <2>1. objectDeepMutexes[j] \in AtValue(Writers, j)
    BY <1>1 DEF DeepHeld
  <2>. QED
    BY <2>1 DEF AtValue, Waiting
<1>2. CASE objectDeepMutexes[j] \in Readers
  <2>1. PICK r \in Readers : at[r] = j /\ pc[r] \in {"access", "relock", "leave"}
    BY <1>2 DEF DeepHeld, Inside
  <2>2. CASE objectMutexes[j] = None
    BY <2>1, <2>2 DEF Waiting
  <2>3. CASE objectMutexes[j] # None
    <3>1. objectMutexes[j] \in Threads /\ InSection(objectMutexes[j]) /\ at[objectMutexes[j]] = j
      BY <2>3 DEF MutexHeld, Typed
    <3>2. r \in Counted(j)
      BY <2>1 DEF Counted
    <3>3. ~(objectMutexes[j] \in Readers /\ pc[objectMutexes[j]] = "lockDeep")
      BY <2>1, <3>1, <3>2 DEF FirstAlone
    <3>. QED
      BY <3>1, <3>3 DEF InSection, Waiting
  <2>. QED
    BY <2>2, <2>3
<1>. QED
  BY <1>1, <1>2 DEF Typed

\* Who waits at an object waits for the deep mutex, or for a thread that waits for
\* the deep mutex, or for one that can go on.
LEMMA SomebodyGoesOn ==
    IInv /\ ~AllDone => \E t \in Threads : pc[t] # "done" /\ ~Waiting(t)
<1>. SUFFICES ASSUME IInv, NEW u \in Threads, pc[u] # "done"
              PROVE  \E t \in Threads : pc[t] # "done" /\ ~Waiting(t)
  BY DEF AllDone
<1>. USE Kinds DEF IInv
<1>1. at[u] \in Objects
  BY DEF Typed
<1>2. CASE objectDeepMutexes[at[u]] # None
  BY <1>1, <1>2, DeepIsGivenBack
<1>3. CASE objectDeepMutexes[at[u]] = None /\ objectMutexes[at[u]] # None
  <2>1. objectMutexes[at[u]] \in Threads
    BY <1>1, <1>3 DEF Typed
  <2>2. InSection(objectMutexes[at[u]]) /\ at[objectMutexes[at[u]]] = at[u]
    BY <1>1, <1>3 DEF MutexHeld
  <2>. QED
    BY <1>3, <2>1, <2>2 DEF InSection, Waiting
<1>4. CASE objectDeepMutexes[at[u]] = None /\ objectMutexes[at[u]] = None
  BY <1>4 DEF Waiting
<1>. QED
  BY <1>2, <1>3, <1>4

\* The threads of ex5 never all wait for each other, and when all have returned
\* no reader is counted and every mutex is free.
THEOREM NeverAllWait == Spec => []NoDeadlock
<1>1. IInv => NoDeadlock
  BY CleanWhenDone, SomebodyGoesOn DEF NoDeadlock
<1>. QED
  BY <1>1, Invariance, PTL

\* When the invariant holds, the readers at a value keep the writers away from
\* it, and a writer keeps everybody else away.
LEMMA ValueShared ==
    ASSUME IInv, NEW j \in Objects
    PROVE  /\ AtValue(Readers, j) = {} \/ AtValue(Writers, j) = {}
           /\ \A v, w \in AtValue(Writers, j) : v = w
BY Kinds DEF IInv, DeepHeld, AtValue, Inside

\* A thread comes to the value of its object, or leaves it, and nobody else
\* comes or goes.
LEMMA ComingOrGoing ==
    ASSUME IInv, IInv', [Next]_vars, NEW j \in Objects
    PROVE  \/ UNCHANGED <<AtValue(Readers, j), AtValue(Writers, j)>>
           \/ \E r \in Readers :
                  /\ UNCHANGED AtValue(Writers, j)
                  /\ \/ /\ r \notin AtValue(Readers, j)
                        /\ AtValue(Readers, j)' = AtValue(Readers, j) \cup {r}
                     \/ /\ r \in AtValue(Readers, j)
                        /\ AtValue(Readers, j)' = AtValue(Readers, j) \ {r}
           \/ \E w \in Writers :
                  /\ UNCHANGED AtValue(Readers, j)
                  /\ \/ /\ w \notin AtValue(Writers, j)
                        /\ AtValue(Writers, j)' = AtValue(Writers, j) \cup {w}
                     \/ /\ w \in AtValue(Writers, j)
                        /\ AtValue(Writers, j)' = AtValue(Writers, j) \ {w}
<1>. USE Kinds DEF IInv
<1>1. CASE UNCHANGED vars
  BY <1>1 DEF vars, AtValue
<1>2. ASSUME NEW t \in Threads, NEW labels, Moves(t, labels)
      PROVE  /\ t \in Readers => /\ UNCHANGED AtValue(Writers, j)
                                 /\ AtValue(Readers, j)' \ {t} = AtValue(Readers, j) \ {t}
             /\ t \in Writers => /\ UNCHANGED AtValue(Readers, j)
                                 /\ AtValue(Writers, j)' \ {t} = AtValue(Writers, j) \ {t}
  BY <1>2 DEF Moves, AtValue
<1>3. ASSUME NEW r \in Readers, Reader(r) PROVE \E labels : Moves(r, labels)
  BY <1>3, AdvanceMoves, GotoMoves DEF Reader, TryBusy, TryLock, ReaderSkip, ReaderEnter,
     ReaderLockDeep, ReaderLoad, Relock, ReaderLeave, Labels
<1>4. ASSUME NEW w \in Writers, Writer(w) PROVE \E labels : Moves(w, labels)
  BY <1>4, AdvanceMoves, GotoMoves DEF Writer, TryBusy, TryLock, WriterSkip, WriterAccept,
     WriterLockDeep, WriterStore, Relock, WriterLeave, Labels
<1>5. ASSUME NEW r \in Readers, Reader(r)
      PROVE  /\ UNCHANGED AtValue(Writers, j)
             /\ \/ AtValue(Readers, j)' = AtValue(Readers, j)
                \/ /\ r \notin AtValue(Readers, j)
                   /\ AtValue(Readers, j)' = AtValue(Readers, j) \cup {r}
                \/ /\ r \in AtValue(Readers, j)
                   /\ AtValue(Readers, j)' = AtValue(Readers, j) \ {r}
  <2>1. /\ UNCHANGED AtValue(Writers, j)
        /\ AtValue(Readers, j)' \ {r} = AtValue(Readers, j) \ {r}
    BY <1>2, <1>3, <1>5
  <2>. QED
    BY <2>1
<1>6. ASSUME NEW w \in Writers, Writer(w)
      PROVE  /\ UNCHANGED AtValue(Readers, j)
             /\ \/ AtValue(Writers, j)' = AtValue(Writers, j)
                \/ /\ w \notin AtValue(Writers, j)
                   /\ AtValue(Writers, j)' = AtValue(Writers, j) \cup {w}
                \/ /\ w \in AtValue(Writers, j)
                   /\ AtValue(Writers, j)' = AtValue(Writers, j) \ {w}
  <2>1. /\ UNCHANGED AtValue(Readers, j)
        /\ AtValue(Writers, j)' \ {w} = AtValue(Writers, j) \ {w}
    BY <1>2, <1>4, <1>6
  <2>. QED
    BY <2>1
<1>. QED
  BY <1>1, <1>5, <1>6 DEF Next, Terminating

\* Every step of ex5 is, at each object, a step of the abstract object or
\* leaves it alone.
LEMMA ObjectStep ==
    ASSUME IInv, IInv', [Next]_vars, NEW j \in Objects
    PROVE  Object(j)!Next \/ UNCHANGED <<AtValue(Readers, j), AtValue(Writers, j)>>
<1>1. /\ AtValue(Readers, j) = {} \/ AtValue(Writers, j) = {}
      /\ \A v, w \in AtValue(Writers, j) : v = w
  BY ValueShared
<1>2. /\ AtValue(Readers, j)' = {} \/ AtValue(Writers, j)' = {}
      /\ \A v, w \in AtValue(Writers, j)' : v = w
  BY Kinds DEF IInv, DeepHeld, AtValue, Inside
<1>3. ASSUME NEW r \in Readers, UNCHANGED AtValue(Writers, j), r \notin AtValue(Readers, j),
             AtValue(Readers, j)' = AtValue(Readers, j) \cup {r}
      PROVE  Object(j)!BeginRead(r)
  BY <1>2, <1>3 DEF Object!BeginRead
<1>4. ASSUME NEW r \in Readers, UNCHANGED AtValue(Writers, j), r \in AtValue(Readers, j),
             AtValue(Readers, j)' = AtValue(Readers, j) \ {r}
      PROVE  Object(j)!EndRead(r)
  BY <1>4 DEF Object!EndRead
<1>5. ASSUME NEW w \in Writers, UNCHANGED AtValue(Readers, j), w \notin AtValue(Writers, j),
             AtValue(Writers, j)' = AtValue(Writers, j) \cup {w}
      PROVE  Object(j)!BeginWrite(w)
  BY <1>2, <1>5 DEF Object!BeginWrite
<1>6. ASSUME NEW w \in Writers, UNCHANGED AtValue(Readers, j), w \in AtValue(Writers, j),
             AtValue(Writers, j)' = AtValue(Writers, j) \ {w}
      PROVE  Object(j)!EndWrite(w)
  BY <1>1, <1>6 DEF Object!EndWrite
<1>. QED
  BY <1>3, <1>4, <1>5, <1>6, ComingOrGoing DEF Object!Next

\* Each object of ex5 implements the abstract readers-writers object.
THEOREM ObjectRefinement == Spec => ImplementsReadersWriters
<1>1. Init => \A j \in Objects : Object(j)!Init
  BY Kinds DEF Init, Object!Init, AtValue
<1>2. IInv /\ IInv' /\ [Next]_vars =>
          [\A j \in Objects :
              \/ Object(j)!Next
              \/ UNCHANGED <<AtValue(Readers, j), AtValue(Writers, j)>>]_vars
  BY ObjectStep
<1>. QED
  BY <1>1, <1>2, Invariance, PTL DEF Spec, ImplementsReadersWriters

------------------------------------------------------------------------------
(* lab01/ex3.c, whose threads walk the same objects with trylock alone     *)
(* (module SlotExchange).  The constants and most variables have the same  *)
(* names there; the labels of pc are its own.                              *)

VARIABLE unread

Slots == INSTANCE SlotExchange

SlotLabels == {"try", "test", "access", "release", "done"}

SlotTyped ==
    /\ objectMutexes \in [Objects -> Threads \cup {None}]
    /\ full \in [Objects -> BOOLEAN]
    /\ unread \in SUBSET Objects
    /\ pc \in [Threads -> SlotLabels]
    /\ at \in [Threads -> Objects]
    /\ turn \in [Threads -> Nat]

\* The threads that hold the mutex of their object.
InSlot(t) == pc[t] \in {"test", "access", "release"}

SlotHeld ==
    /\ \A t \in Threads : InSlot(t) => objectMutexes[at[t]] = t
    /\ \A j \in Objects : objectMutexes[j] # None =>
           InSlot(objectMutexes[j]) /\ at[objectMutexes[j]] = j

\* The flag of an object tells whether its value is unread, except between a
\* thread's access and its release, when it tells the opposite.
FlagExact ==
    \A j \in Objects :
        IF \E t \in Threads : pc[t] = "release" /\ at[t] = j
        THEN full[j] <=> j \notin unread
        ELSE full[j] <=> j \in unread

\* A thread accesses an object it has found in the state it wants.
FlagWanted == \A t \in Threads : pc[t] \in {"access", "release"} => (full[at[t]] <=> t \in Readers)

SlotInv == SlotTyped /\ SlotHeld /\ FlagExact /\ FlagWanted

SlotMoves(t, labels) ==
    /\ pc' \in [Threads -> SlotLabels]
    /\ at' \in [Threads -> Objects]
    /\ turn' \in [Threads -> Nat]
    /\ pc'[t] \in labels
    /\ \A u \in Threads \ {t} : pc'[u] = pc[u] /\ at'[u] = at[u]

\* A thread of ex3 that is through with its object comes to the next one, or
\* returns.
LEMMA SlotAdvanceMoves ==
    ASSUME SlotTyped, NEW t \in Threads, Slots!Advance(t)
    PROVE  SlotMoves(t, {"try", "done"})
<1>. USE DEF SlotTyped, Slots!Advance, Slots!NextObject, SlotLabels
<1>1. (at[t] + 1) % OBJECT_COUNT \in Objects
  BY ConstantsAssumption DEF Objects
<1>2. at' \in [Threads -> Objects]
  BY <1>1
<1>3. turn' \in [Threads -> Nat]
  OBVIOUS
<1>. QED
  BY <1>2, <1>3 DEF SlotMoves

\* Two threads of ex3 do not hold the mutex of one object.
LEMMA OneInSlot ==
    ASSUME SlotHeld, NEW t \in Threads, NEW u \in Threads,
           InSlot(t), InSlot(u), at[t] = at[u]
    PROVE  t = u
BY DEF SlotHeld

\* A step that neither accesses an object nor sets its flag.
LEMMA FlagsKept ==
    ASSUME SlotInv, NEW t \in Threads, pc[t] # "release",
           NEW labels, SlotMoves(t, labels), labels \subseteq {"try", "test", "done"},
           UNCHANGED <<full, unread>>
    PROVE  FlagExact' /\ FlagWanted'
<1>1. ASSUME NEW j \in Objects
      PROVE  (\E u \in Threads : pc'[u] = "release" /\ at'[u] = j) <=>
             (\E u \in Threads : pc[u] = "release" /\ at[u] = j)
  BY DEF SlotMoves
<1>2. FlagExact'
  BY <1>1 DEF SlotInv, FlagExact
<1>3. FlagWanted'
  BY DEF SlotInv, FlagWanted, SlotMoves
<1>. QED
  BY <1>2, <1>3

\* ex3: a thread finds the slot busy.
LEMMA SlotTryBusyInvariant ==
    ASSUME SlotInv, NEW t \in Threads, Slots!TryBusy(t)
    PROVE  SlotInv'
<1>. USE DEF SlotInv, Slots!TryBusy
<1>1. SlotMoves(t, {"try", "done"})
  BY SlotAdvanceMoves
<1>2. SlotTyped'
  BY <1>1 DEF SlotTyped, SlotMoves
<1>3. SlotHeld'
  BY <1>1, Kinds DEF SlotHeld, InSlot, SlotMoves, SlotTyped
<1>. QED
  BY <1>1, <1>2, <1>3, FlagsKept

\* ex3: a thread gets the mutex of the slot.
LEMMA SlotTryLockInvariant ==
    ASSUME SlotInv, NEW t \in Threads, Slots!TryLock(t)
    PROVE  SlotInv'
<1>. USE DEF SlotInv, Slots!TryLock, Slots!Free
<1>1. SlotMoves(t, {"test"}) /\ at' = at
  BY DEF SlotTyped, SlotMoves, SlotLabels
<1>2. SlotTyped'
  BY <1>1 DEF SlotTyped, SlotMoves
<1>3. SlotHeld'
  BY <1>1, Kinds DEF SlotHeld, InSlot, SlotMoves, SlotTyped
<1>. QED
  BY <1>1, <1>2, <1>3, FlagsKept

\* Once a thread has unlocked its object, the other mutexes are held as before.
LEMMA SlotUnlocking ==
    ASSUME SlotInv, NEW t \in Threads, InSlot(t), SlotMoves(t, {"try", "done"}),
           objectMutexes' = [objectMutexes EXCEPT ![at[t]] = None]
    PROVE  SlotHeld' /\ objectMutexes' \in [Objects -> Threads \cup {None}]
<1>1. objectMutexes' \in [Objects -> Threads \cup {None}]
  BY DEF SlotInv, SlotTyped
<1>2. SlotHeld'
  BY Kinds DEF SlotInv, SlotHeld, InSlot, SlotMoves, SlotTyped
<1>. QED
  BY <1>1, <1>2

\* ex3: a thread finds nothing to do there.
LEMMA SlotSkipInvariant ==
    ASSUME SlotInv, NEW t \in Threads, Slots!Skip(t)
    PROVE  SlotInv'
<1>. USE DEF SlotInv, Slots!Skip
<1>1. SlotMoves(t, {"try", "done"})
  BY SlotAdvanceMoves
<1>2. SlotHeld' /\ objectMutexes' \in [Objects -> Threads \cup {None}]
  BY <1>1, SlotUnlocking DEF InSlot
<1>3. SlotTyped'
  BY <1>1, <1>2 DEF SlotTyped, SlotMoves
<1>. QED
  BY <1>1, <1>2, <1>3, FlagsKept

\* ex3: a thread finds the slot as it needs it.
LEMMA SlotAcceptInvariant ==
    ASSUME SlotInv, NEW t \in Threads, Slots!Accept(t)
    PROVE  SlotInv'
<1>. USE DEF SlotInv, Slots!Accept, Slots!Wanted
<1>1. SlotMoves(t, {"access"}) /\ at' = at
  BY DEF SlotTyped, SlotMoves, SlotLabels
<1>2. SlotTyped'
  BY <1>1 DEF SlotTyped, SlotMoves
<1>3. SlotHeld'
  BY <1>1, Kinds DEF SlotHeld, InSlot, SlotMoves, SlotTyped
<1>4. FlagExact'
  BY <1>1 DEF FlagExact, SlotMoves
<1>5. FlagWanted'
  BY <1>1 DEF FlagWanted, SlotMoves
<1>. QED
  BY <1>2, <1>3, <1>4, <1>5

\* ex3: a thread takes the value, or puts one there.
LEMMA SlotAccessInvariant ==
    ASSUME SlotInv, NEW t \in Threads, Slots!Access(t)
    PROVE  SlotInv'
<1>. USE DEF SlotInv, Slots!Access
<1>1. SlotMoves(t, {"release"}) /\ at' = at /\ at[t] \in Objects
  BY DEF SlotTyped, SlotMoves, SlotLabels
<1>2. SlotTyped'
  BY <1>1 DEF SlotTyped, SlotMoves
<1>3. SlotHeld'
  BY <1>1, Kinds DEF SlotHeld, InSlot, SlotMoves, SlotTyped
<1>4. FlagWanted'
  BY <1>1 DEF FlagWanted, SlotMoves
<1>5. ASSUME NEW j \in Objects
      PROVE  IF \E u \in Threads : pc'[u] = "release" /\ at'[u] = j
             THEN full'[j] <=> j \notin unread'
             ELSE full'[j] <=> j \in unread'
  <2>1. CASE j = at[t]
    <3>1. ~\E u \in Threads : pc[u] = "release" /\ at[u] = j
      BY <2>1, OneInSlot DEF InSlot
    <3>2. (full[j] <=> j \in unread) /\ (full[j] <=> t \in Readers)
      BY <2>1, <3>1 DEF FlagExact, FlagWanted
    <3>3. full'[j] <=> j \notin unread'
      BY <2>1, <3>2
    <3>. QED
      BY <1>1, <2>1, <3>3 DEF SlotMoves
  <2>2. CASE j # at[t]
    <3>1. j \in unread' <=> j \in unread
      BY <2>2
    <3>2. (\E u \in Threads : pc'[u] = "release" /\ at'[u] = j) <=>
          (\E u \in Threads : pc[u] = "release" /\ at[u] = j)
      BY <1>1, <2>2 DEF SlotMoves
    <3>. QED
      BY <3>1, <3>2 DEF FlagExact
  <2>. QED
    BY <2>1, <2>2
<1>6. FlagExact'
  BY <1>5 DEF FlagExact
<1>. QED
  BY <1>2, <1>3, <1>4, <1>6

\* ex3: a thread gives the slot back.
LEMMA SlotReleaseInvariant ==
    ASSUME SlotInv, NEW t \in Threads, Slots!Release(t)
    PROVE  SlotInv'
<1>. USE DEF SlotInv, Slots!Release
<1>1. SlotMoves(t, {"try", "done"}) /\ at[t] \in Objects
  BY SlotAdvanceMoves DEF SlotTyped
<1>2. SlotHeld' /\ objectMutexes' \in [Objects -> Threads \cup {None}]
  BY <1>1, SlotUnlocking DEF InSlot
<1>3. SlotTyped'
  BY <1>1, <1>2 DEF SlotTyped, SlotMoves
<1>4. \A u \in Threads \ {t} : pc[u] \in {"access", "release"} => at[u] # at[t]
  BY OneInSlot DEF InSlot
<1>5. FlagWanted'
  BY <1>1, <1>4 DEF FlagWanted, SlotMoves, SlotTyped
<1>6. ASSUME NEW j \in Objects
      PROVE  IF \E u \in Threads : pc'[u] = "release" /\ at'[u] = j
             THEN full'[j] <=> j \notin unread'
             ELSE full'[j] <=> j \in unread'
  <2>1. CASE j = at[t]
    <3>1. (full[j] <=> j \notin unread) /\ (full[j] <=> t \in Readers)
      BY <2>1 DEF FlagExact, FlagWanted
    <3>2. full'[j] <=> j \in unread'
      BY <1>1, <2>1, <3>1, Kinds DEF SlotTyped
    <3>3. ~\E u \in Threads : pc'[u] = "release" /\ at'[u] = j
      BY <1>1, <1>4, <2>1 DEF SlotMoves
    <3>. QED
      BY <3>2, <3>3
  <2>2. CASE j # at[t]
    <3>1. full'[j] = full[j]
      BY <2>2 DEF SlotTyped
    <3>2. (\E u \in Threads : pc'[u] = "release" /\ at'[u] = j) <=>
          (\E u \in Threads : pc[u] = "release" /\ at[u] = j)
      BY <1>1, <2>2 DEF SlotMoves
    <3>. QED
      BY <3>1, <3>2 DEF FlagExact
  <2>. QED
    BY <2>1, <2>2
<1>7. FlagExact'
  BY <1>6 DEF FlagExact
<1>. QED
  BY <1>2, <1>3, <1>5, <1>7

\* The invariant of ex3 holds throughout.
LEMMA SlotInvariance == Slots!Spec => []SlotInv
<1>1. Slots!Init => SlotInv
  <2>1. SUFFICES ASSUME Slots!Init PROVE SlotInv
    OBVIOUS
  <2>. USE Kinds, <2>1 DEF Slots!Init, Slots!Objects, Slots!Threads
  <2>2. 0 \in Objects
    BY ConstantsAssumption DEF Objects
  <2>3. SlotTyped
    BY <2>2 DEF SlotTyped, SlotLabels, Objects, Threads
  <2>4. SlotHeld /\ FlagExact /\ FlagWanted
    BY DEF SlotHeld, InSlot, FlagExact, FlagWanted, Objects, Threads
  <2>. QED
    BY <2>3, <2>4 DEF SlotInv
<1>2. SlotInv /\ [Slots!Next]_(Slots!vars) => SlotInv'
  <2>. SUFFICES ASSUME SlotInv, [Slots!Next]_(Slots!vars) PROVE SlotInv'
    OBVIOUS
  <2>1. CASE UNCHANGED Slots!vars
    BY <2>1 DEF Slots!vars, SlotInv, SlotTyped, SlotHeld, InSlot, FlagExact, FlagWanted
  <2>2. ASSUME NEW t \in Threads, Slots!Thread(t) PROVE SlotInv'
    BY <2>2, SlotTryBusyInvariant, SlotTryLockInvariant, SlotSkipInvariant,
       SlotAcceptInvariant, SlotAccessInvariant, SlotReleaseInvariant DEF Slots!Thread
  <2>. QED
    BY <2>1, <2>2 DEF Slots!Next, Slots!Reader, Slots!Writer, Slots!Terminating,
                      Slots!Threads, Threads
<1>. QED
  BY <1>1, <1>2, PTL DEF Slots!Spec

\* A reader of ex3 loads a value nobody has loaded, and a writer overwrites
\* none of those.
THEOREM SlotReadOnce == Slots!Spec => []Slots!EachValueReadOnce
<1>1. SlotInv => Slots!EachValueReadOnce
  <2>1. SUFFICES ASSUME SlotInv, NEW t \in Threads, pc[t] = "access"
                 PROVE  at[t] \in unread <=> t \in Readers
    BY DEF Slots!EachValueReadOnce, Slots!Threads, Threads
  <2>2. ~\E u \in Threads : pc[u] = "release" /\ at[u] = at[t]
    BY <2>1, OneInSlot DEF SlotInv, InSlot
  <2>. QED
    BY <2>1, <2>2 DEF SlotInv, SlotTyped, FlagExact, FlagWanted
<1>. QED
  BY <1>1, SlotInvariance, PTL
=============================================================================
