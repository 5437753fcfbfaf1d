--------------------------- MODULE FillDrainProofs ---------------------------
(***************************************************************************)
(* Proofs about lab01/ex6.c (module FillDrain), for any number of threads, *)
(* rounds and slots.                                                       *)
(*                                                                         *)
(* NoDataRace is not inductive: that the slots claimed in a batch differ   *)
(* depends on every claimed slot being below the running index, and that   *)
(* an index restarts only when nobody is left in the critical part depends *)
(* on the counters counting the busy threads exactly.  FillPhase and       *)
(* DrainPhase say so, one for each value of toRead > 0.                    *)
(***************************************************************************)
EXTENDS FillDrain, FiniteSetTheorems, TLAPS

\* The threads between their two critical sections.
BusyReaders == {r \in Readers : pc[r] \in {"access", "leave"}}
BusyWriters == {w \in Writers : pc[w] \in {"access", "leave"}}

\* The slots that threads of S are accessing.
Claimed(S) == {j \in Slots : \E t \in S : pc[t] = "access" /\ slot[t] = j}

\* A thread that has not returned has a round to do.
RoundsLeft == \A t \in Threads : pc[t] # "done" => turn[t] < TURNS

FillPhase ==
    toRead = 0 =>
        /\ BusyReaders = {}
        /\ written < BUFFER_SIZE
        /\ written = writeIndex - Cardinality(BusyWriters)
        /\ \A w \in Writers : pc[w] = "access" => slot[w] < writeIndex
        /\ unread = (0 .. writeIndex - 1) \ Claimed(Writers)

DrainPhase ==
    toRead > 0 =>
        /\ BusyWriters = {}
        /\ written = BUFFER_SIZE
        /\ writeIndex = BUFFER_SIZE
        /\ toRead = BUFFER_SIZE - readIndex + Cardinality(BusyReaders)
        /\ \A r \in Readers : pc[r] = "access" => slot[r] < readIndex
        /\ unread = (readIndex .. BUFFER_SIZE - 1) \cup Claimed(Readers)

IInv == TypeOK /\ RoundsLeft /\ FillPhase /\ DrainPhase /\ NoDataRace /\ NoLostWakeup

------------------------------------------------------------------------------
(* Facts about the pieces of the model.                                    *)

\* The busy threads of each kind are finitely many.
LEMMA BusyFinite ==
    /\ IsFiniteSet(BusyReaders) /\ Cardinality(BusyReaders) \in Nat
    /\ IsFiniteSet(BusyWriters) /\ Cardinality(BusyWriters) \in Nat
    /\ Cardinality(BusyReaders) = 0 <=> BusyReaders = {}
    /\ Cardinality(BusyWriters) = 0 <=> BusyWriters = {}
<1>1. IsFiniteSet(BusyReaders) /\ IsFiniteSet(BusyWriters)
  <2>1. BusyReaders \in SUBSET Readers /\ BusyWriters \in SUBSET Writers
    BY DEF BusyReaders, BusyWriters
  <2>. QED
    BY <2>1, FS_Subset, ConstantsAssumption
<1>. QED
  BY <1>1, FS_CardinalityType, FS_EmptySet

\* The end of a round leads t to its next round or out of its loop.
LEMMA EndTurnFacts ==
    ASSUME TypeOK, NEW t \in Threads
    PROVE  /\ EndTurn(t) \in [Threads -> {"enter", "asleep", "access", "leave", "done"}]
           /\ EndTurn(t)[t] \in {"enter", "done"}
           /\ EndTurn(t)[t] # "done" => turn[t] + 1 < TURNS
           /\ \A u \in Threads \ {t} : EndTurn(t)[u] = pc[u]
BY DEF TypeOK, EndTurn

\* A broadcast moves the sleepers of S to the test of their condition and
\* nobody else.
LEMMA BroadcastFacts ==
    ASSUME NEW S,
           NEW p \in [Threads -> {"enter", "asleep", "access", "leave", "done"}]
    PROVE  /\ Broadcast(S, p) \in [Threads -> {"enter", "asleep", "access", "leave", "done"}]
           /\ \A u \in Threads :
                 /\ p[u] # "asleep" => Broadcast(S, p)[u] = p[u]
                 /\ p[u] = "asleep" /\ u \in S => Broadcast(S, p)[u] = "enter"
                 /\ p[u] = "asleep" /\ u \notin S => Broadcast(S, p)[u] = "asleep"
BY DEF Broadcast

------------------------------------------------------------------------------
(* The invariant is inductive: one lemma for each kind of step.            *)

LEMMA InitInvariant == Init => IInv
<1>. SUFFICES ASSUME Init PROVE IInv
  OBVIOUS
<1>. USE ConstantsAssumption DEF Init
<1>1. TypeOK /\ RoundsLeft /\ NoDataRace /\ NoLostWakeup
  BY DEF TypeOK, Threads, Slots, RoundsLeft, NoDataRace, NoLostWakeup
<1>2. BusyReaders = {} /\ BusyWriters = {} /\ Claimed(Writers) = {}
  BY DEF BusyReaders, BusyWriters, Claimed, Threads
<1>3. FillPhase
  BY <1>2, FS_EmptySet DEF FillPhase, Threads
<1>4. DrainPhase
  BY DEF DrainPhase
<1>. QED
  BY <1>1, <1>3, <1>4 DEF IInv

\* A step that only moves threads between the loop head and the condition
\* variable, each thread asleep having to wait, keeps the invariant.
LEMMA WaitingInvariant ==
    ASSUME IInv, NEW t \in Threads, NEW v \in {"enter", "asleep"},
           pc[t] \in {"enter", "asleep"},
           pc' = [pc EXCEPT ![t] = v],
           v = "asleep" => \/ t \in Readers /\ ReaderMustWait
                           \/ t \in Writers /\ WriterMustWait,
           UNCHANGED <<written, toRead, writeIndex, readIndex, unread, slot, turn>>
    PROVE  IInv'
<1>. USE ConstantsAssumption DEF IInv
<1>1. TypeOK'
  BY DEF TypeOK
<1>2. RoundsLeft'
  BY DEF TypeOK, RoundsLeft
<1>3. BusyReaders' = BusyReaders /\ BusyWriters' = BusyWriters
  BY DEF TypeOK, BusyReaders, BusyWriters, Threads
<1>4. Claimed(Readers)' = Claimed(Readers) /\ Claimed(Writers)' = Claimed(Writers)
  BY DEF TypeOK, Claimed, Threads, Slots
<1>5. \A u \in Threads : pc'[u] = "access" <=> pc[u] = "access"
  BY DEF TypeOK
<1>6. FillPhase'
  BY <1>3, <1>4, <1>5 DEF FillPhase, Threads
<1>7. DrainPhase'
  BY <1>3, <1>4, <1>5 DEF DrainPhase, Threads
<1>8. NoDataRace'
  BY <1>5 DEF NoDataRace
<1>9. NoLostWakeup'
  BY DEF TypeOK, NoLostWakeup, ReaderMustWait, WriterMustWait, Threads
<1>. QED
  BY <1>1, <1>2, <1>6, <1>7, <1>8, <1>9

LEMMA ReaderClaimInvariant ==
    ASSUME IInv, NEW r \in Readers, ReaderClaim(r)
    PROVE  IInv'
<1>. USE ConstantsAssumption DEF IInv, ReaderClaim
<1>. r \in Threads /\ r \notin Writers
  BY DEF Threads
<1>1. /\ readIndex \in 0 .. BUFFER_SIZE - 1
      /\ written = BUFFER_SIZE
      /\ toRead \in Nat /\ toRead > 0
  BY DEF TypeOK, ReaderMustWait, FillPhase
<1>2. TypeOK'
  BY <1>1 DEF TypeOK, Slots
<1>3. RoundsLeft'
  BY DEF TypeOK, RoundsLeft
<1>4. \A u \in Threads : pc'[u] = "access" <=> pc[u] = "access" \/ u = r
  BY DEF TypeOK
<1>5. \A u \in Threads : slot'[u] = IF u = r THEN readIndex ELSE slot[u]
  BY DEF TypeOK
<1>6. BusyReaders' = BusyReaders \cup {r} /\ r \notin BusyReaders
  BY DEF TypeOK, BusyReaders, Threads
<1>7. BusyWriters' = BusyWriters
  BY DEF TypeOK, BusyWriters, Threads
<1>8. Claimed(Readers)' = Claimed(Readers) \cup {readIndex}
  BY <1>1, <1>4, <1>5 DEF Claimed, Threads, Slots, TypeOK
<1>9. Cardinality(BusyReaders') = Cardinality(BusyReaders) + 1
  BY <1>6, BusyFinite, FS_AddElement
<1>10. FillPhase'
  BY <1>1 DEF FillPhase
<1>11. DrainPhase'
  <2>1. toRead' = BUFFER_SIZE - readIndex' + Cardinality(BusyReaders')
    BY <1>1, <1>9, BusyFinite DEF DrainPhase, TypeOK
  <2>2. \A s \in Readers : pc'[s] = "access" => slot'[s] < readIndex'
    BY <1>1, <1>4, <1>5 DEF DrainPhase, TypeOK, Threads, Slots
  <2>3. (readIndex' .. BUFFER_SIZE - 1) \cup {readIndex} = readIndex .. BUFFER_SIZE - 1
    BY <1>1
  <2>4. unread' = (readIndex' .. BUFFER_SIZE - 1) \cup Claimed(Readers)'
    BY <1>1, <1>8, <2>3 DEF DrainPhase
  <2>. QED
    BY <1>1, <1>7, <2>1, <2>2, <2>4 DEF DrainPhase
<1>12. NoDataRace'
  <2>1. \A s \in Threads : pc[s] = "access" => s \in Readers /\ slot[s] < readIndex
    BY <1>1 DEF DrainPhase, BusyWriters, Threads
  <2>2. \A s \in Threads : slot[s] \in Nat
    BY DEF TypeOK, Slots
  <2>. QED
    BY <1>1, <1>4, <1>5, <2>1, <2>2 DEF NoDataRace
<1>13. NoLostWakeup'
  <2>1. \A u \in Threads : pc'[u] = "asleep" => pc[u] = "asleep"
    BY DEF TypeOK
  <2>. QED
    BY <1>1, <2>1 DEF NoLostWakeup, ReaderMustWait, WriterMustWait, Threads
<1>. QED
  BY <1>2, <1>3, <1>10, <1>11, <1>12, <1>13

LEMMA ReaderLoadInvariant ==
    ASSUME IInv, NEW r \in Readers, ReaderLoad(r)
    PROVE  IInv'
<1>. USE ConstantsAssumption DEF IInv, ReaderLoad
<1>. r \in Threads /\ r \notin Writers
  BY DEF Threads
<1>1. toRead \in Nat /\ toRead > 0 /\ slot[r] \in 0 .. readIndex - 1 /\ readIndex \in Nat
  BY DEF TypeOK, FillPhase, DrainPhase, BusyReaders, Slots
<1>2. TypeOK'
  BY DEF TypeOK
<1>3. RoundsLeft'
  BY DEF TypeOK, RoundsLeft
<1>4. \A u \in Threads : pc'[u] = "access" <=> pc[u] = "access" /\ u # r
  BY DEF TypeOK
<1>5. BusyReaders' = BusyReaders /\ BusyWriters' = BusyWriters
  BY DEF TypeOK, BusyReaders, BusyWriters, Threads
<1>6. Claimed(Readers)' = Claimed(Readers) \ {slot[r]}
  BY <1>4 DEF Claimed, Threads, NoDataRace
<1>7. FillPhase'
  BY <1>1 DEF FillPhase
<1>8. DrainPhase'
  <2>1. (readIndex .. BUFFER_SIZE - 1) \ {slot[r]} = readIndex .. BUFFER_SIZE - 1
    BY <1>1
  <2>2. unread' = (readIndex' .. BUFFER_SIZE - 1) \cup Claimed(Readers)'
    BY <1>1, <1>6, <2>1 DEF DrainPhase
  <2>. QED
    BY <1>1, <1>4, <1>5, <2>2 DEF DrainPhase, Threads
<1>9. NoDataRace'
  BY <1>4 DEF NoDataRace
<1>10. NoLostWakeup'
  BY DEF TypeOK, NoLostWakeup, ReaderMustWait, WriterMustWait, Threads
<1>. QED
  BY <1>2, <1>3, <1>7, <1>8, <1>9, <1>10

LEMMA ReaderLeaveInvariant ==
    ASSUME IInv, NEW r \in Readers, ReaderLeave(r)
    PROVE  IInv'
<1>. USE ConstantsAssumption DEF IInv, ReaderLeave
<1>. r \in Threads /\ r \notin Writers
  BY DEF Threads
<1>1. /\ toRead \in Nat /\ toRead > 0 /\ toRead' = toRead - 1
      /\ BusyWriters = {} /\ written = BUFFER_SIZE /\ writeIndex = BUFFER_SIZE
      /\ readIndex' = readIndex /\ readIndex \in 0 .. BUFFER_SIZE
      /\ toRead = BUFFER_SIZE - readIndex + Cardinality(BusyReaders)
  BY DEF TypeOK, FillPhase, DrainPhase, BusyReaders
<1>2. /\ pc' \in [Threads -> {"enter", "asleep", "access", "leave", "done"}]
      /\ pc'[r] \in {"enter", "done"}
      /\ pc'[r] # "done" => turn[r] + 1 < TURNS
      /\ \A u \in Threads \ {r} : \/ pc'[u] = pc[u]
                                  \/ pc[u] = "asleep" /\ pc'[u] = "enter"
  BY EndTurnFacts, BroadcastFacts DEF TypeOK
<1>3. TypeOK'
  <2>1. turn' \in [Threads -> 0 .. TURNS]
    BY DEF TypeOK, RoundsLeft
  <2>2. written' \in 0 .. BUFFER_SIZE /\ writeIndex' \in 0 .. BUFFER_SIZE
    BY DEF TypeOK
  <2>3. toRead' \in 0 .. BUFFER_SIZE
    BY <1>1 DEF TypeOK
  <2>. QED
    BY <1>2, <2>1, <2>2, <2>3 DEF TypeOK
<1>4. RoundsLeft'
  BY <1>2 DEF TypeOK, RoundsLeft
<1>5. \A u \in Threads : pc'[u] = "access" <=> pc[u] = "access"
  BY <1>2 DEF TypeOK
<1>6. BusyReaders' = BusyReaders \ {r} /\ r \in BusyReaders /\ BusyWriters' = {}
  BY <1>1, <1>2 DEF BusyReaders, BusyWriters, Threads
<1>7. /\ Cardinality(BusyReaders') = Cardinality(BusyReaders) - 1
      /\ Cardinality(BusyReaders') \in Nat
      /\ Cardinality(BusyReaders') = 0 => BusyReaders' = {}
  BY <1>6, BusyFinite, FS_RemoveElement, FS_CardinalityType, FS_EmptySet
<1>8. Claimed(Readers)' = Claimed(Readers)
  BY <1>5 DEF Claimed, Threads
<1>9. toRead' = BUFFER_SIZE - readIndex + Cardinality(BusyReaders')
  BY <1>1, <1>7, BusyFinite
<1>10. FillPhase'
  <2>. SUFFICES ASSUME toRead' = 0 PROVE FillPhase'
    BY DEF FillPhase
  <2>1. readIndex = BUFFER_SIZE /\ BusyReaders' = {}
    <3>1. BUFFER_SIZE \in Nat /\ readIndex \in Nat /\ readIndex <= BUFFER_SIZE
      BY <1>1
    <3>2. Cardinality(BusyReaders') = readIndex - BUFFER_SIZE
      BY <1>7, <1>9, <3>1
    <3>3. Cardinality(BusyReaders') = 0 /\ readIndex = BUFFER_SIZE
      <4>1. Cardinality(BusyReaders') \in Nat
        BY <1>7
      <4>. QED
        BY <3>1, <3>2, <4>1
    <3>. QED
      BY <1>7, <3>3
  <2>2. written' = 0 /\ writeIndex' = 0
    OBVIOUS
  <2>3. \A u \in Threads : pc'[u] # "access"
    BY <1>6, <2>1 DEF BusyReaders, BusyWriters, Threads
  <2>4. Claimed(Readers) = {}
    BY <1>8, <2>3 DEF Claimed, Threads
  <2>5. unread' = {}
    BY <1>1, <2>1, <2>4 DEF DrainPhase
  <2>. QED
    BY <1>6, <2>1, <2>2, <2>3, <2>5, FS_EmptySet DEF FillPhase, Threads
<1>11. DrainPhase'
  <2>. SUFFICES ASSUME toRead' > 0 PROVE DrainPhase'
    BY DEF DrainPhase
  <2>1. written' = BUFFER_SIZE /\ writeIndex' = BUFFER_SIZE
    BY <1>1
  <2>. QED
    BY <1>1, <1>5, <1>6, <1>8, <1>9, <2>1 DEF DrainPhase, Threads
<1>12. NoDataRace'
  BY <1>5 DEF NoDataRace
<1>13. NoLostWakeup'
  <2>1. CASE toRead' = 0
    <3>1. written' = 0 /\ pc' = Broadcast(Writers, EndTurn(r))
      BY <2>1
    <3>2. \A w \in Writers : pc'[w] # "asleep"
      <4>1. EndTurn(r) \in [Threads -> {"enter", "asleep", "access", "leave", "done"}]
        BY EndTurnFacts
      <4>. QED
        BY <3>1, <4>1, BroadcastFacts DEF Threads
    <3>3. written' < BUFFER_SIZE
      BY <3>1
    <3>. QED
      BY <3>2, <3>3 DEF NoLostWakeup, ReaderMustWait
  <2>2. CASE toRead' # 0
    <3>1. toRead' > 0
      BY <1>1, <2>2
    <3>2. \A u \in Threads : pc'[u] = "asleep" => pc[u] = "asleep"
      BY <1>2
    <3>3. written' = written
      BY <2>2
    <3>. QED
      BY <3>1, <3>2, <3>3 DEF NoLostWakeup, ReaderMustWait, WriterMustWait, Threads
  <2>. QED
    BY <2>1, <2>2
<1>. QED
  BY <1>3, <1>4, <1>10, <1>11, <1>12, <1>13

LEMMA WriterClaimInvariant ==
    ASSUME IInv, NEW w \in Writers, WriterClaim(w)
    PROVE  IInv'
<1>. USE ConstantsAssumption DEF IInv, WriterClaim
<1>. w \in Threads /\ w \notin Readers
  BY DEF Threads
<1>1. toRead = 0 /\ writeIndex \in 0 .. BUFFER_SIZE - 1
  BY DEF TypeOK, WriterMustWait
<1>2. TypeOK'
  BY <1>1 DEF TypeOK, Slots
<1>3. RoundsLeft'
  BY DEF TypeOK, RoundsLeft
<1>4. \A u \in Threads : pc'[u] = "access" <=> pc[u] = "access" \/ u = w
  BY DEF TypeOK
<1>5. \A u \in Threads : slot'[u] = IF u = w THEN writeIndex ELSE slot[u]
  BY DEF TypeOK
<1>6. BusyWriters' = BusyWriters \cup {w} /\ w \notin BusyWriters
  BY DEF TypeOK, BusyWriters, Threads
<1>7. BusyReaders' = BusyReaders
  BY DEF TypeOK, BusyReaders, Threads
<1>8. Claimed(Writers)' = Claimed(Writers) \cup {writeIndex}
  BY <1>1, <1>4, <1>5 DEF Claimed, Threads, Slots, TypeOK
<1>9. Cardinality(BusyWriters') = Cardinality(BusyWriters) + 1
  BY <1>6, BusyFinite, FS_AddElement
<1>10. FillPhase'
  <2>1. written' = writeIndex' - Cardinality(BusyWriters')
    BY <1>1, <1>9, BusyFinite DEF FillPhase, TypeOK
  <2>2. \A s \in Writers : pc'[s] = "access" => slot'[s] < writeIndex'
    BY <1>1, <1>4, <1>5 DEF FillPhase, TypeOK, Threads, Slots
  <2>3. (0 .. writeIndex' - 1) \ {writeIndex} = 0 .. writeIndex - 1
    BY <1>1
  <2>4. unread' = (0 .. writeIndex' - 1) \ Claimed(Writers)'
    BY <1>1, <1>8, <2>3 DEF FillPhase
  <2>. QED
    BY <1>1, <1>7, <2>1, <2>2, <2>4 DEF FillPhase
<1>11. DrainPhase'
  BY <1>1 DEF DrainPhase
<1>12. NoDataRace'
  <2>1. \A s \in Threads : pc[s] = "access" => s \in Writers /\ slot[s] < writeIndex
    BY <1>1 DEF FillPhase, BusyReaders, Threads
  <2>2. \A s \in Threads : slot[s] \in Nat
    BY DEF TypeOK, Slots
  <2>. QED
    BY <1>1, <1>4, <1>5, <2>1, <2>2 DEF NoDataRace
<1>13. NoLostWakeup'
  <2>1. \A u \in Threads : pc'[u] = "asleep" => pc[u] = "asleep"
    BY DEF TypeOK
  <2>2. writeIndex # BUFFER_SIZE
    BY <1>1
  <2>. QED
    BY <1>1, <2>1, <2>2 DEF NoLostWakeup, ReaderMustWait, WriterMustWait, Threads
<1>. QED
  BY <1>2, <1>3, <1>10, <1>11, <1>12, <1>13

LEMMA WriterStoreInvariant ==
    ASSUME IInv, NEW w \in Writers, WriterStore(w)
    PROVE  IInv'
<1>. USE ConstantsAssumption DEF IInv, WriterStore
<1>. w \in Threads /\ w \notin Readers
  BY DEF Threads
<1>1. toRead = 0 /\ slot[w] \in 0 .. writeIndex - 1 /\ writeIndex \in Nat
  BY DEF TypeOK, FillPhase, DrainPhase, BusyWriters, Slots
<1>2. TypeOK'
  BY DEF TypeOK
<1>3. RoundsLeft'
  BY DEF TypeOK, RoundsLeft
<1>4. \A u \in Threads : pc'[u] = "access" <=> pc[u] = "access" /\ u # w
  BY DEF TypeOK
<1>5. BusyReaders' = BusyReaders /\ BusyWriters' = BusyWriters
  BY DEF TypeOK, BusyReaders, BusyWriters, Threads
<1>6. Claimed(Writers)' = Claimed(Writers) \ {slot[w]}
  BY <1>4 DEF Claimed, Threads, NoDataRace
<1>7. FillPhase'
  <2>1. unread' = (0 .. writeIndex' - 1) \ Claimed(Writers)'
    BY <1>1, <1>6 DEF FillPhase
  <2>. QED
    BY <1>1, <1>4, <1>5, <2>1 DEF FillPhase, Threads
<1>8. DrainPhase'
  BY <1>1 DEF DrainPhase
<1>9. NoDataRace'
  BY <1>4 DEF NoDataRace
<1>10. NoLostWakeup'
  BY DEF TypeOK, NoLostWakeup, ReaderMustWait, WriterMustWait, Threads
<1>. QED
  BY <1>2, <1>3, <1>7, <1>8, <1>9, <1>10

LEMMA WriterLeaveInvariant ==
    ASSUME IInv, NEW w \in Writers, WriterLeave(w)
    PROVE  IInv'
<1>. USE ConstantsAssumption DEF IInv, WriterLeave
<1>. w \in Threads /\ w \notin Readers
  BY DEF Threads
<1>1. /\ toRead = 0 /\ BusyReaders = {}
      /\ written \in 0 .. BUFFER_SIZE - 1 /\ written' = written + 1
      /\ writeIndex' = writeIndex /\ writeIndex \in 0 .. BUFFER_SIZE
      /\ written = writeIndex - Cardinality(BusyWriters)
  BY DEF TypeOK, FillPhase, DrainPhase, BusyWriters
<1>2. /\ pc' \in [Threads -> {"enter", "asleep", "access", "leave", "done"}]
      /\ pc'[w] \in {"enter", "done"}
      /\ pc'[w] # "done" => turn[w] + 1 < TURNS
      /\ \A u \in Threads \ {w} : \/ pc'[u] = pc[u]
                                  \/ pc[u] = "asleep" /\ pc'[u] = "enter"
  BY EndTurnFacts, BroadcastFacts DEF TypeOK
<1>3. TypeOK'
  <2>1. turn' \in [Threads -> 0 .. TURNS]
    BY DEF TypeOK, RoundsLeft
  <2>2. toRead' \in 0 .. BUFFER_SIZE /\ readIndex' \in 0 .. BUFFER_SIZE
    BY DEF TypeOK
  <2>3. written' \in 0 .. BUFFER_SIZE
    BY <1>1
  <2>. QED
    BY <1>2, <2>1, <2>2, <2>3 DEF TypeOK
<1>4. RoundsLeft'
  BY <1>2 DEF TypeOK, RoundsLeft
<1>5. \A u \in Threads : pc'[u] = "access" <=> pc[u] = "access"
  BY <1>2 DEF TypeOK
<1>6. BusyWriters' = BusyWriters \ {w} /\ w \in BusyWriters /\ BusyReaders' = {}
  BY <1>1, <1>2 DEF BusyReaders, BusyWriters, Threads
<1>7. /\ Cardinality(BusyWriters') = Cardinality(BusyWriters) - 1
      /\ Cardinality(BusyWriters') \in Nat
      /\ Cardinality(BusyWriters') = 0 => BusyWriters' = {}
  BY <1>6, BusyFinite, FS_RemoveElement, FS_CardinalityType, FS_EmptySet
<1>8. Claimed(Writers)' = Claimed(Writers)
  BY <1>5 DEF Claimed, Threads
<1>9. written' = writeIndex - Cardinality(BusyWriters')
  BY <1>1, <1>7, BusyFinite
<1>10. NoDataRace'
  BY <1>5 DEF NoDataRace
<1>11. CASE written' = BUFFER_SIZE
  <2>1. /\ toRead' = BUFFER_SIZE
        /\ readIndex' = 0
        /\ pc' = Broadcast(Readers, EndTurn(w))
    BY <1>11
  <2>2. toRead' > 0
    BY <2>1
  <2>3. writeIndex = BUFFER_SIZE /\ BusyWriters' = {}
    <3>1. Cardinality(BusyWriters') \in Nat
      BY <1>7
    <3>2. Cardinality(BusyWriters') = 0 /\ writeIndex = BUFFER_SIZE
      BY <1>1, <1>9, <1>11, <3>1
    <3>. QED
      BY <1>7, <3>2
  <2>4. \A u \in Threads : pc'[u] # "access"
    BY <1>6, <2>3 DEF BusyReaders, BusyWriters, Threads
  <2>5. Claimed(Readers)' = {} /\ Claimed(Writers) = {}
    BY <1>8, <2>4 DEF Claimed, Threads
  <2>6. unread' = readIndex' .. BUFFER_SIZE - 1
    BY <1>1, <2>1, <2>3, <2>5 DEF FillPhase
  <2>7. toRead' = BUFFER_SIZE - readIndex' + Cardinality(BusyReaders')
    BY <1>6, <2>1, FS_EmptySet
  <2>8. DrainPhase'
    BY <1>1, <1>11, <2>3, <2>4, <2>5, <2>6, <2>7 DEF DrainPhase, Threads
  <2>9. FillPhase'
    BY <2>2 DEF FillPhase
  <2>10. NoLostWakeup'
    <3>1. EndTurn(w) \in [Threads -> {"enter", "asleep", "access", "leave", "done"}]
      BY EndTurnFacts
    <3>2. \A r \in Readers : pc'[r] # "asleep"
      BY <2>1, <3>1, BroadcastFacts DEF Threads
    <3>. QED
      BY <2>2, <3>2 DEF NoLostWakeup, WriterMustWait
  <2>. QED
    BY <1>3, <1>4, <1>10, <2>8, <2>9, <2>10
<1>12. CASE written' # BUFFER_SIZE
  <2>1. toRead' = 0 /\ readIndex' = readIndex
    BY <1>1, <1>12
  <2>2. written' < BUFFER_SIZE
    BY <1>1, <1>12
  <2>3. FillPhase'
    BY <1>1, <1>5, <1>6, <1>8, <1>9, <2>1, <2>2 DEF FillPhase, Threads
  <2>4. DrainPhase'
    BY <2>1 DEF DrainPhase
  <2>5. NoLostWakeup'
    <3>1. \A u \in Threads : pc'[u] = "asleep" => pc[u] = "asleep"
      BY <1>2
    <3>. QED
      BY <1>1, <2>1, <2>2, <3>1 DEF NoLostWakeup, ReaderMustWait, WriterMustWait, Threads
  <2>. QED
    BY <1>3, <1>4, <1>10, <2>3, <2>4, <2>5
<1>. QED
  BY <1>11, <1>12

LEMMA NextInvariant == IInv /\ [Next]_vars => IInv'
<1>. SUFFICES ASSUME IInv, [Next]_vars PROVE IInv'
  OBVIOUS
<1>1. CASE UNCHANGED vars
  BY <1>1 DEF vars, IInv, TypeOK, RoundsLeft, FillPhase, DrainPhase, NoDataRace,
              NoLostWakeup, BusyReaders, BusyWriters, Claimed, ReaderMustWait, WriterMustWait
<1>2. ASSUME NEW r \in Readers, Reader(r)
      PROVE  IInv'
  <2>1. CASE ReaderSleep(r)
    BY <2>1, WaitingInvariant DEF ReaderSleep, Sleep, Threads
  <2>. QED
    BY <1>2, <2>1, ReaderClaimInvariant, ReaderLoadInvariant, ReaderLeaveInvariant DEF Reader
<1>3. ASSUME NEW w \in Writers, Writer(w)
      PROVE  IInv'
  <2>1. CASE WriterSleep(w)
    BY <2>1, WaitingInvariant DEF WriterSleep, Sleep, Threads
  <2>. QED
    BY <1>3, <2>1, WriterClaimInvariant, WriterStoreInvariant, WriterLeaveInvariant DEF Writer
<1>4. ASSUME NEW t \in Threads, SpuriousWakeup(t)
      PROVE  IInv'
  BY <1>4, WaitingInvariant DEF SpuriousWakeup
<1>. QED
  BY <1>1, <1>2, <1>3, <1>4 DEF Next, Terminating

------------------------------------------------------------------------------
(* The theorems.                                                           *)

\* The inductive invariant holds throughout every behaviour of ex6.
THEOREM Invariance == Spec => []IInv
BY InitInvariant, NextInvariant, PTL DEF Spec

\* The counters of ex6 stay within the buffer and its threads within their
\* rounds.
THEOREM TypeCorrect == Spec => []TypeOK
BY Invariance, PTL DEF IInv

\* No two threads of ex6 access the same slot of buffer[] at the same time,
\* although the access is made without the mutex.
THEOREM SlotsExclusive == Spec => []NoDataRace
BY Invariance, PTL DEF IInv

\* A reader or writer of ex6 that sleeps still has to wait: the broadcasts at
\* the end of a batch leave nobody behind.
THEOREM WakeupsComplete == Spec => []NoLostWakeup
BY Invariance, PTL DEF IInv

------------------------------------------------------------------------------
(* Freedom from deadlock: no batch is left with too few threads to end it. *)

\* The rounds of the threads of S, and those of them that are completed.
Rounds(S) == S \X (1 .. TURNS)
Completed(S) == {p \in Rounds(S) : p[2] <= turn[p[1]]}

\* A thread returns only when it has done all its rounds.
Returned == \A t \in Threads : pc[t] = "done" => turn[t] = TURNS

\* The rounds completed make up the batches so far: writers have completed those
\* of all batches sealed and the slots written since, readers those of all
\* batches sealed but the slots still to be read.
InBatches ==
    \E batches \in Nat :
        /\ Cardinality(Completed(Writers)) =
               batches * BUFFER_SIZE + IF toRead = 0 THEN written ELSE 0
        /\ Cardinality(Completed(Readers)) = batches * BUFFER_SIZE - toRead

Balance == Returned /\ InBatches

\* Any threads have finitely many rounds.
LEMMA RoundsFinite ==
    ASSUME NEW S, IsFiniteSet(S)
    PROVE  /\ IsFiniteSet(Rounds(S))
           /\ Cardinality(Rounds(S)) = Cardinality(S) * TURNS
           /\ IsFiniteSet(Completed(S))
           /\ Cardinality(Completed(S)) \in Nat
           /\ Cardinality(Completed(S)) <= Cardinality(Rounds(S))
           /\ Cardinality(Completed(S)) = Cardinality(Rounds(S)) => Completed(S) = Rounds(S)
<1>1. IsFiniteSet(1 .. TURNS) /\ Cardinality(1 .. TURNS) = TURNS
  <2>1. TURNS \in Nat /\ TURNS > 0
    BY ConstantsAssumption
  <2>. QED
    BY <2>1, FS_Interval
<1>2. IsFiniteSet(Rounds(S)) /\ Cardinality(Rounds(S)) = Cardinality(S) * TURNS
  BY <1>1, FS_Product DEF Rounds
<1>3. Completed(S) \in SUBSET Rounds(S)
  BY DEF Completed
<1>. QED
  BY <1>2, <1>3, FS_Subset, FS_CardinalityType

\* A round that t completes is counted once on the side of t.
LEMMA RoundCompleted ==
    ASSUME TypeOK, NEW S \in SUBSET Threads, IsFiniteSet(S),
           NEW t \in Threads, turn[t] < TURNS,
           turn' = [turn EXCEPT ![t] = @ + 1]
    PROVE  Cardinality(Completed(S)') =
               IF t \in S THEN Cardinality(Completed(S)) + 1 ELSE Cardinality(Completed(S))
<1>. DEFINE round == <<t, turn[t] + 1>>
<1>1. TURNS \in Nat /\ \A u \in Threads : turn[u] \in Nat
  BY ConstantsAssumption DEF TypeOK
<1>2. CASE t \in S
  <2>1. round \in Rounds(S) /\ round \notin Completed(S)
    BY <1>1, <1>2 DEF Rounds, Completed
  <2>2. \A p \in Rounds(S) : p[2] <= turn'[p[1]] <=> p[2] <= turn[p[1]] \/ p = round
    <3>. SUFFICES ASSUME NEW u \in S, NEW i \in 1 .. TURNS
                  PROVE  i <= turn'[u] <=> i <= turn[u] \/ <<u, i>> = round
      BY DEF Rounds
    <3>1. turn'[u] = IF u = t THEN turn[t] + 1 ELSE turn[u]
      BY DEF TypeOK
    <3>. QED
      BY <1>1, <3>1
  <2>3. Completed(S)' = Completed(S) \cup {round}
    BY <2>1, <2>2 DEF Completed, Rounds
  <2>. QED
    BY <1>2, <2>1, <2>3, RoundsFinite, FS_AddElement
<1>3. CASE t \notin S
  <2>1. \A p \in Rounds(S) : turn'[p[1]] = turn[p[1]]
    BY <1>3 DEF Rounds, TypeOK
  <2>2. Completed(S)' = Completed(S)
    BY <2>1 DEF Completed, Rounds
  <2>. QED
    BY <1>3, <2>2
<1>. QED
  BY <1>2, <1>3

\* A step that completes no round and changes no batch.
LEMMA SameBalance ==
    ASSUME Balance, UNCHANGED <<written, toRead, turn>>,
           \A t \in Threads : pc'[t] = "done" => pc[t] = "done"
    PROVE  Balance'
<1>1. Completed(Readers)' = Completed(Readers) /\ Completed(Writers)' = Completed(Writers)
  BY DEF Completed, Rounds
<1>2. Returned'
  BY DEF Balance, Returned
<1>3. InBatches'
  BY <1>1 DEF Balance, InBatches
<1>. QED
  BY <1>2, <1>3 DEF Balance

\* A thread that ends its round returns if that was its last one.
LEMMA ReturnedAfterRound ==
    ASSUME TypeOK, RoundsLeft, Returned, NEW t \in Threads, NEW S,
           turn[t] < TURNS, turn' = [turn EXCEPT ![t] = @ + 1],
           pc' = EndTurn(t) \/ pc' = Broadcast(S, EndTurn(t))
    PROVE  Returned'
<1>1. /\ EndTurn(t) \in [Threads -> {"enter", "asleep", "access", "leave", "done"}]
      /\ \A u \in Threads \ {t} : EndTurn(t)[u] = pc[u]
  BY EndTurnFacts
<1>2. \A u \in Threads : pc'[u] = "done" => EndTurn(t)[u] = "done"
  BY <1>1, BroadcastFacts
<1>3. EndTurn(t)[t] = "done" => turn[t] + 1 = TURNS
  BY ConstantsAssumption DEF TypeOK, EndTurn
<1>. QED
  BY <1>1, <1>2, <1>3 DEF Returned, TypeOK

\* A reader completes a round, and with the last one of its batch the batch.
LEMMA ReaderLeaveBalance ==
    ASSUME IInv, Balance, NEW r \in Readers, ReaderLeave(r)
    PROVE  Balance'
<1>. USE ConstantsAssumption DEF IInv
<1>. r \in Threads /\ r \notin Writers
  BY DEF Threads
<1>1. /\ turn[r] < TURNS /\ turn' = [turn EXCEPT ![r] = @ + 1]
      /\ toRead \in Nat /\ toRead > 0 /\ toRead' = toRead - 1
      /\ toRead' = 0 => written' = 0
  BY DEF ReaderLeave, RoundsLeft, TypeOK, FillPhase, BusyReaders
<1>2. Returned'
  BY <1>1, ReturnedAfterRound DEF ReaderLeave, Balance
<1>3. Cardinality(Completed(Readers)') = Cardinality(Completed(Readers)) + 1
  BY <1>1, RoundCompleted DEF Threads
<1>4. Cardinality(Completed(Writers)') = Cardinality(Completed(Writers))
  BY <1>1, RoundCompleted DEF Threads
<1>5. PICK batches \in Nat :
          /\ Cardinality(Completed(Writers)) = batches * BUFFER_SIZE
          /\ Cardinality(Completed(Readers)) = batches * BUFFER_SIZE - toRead
  BY <1>1 DEF Balance, InBatches
<1>6. InBatches'
  <2>1. Cardinality(Completed(Writers)') =
            batches * BUFFER_SIZE + IF toRead' = 0 THEN written' ELSE 0
    BY <1>1, <1>4, <1>5
  <2>2. Cardinality(Completed(Readers)') = batches * BUFFER_SIZE - toRead'
    BY <1>1, <1>3, <1>5
  <2>. QED
    BY <2>1, <2>2 DEF InBatches
<1>. QED
  BY <1>2, <1>6 DEF Balance

\* A writer completes a round, and with the last one of its batch seals it.
LEMMA WriterLeaveBalance ==
    ASSUME IInv, Balance, NEW w \in Writers, WriterLeave(w)
    PROVE  Balance'
<1>. USE ConstantsAssumption DEF IInv
<1>. w \in Threads /\ w \notin Readers
  BY DEF Threads
<1>1. /\ turn[w] < TURNS /\ turn' = [turn EXCEPT ![w] = @ + 1]
      /\ toRead = 0 /\ written \in Nat /\ written' = written + 1
      /\ toRead' = IF written' = BUFFER_SIZE THEN BUFFER_SIZE ELSE 0
  BY DEF WriterLeave, RoundsLeft, TypeOK, DrainPhase, BusyWriters
<1>2. Returned'
  BY <1>1, ReturnedAfterRound DEF WriterLeave, Balance
<1>3. Cardinality(Completed(Writers)') = Cardinality(Completed(Writers)) + 1
  BY <1>1, RoundCompleted DEF Threads
<1>4. Cardinality(Completed(Readers)') = Cardinality(Completed(Readers))
  BY <1>1, RoundCompleted DEF Threads
<1>5. PICK batches \in Nat :
          /\ Cardinality(Completed(Writers)) = batches * BUFFER_SIZE + written
          /\ Cardinality(Completed(Readers)) = batches * BUFFER_SIZE
  BY <1>1 DEF Balance, InBatches
<1>6. CASE written' = BUFFER_SIZE
  <2>1. Cardinality(Completed(Writers)') = (batches + 1) * BUFFER_SIZE
    BY <1>1, <1>3, <1>5, <1>6
  <2>2. Cardinality(Completed(Readers)') = (batches + 1) * BUFFER_SIZE - toRead'
    BY <1>1, <1>4, <1>5, <1>6
  <2>3. InBatches'
    BY <1>1, <1>6, <2>1, <2>2 DEF InBatches
  <2>. QED
    BY <1>2, <2>3 DEF Balance
<1>7. CASE written' # BUFFER_SIZE
  <2>1. InBatches'
    BY <1>1, <1>3, <1>4, <1>5, <1>7 DEF InBatches
  <2>. QED
    BY <1>2, <2>1 DEF Balance
<1>. QED
  BY <1>6, <1>7

\* Rounds are completed batch by batch in every behaviour of ex6.
LEMMA BalanceInvariance == Spec => []Balance
<1>1. Init => Balance
  <2>. SUFFICES ASSUME Init PROVE Balance
    OBVIOUS
  <2>. USE ConstantsAssumption DEF Init
  <2>1. \A S \in SUBSET Threads : Completed(S) = {}
    BY DEF Completed, Rounds
  <2>2. Cardinality(Completed(Writers)) = 0 /\ Cardinality(Completed(Readers)) = 0
    BY <2>1, FS_EmptySet DEF Threads
  <2>3. 0 = 0 * BUFFER_SIZE
    OBVIOUS
  <2>4. InBatches
    BY <2>2, <2>3 DEF InBatches
  <2>. QED
    BY <2>4 DEF Balance, Returned
<1>2. ASSUME IInv, Balance, [Next]_vars PROVE Balance'
  <2>. USE <1>2
  <2>1. CASE UNCHANGED vars
    BY <2>1, SameBalance DEF vars
  <2>2. ASSUME NEW t \in Threads, SpuriousWakeup(t) \/ Sleep(t)
        PROVE  Balance'
    BY <2>2, SameBalance DEF SpuriousWakeup, Sleep, IInv, TypeOK
  <2>3. ASSUME NEW r \in Readers, Reader(r) PROVE Balance'
    <3>1. CASE ReaderClaim(r) \/ ReaderLoad(r)
      BY <3>1, SameBalance DEF ReaderClaim, ReaderLoad, IInv, TypeOK
    <3>. QED
      BY <2>2, <2>3, <3>1, ReaderLeaveBalance DEF Reader, ReaderSleep, Threads
  <2>4. ASSUME NEW w \in Writers, Writer(w) PROVE Balance'
    <3>1. CASE WriterClaim(w) \/ WriterStore(w)
      BY <3>1, SameBalance DEF WriterClaim, WriterStore, IInv, TypeOK
    <3>. QED
      BY <2>2, <2>4, <3>1, WriterLeaveBalance DEF Writer, WriterSleep, Threads
  <2>. QED
    BY <2>1, <2>2, <2>3, <2>4 DEF Next, Terminating
<1>. QED
  BY <1>1, <1>2, Invariance, PTL DEF Spec

\* A side that is done has completed all its rounds; a side with a thread that
\* is not done has completed fewer.
LEMMA SideComplete ==
    ASSUME TypeOK, RoundsLeft, Returned, NEW S \in SUBSET Threads, IsFiniteSet(S)
    PROVE  /\ (\A t \in S : pc[t] = "done") =>
                  Cardinality(Completed(S)) = Cardinality(S) * TURNS
           /\ (\E t \in S : pc[t] # "done") =>
                  Cardinality(Completed(S)) < Cardinality(S) * TURNS
<1>1. TURNS \in Nat /\ TURNS > 0
  BY ConstantsAssumption
<1>2. ASSUME \A t \in S : pc[t] = "done"
      PROVE  Cardinality(Completed(S)) = Cardinality(S) * TURNS
  <2>1. \A t \in S : turn[t] = TURNS
    BY <1>2 DEF Returned
  <2>2. Completed(S) = Rounds(S)
    BY <1>1, <2>1 DEF Completed, Rounds
  <2>. QED
    BY <2>2, RoundsFinite
<1>3. ASSUME NEW t \in S, pc[t] # "done"
      PROVE  Cardinality(Completed(S)) < Cardinality(S) * TURNS
  <2>1. turn[t] \in Nat /\ turn[t] < TURNS
    BY <1>1, <1>3 DEF TypeOK, RoundsLeft
  <2>2. <<t, TURNS>> \in Rounds(S) /\ <<t, TURNS>> \notin Completed(S)
    BY <1>1, <2>1 DEF Completed, Rounds
  <2>3. Cardinality(Completed(S)) # Cardinality(Rounds(S))
    BY <2>2, RoundsFinite
  <2>4. Cardinality(Rounds(S)) \in Nat
    BY RoundsFinite, FS_CardinalityType
  <2>5. /\ Cardinality(Completed(S)) \in Nat
        /\ Cardinality(Completed(S)) <= Cardinality(Rounds(S))
        /\ Cardinality(Rounds(S)) = Cardinality(S) * TURNS
    BY RoundsFinite
  <2>6. Cardinality(Completed(S)) < Cardinality(Rounds(S))
    BY <2>3, <2>4, <2>5
  <2>. QED
    BY <2>5, <2>6
<1>. QED
  BY <1>2, <1>3

\* What remains of a number of whole batches is nothing.
LEMMA WholeBatches ==
    ASSUME NEW batches \in Nat, NEW rest \in 0 .. BUFFER_SIZE - 1,
           (batches * BUFFER_SIZE + rest) % BUFFER_SIZE = 0
    PROVE  rest = 0
<1>1. BUFFER_SIZE \in Nat /\ BUFFER_SIZE > 0
  BY ConstantsAssumption
<1>. DEFINE all == batches * BUFFER_SIZE + rest
            others == all \div BUFFER_SIZE
<1>2. all \in Nat /\ others \in Int
  BY <1>1
<1>3. all = others * BUFFER_SIZE
  BY <1>1, <1>2
<1>4. others * BUFFER_SIZE = batches * BUFFER_SIZE + rest
  BY <1>3
<1>. HIDE DEF all, others
<1>5. CASE others <= batches
  <2>1. others * BUFFER_SIZE <= batches * BUFFER_SIZE
    BY <1>1, <1>2, <1>5
  <2>. QED
    BY <1>1, <1>2, <1>4, <2>1
<1>6. CASE others >= batches + 1
  <2>1. others * BUFFER_SIZE >= (batches + 1) * BUFFER_SIZE
    BY <1>1, <1>2, <1>6
  <2>2. (batches + 1) * BUFFER_SIZE = batches * BUFFER_SIZE + BUFFER_SIZE
    BY <1>1
  <2>. QED
    BY <1>1, <1>2, <1>4, <2>1, <2>2
<1>. QED
  BY <1>2, <1>5, <1>6

\* When all writers have returned, a whole number of batches has been written.
LEMMA LastBatchSealed ==
    ASSUME IInv, Balance, \A w \in Writers : pc[w] = "done", toRead = 0
    PROVE  /\ written = 0
           /\ Cardinality(Completed(Readers)) = Cardinality(Readers) * TURNS
<1>. USE ConstantsAssumption DEF IInv, Balance
<1>1. PICK batches \in Nat :
          /\ Cardinality(Completed(Writers)) = batches * BUFFER_SIZE + written
          /\ Cardinality(Completed(Readers)) = batches * BUFFER_SIZE
  BY DEF InBatches
<1>2. Cardinality(Completed(Writers)) = Cardinality(Writers) * TURNS
  BY SideComplete DEF Threads
<1>3. written \in 0 .. BUFFER_SIZE - 1
  BY DEF TypeOK, FillPhase
<1>4. (batches * BUFFER_SIZE + written) % BUFFER_SIZE = 0
  BY <1>1, <1>2, BalanceAssumption
<1>5. written = 0
  BY <1>3, <1>4, WholeBatches
<1>. QED
  BY <1>1, <1>2, <1>5, BalanceAssumption

\* If all threads were asleep or had returned, nobody would be busy, and one
\* side would have nothing to wait for: it would have returned.  Of a batch
\* being written, that side is the writers, and there is no such batch, since
\* the rounds of all writers fill whole batches.  Of a batch being read, it is
\* the readers, which would have done fewer rounds than the writers.
LEMMA AwakeByBalance ==
    IInv /\ Balance /\ ~AllDone => \E t \in Threads : pc[t] \notin {"asleep", "done"}
<1>. SUFFICES ASSUME IInv, Balance, NEW s \in Threads, pc[s] # "done",
                     \A t \in Threads : pc[t] \in {"asleep", "done"}
              PROVE  FALSE
  BY DEF AllDone
<1>. USE ConstantsAssumption DEF IInv, Balance
<1>1. BusyReaders = {} /\ BusyWriters = {}
  BY DEF BusyReaders, BusyWriters, Threads
<1>2. CASE toRead = 0
  <2>1. \A w \in Writers : pc[w] = "done"
    <3>1. ~WriterMustWait
      BY <1>1, <1>2, FS_EmptySet DEF WriterMustWait, FillPhase, TypeOK
    <3>. QED
      BY <3>1 DEF NoLostWakeup, Threads
  <2>2. s \in Readers
    BY <2>1 DEF Threads
  <2>3. Cardinality(Completed(Readers)) < Cardinality(Readers) * TURNS
    BY <2>2, SideComplete DEF Threads
  <2>4. Cardinality(Completed(Readers)) = Cardinality(Readers) * TURNS
    BY <1>2, <2>1, LastBatchSealed
  <2>5. Cardinality(Completed(Readers)) \in Nat
    BY RoundsFinite
  <2>. QED
    BY <2>3, <2>4, <2>5
<1>3. CASE toRead > 0
  <2>1. \A r \in Readers : pc[r] = "done"
    <3>1. ~ReaderMustWait
      BY <1>1, <1>3, FS_EmptySet DEF ReaderMustWait, DrainPhase, TypeOK
    <3>. QED
      BY <3>1 DEF NoLostWakeup, Threads
  <2>2. Cardinality(Completed(Readers)) = Cardinality(Readers) * TURNS
    BY <2>1, SideComplete DEF Threads
  <2>3. Cardinality(Completed(Writers)) < Cardinality(Writers) * TURNS
    BY <2>1, SideComplete DEF Threads
  <2>4. PICK batches \in Nat :
            /\ Cardinality(Completed(Writers)) = batches * BUFFER_SIZE
            /\ Cardinality(Completed(Readers)) = batches * BUFFER_SIZE - toRead
    BY <1>3 DEF InBatches, TypeOK
  <2>5. Cardinality(Completed(Readers)) \in Nat /\ Cardinality(Completed(Writers)) \in Nat
    BY RoundsFinite
  <2>. QED
    BY <1>3, <2>2, <2>3, <2>4, <2>5, BalanceAssumption DEF TypeOK
<1>. QED
  BY <1>2, <1>3 DEF TypeOK

\* When all have returned, the last batch has been read to its end.
LEMMA CleanWhenDone == IInv /\ Balance /\ AllDone => Clean
<1>. SUFFICES ASSUME IInv, Balance, AllDone PROVE Clean
  OBVIOUS
<1>. USE ConstantsAssumption DEF IInv, Balance, AllDone
<1>1. toRead = 0
  <2>1. Cardinality(Completed(Readers)) = Cardinality(Readers) * TURNS
    BY SideComplete DEF Threads
  <2>2. Cardinality(Completed(Writers)) = Cardinality(Writers) * TURNS
    BY SideComplete DEF Threads
  <2>3. Cardinality(Completed(Readers)) = Cardinality(Completed(Writers))
    BY <2>1, <2>2, BalanceAssumption
  <2>4. PICK batches \in Nat :
            /\ Cardinality(Completed(Writers)) =
                   batches * BUFFER_SIZE + IF toRead = 0 THEN written ELSE 0
            /\ Cardinality(Completed(Readers)) = batches * BUFFER_SIZE - toRead
    BY DEF InBatches
  <2>. QED
    BY <2>3, <2>4 DEF TypeOK
<1>2. written = 0
  BY <1>1, LastBatchSealed DEF Threads
<1>3. BusyWriters = {} /\ Claimed(Writers) = {}
  BY DEF BusyWriters, Claimed, Threads
<1>4. writeIndex = 0
  BY <1>1, <1>2, <1>3, FS_EmptySet DEF FillPhase, TypeOK
<1>5. unread = {}
  BY <1>1, <1>3, <1>4 DEF FillPhase
<1>. QED
  BY <1>1, <1>2, <1>5 DEF Clean

\* The threads of ex6 are never all asleep: with as many reads as writes, and a whole
\* number of batches of them, some thread with rounds left is awake, and when
\* all have returned every value stored has been read.
THEOREM NeverAllAsleep == Spec => []NoDeadlock
<1>1. IInv /\ Balance => NoDeadlock
  BY CleanWhenDone, AwakeByBalance DEF NoDeadlock
<1>. QED
  BY <1>1, Invariance, BalanceInvariance, PTL

------------------------------------------------------------------------------
(* The abstract batch buffer.                                              *)

\* Every step of ex6 is a step of the batch buffer or leaves it alone: the
\* slots are filled, sealed, emptied and reopened in that order.
LEMMA BatchStep ==
    IInv /\ IInv' /\ [Next]_vars => [Batches!Next]_<<unread, IF toRead > 0 THEN "drain" ELSE "fill">>
<1>. DEFINE mode == IF toRead > 0 THEN "drain" ELSE "fill"
<1>. SUFFICES ASSUME IInv, IInv', [Next]_vars
              PROVE  Batches!Next \/ UNCHANGED <<unread, mode>>
  OBVIOUS
<1>. USE ConstantsAssumption DEF IInv
<1>1. CASE UNCHANGED vars
  BY <1>1 DEF vars
<1>2. ASSUME NEW t \in Threads, SpuriousWakeup(t) \/ Sleep(t)
      PROVE  UNCHANGED <<unread, mode>>
  BY <1>2 DEF SpuriousWakeup, Sleep
<1>3. ASSUME NEW r \in Readers, ReaderClaim(r)
      PROVE  UNCHANGED <<unread, mode>>
  BY <1>3 DEF ReaderClaim
<1>4. ASSUME NEW w \in Writers, WriterClaim(w)
      PROVE  UNCHANGED <<unread, mode>>
  BY <1>4 DEF WriterClaim
<1>5. ASSUME NEW r \in Readers, ReaderLoad(r)
      PROVE  Batches!Take(slot[r])
  <2>1. toRead > 0 /\ slot[r] \in Slots
    BY <1>5 DEF ReaderLoad, TypeOK, FillPhase, BusyReaders, Threads
  <2>2. slot[r] \in unread
    BY <1>5, <2>1 DEF ReaderLoad, DrainPhase, Claimed
  <2>. QED
    BY <1>5, <2>1, <2>2 DEF ReaderLoad, Batches!Take
<1>6. ASSUME NEW w \in Writers, WriterStore(w)
      PROVE  Batches!Put(slot[w])
  <2>1. toRead = 0 /\ slot[w] \in Slots
    BY <1>6 DEF WriterStore, TypeOK, DrainPhase, BusyWriters, Threads
  <2>2. slot[w] \notin unread
    BY <1>6, <2>1 DEF WriterStore, FillPhase, Claimed
  <2>. QED
    BY <1>6, <2>1, <2>2 DEF WriterStore, Batches!Put
<1>7. ASSUME NEW r \in Readers, ReaderLeave(r)
      PROVE  Batches!Reopen \/ UNCHANGED <<unread, mode>>
  <2>1. toRead > 0
    BY <1>7 DEF ReaderLeave, TypeOK, FillPhase, BusyReaders
  <2>2. CASE toRead' = 0
    <3>1. writeIndex' = 0 /\ unread' = unread
      BY <1>7, <2>2 DEF ReaderLeave
    <3>2. unread' = (0 .. writeIndex' - 1) \ Claimed(Writers)'
      BY <2>2 DEF FillPhase
    <3>3. unread' = {}
      BY <3>1, <3>2
    <3>. QED
      BY <2>1, <2>2, <3>1, <3>3 DEF Batches!Reopen
  <2>3. CASE toRead' # 0
    <3>1. toRead' > 0
      BY <2>3 DEF TypeOK
    <3>. QED
      BY <1>7, <2>1, <3>1 DEF ReaderLeave
  <2>. QED
    BY <2>2, <2>3
<1>8. ASSUME NEW w \in Writers, WriterLeave(w)
      PROVE  Batches!Seal \/ UNCHANGED <<unread, mode>>
  <2>1. toRead = 0
    BY <1>8 DEF WriterLeave, TypeOK, DrainPhase, BusyWriters
  <2>2. CASE written' = BUFFER_SIZE
    <3>1. toRead' = BUFFER_SIZE /\ readIndex' = 0 /\ unread' = unread
      BY <1>8, <2>2 DEF WriterLeave
    <3>2. toRead' > 0
      BY <3>1
    <3>3. unread' = (readIndex' .. BUFFER_SIZE - 1) \cup Claimed(Readers)'
      BY <3>2 DEF DrainPhase
    <3>4. unread = Slots
      BY <3>1, <3>3 DEF TypeOK, Slots
    <3>. QED
      BY <2>1, <3>1, <3>2, <3>4 DEF Batches!Seal
  <2>3. CASE written' # BUFFER_SIZE
    BY <1>8, <2>3 DEF WriterLeave
  <2>. QED
    BY <2>2, <2>3
<1>. QED
  <2>1. \A r \in Readers : Reader(r) => Batches!Next \/ UNCHANGED <<unread, mode>>
    BY <1>2, <1>3, <1>5, <1>7 DEF Reader, ReaderSleep, ReaderLoad, Batches!Next, TypeOK, Threads
  <2>2. \A w \in Writers : Writer(w) => Batches!Next \/ UNCHANGED <<unread, mode>>
    BY <1>2, <1>4, <1>6, <1>8 DEF Writer, WriterSleep, Batches!Next, TypeOK, Threads
  <2>. QED
    BY <1>1, <1>2, <2>1, <2>2 DEF Next, Terminating

\* ex6 implements the batch buffer.
THEOREM BatchRefinement == Spec => ImplementsBatches
<1>1. Init => Batches!Init
  BY DEF Init, Batches!Init
<1>. QED
  BY <1>1, Invariance, BatchStep, PTL DEF Spec, ImplementsBatches, Batches!Spec
==============================================================================
