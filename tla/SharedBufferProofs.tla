------------------------- MODULE SharedBufferProofs -------------------------
(***************************************************************************)
(* Proofs about lab01/ex2.c (module SharedBuffer), for any number of       *)
(* threads, rounds and slots.                                              *)
(*                                                                         *)
(* In ex2 written is not bounded by the buffer, so that no interval holds  *)
(* it.  What it does keep to is the balance of the rounds completed: the   *)
(* rounds of the writers minus those of the readers.  If all threads were  *)
(* asleep or done, the sleepers would all be of one side, the other side   *)
(* would have completed all its rounds, and since both sides have as many  *)
(* rounds to do, the balance would let the sleepers go on.                 *)
(***************************************************************************)
EXTENDS SharedBuffer, FiniteSetTheorems, TLAPS

\* The rounds of the threads of S, and those of them that are completed.
Rounds(S) == S \X (1 .. TURNS)
Completed(S) == {p \in Rounds(S) : p[2] <= turn[p[1]]}

Balance == written = Cardinality(Completed(Writers)) - Cardinality(Completed(Readers))

\* Once a value is counted, or a reader is past its test, the slot completed
\* last is one that has been stored into.
LastStored ==
    /\ written # 0 => readIndex \in stored
    /\ \A r \in Readers : pc[r] \in {"access", "leave"} => readIndex \in stored
    /\ \A w \in Writers : pc[w] = "leave" => slot[w] \in stored

IInv == TypeOK /\ Balance /\ LastStored /\ LoadsStoredSlot /\ SleepersJustified

------------------------------------------------------------------------------
(* Counting the completed rounds.                                          *)

LEMMA RoundsFinite ==
    ASSUME NEW S, IsFiniteSet(S)
    PROVE  /\ IsFiniteSet(Rounds(S))
           /\ Cardinality(Rounds(S)) = Cardinality(S) * TURNS
           /\ IsFiniteSet(Completed(S))
           /\ Cardinality(Completed(S)) \in Nat
           /\ Cardinality(Completed(S)) <= Cardinality(Rounds(S))
           /\ Cardinality(Completed(S)) = Cardinality(Rounds(S)) => Completed(S) = Rounds(S)
<1>1. IsFiniteSet(1 .. TURNS) /\ Cardinality(1 .. TURNS) = TURNS
  <2>1. TURNS \in Nat /\ TURNS > 0
    BY ConstantsAssumption
  <2>. QED
    BY <2>1, FS_Interval
<1>2. IsFiniteSet(Rounds(S)) /\ Cardinality(Rounds(S)) = Cardinality(S) * TURNS
  BY <1>1, FS_Product DEF Rounds
<1>3. Completed(S) \in SUBSET Rounds(S)
  BY DEF Completed
<1>. QED
  BY <1>2, <1>3, FS_Subset, FS_CardinalityType

\* A round that t completes is counted once on the side of t.
LEMMA RoundCompleted ==
    ASSUME TypeOK, NEW S \in SUBSET Threads, IsFiniteSet(S),
           NEW t \in Threads, turn[t] < TURNS,
           turn' = [turn EXCEPT ![t] = @ + 1]
    PROVE  Cardinality(Completed(S)') =
               IF t \in S THEN Cardinality(Completed(S)) + 1 ELSE Cardinality(Completed(S))
<1>. DEFINE round == <<t, turn[t] + 1>>
<1>1. TURNS \in Nat /\ \A u \in Threads : turn[u] \in Nat
  BY ConstantsAssumption DEF TypeOK
<1>2. CASE t \in S
  <2>1. round \in Rounds(S) /\ round \notin Completed(S)
    BY <1>1, <1>2 DEF Rounds, Completed
  <2>2. \A p \in Rounds(S) : p[2] <= turn'[p[1]] <=> p[2] <= turn[p[1]] \/ p = round
    <3>. SUFFICES ASSUME NEW u \in S, NEW i \in 1 .. TURNS
                  PROVE  i <= turn'[u] <=> i <= turn[u] \/ <<u, i>> = round
      BY DEF Rounds
    <3>1. turn'[u] = IF u = t THEN turn[t] + 1 ELSE turn[u]
      BY DEF TypeOK
    <3>. QED
      BY <1>1, <3>1
  <2>3. Completed(S)' = Completed(S) \cup {round}
    BY <2>1, <2>2 DEF Completed, Rounds
  <2>. QED
    BY <1>2, <2>1, <2>3, RoundsFinite, FS_AddElement
<1>3. CASE t \notin S
  <2>1. \A p \in Rounds(S) : turn'[p[1]] = turn[p[1]]
    BY <1>3 DEF Rounds, TypeOK
  <2>2. Completed(S)' = Completed(S)
    BY <2>1 DEF Completed, Rounds
  <2>. QED
    BY <1>3, <2>2
<1>. QED
  BY <1>2, <1>3

------------------------------------------------------------------------------
(* The invariant is inductive.                                             *)

LEMMA EndTurnFacts ==
    ASSUME TypeOK, NEW t \in Threads
    PROVE  /\ EndTurn(t) \in [Threads -> {"enter", "asleep", "access", "leave", "done"}]
           /\ EndTurn(t)[t] \in {"enter", "done"}
           /\ EndTurn(t)[t] = "done" <=> ~(turn[t] + 1 < TURNS)
           /\ \A u \in Threads \ {t} : EndTurn(t)[u] = pc[u]
BY DEF TypeOK, EndTurn

LEMMA BroadcastFacts ==
    ASSUME NEW S,
           NEW p \in [Threads -> {"enter", "asleep", "access", "leave", "done"}]
    PROVE  /\ Broadcast(S, p) \in [Threads -> {"enter", "asleep", "access", "leave", "done"}]
           /\ \A u \in Threads :
                 /\ p[u] # "asleep" => Broadcast(S, p)[u] = p[u]
                 /\ p[u] = "asleep" => Broadcast(S, p)[u] = IF u \in S THEN "enter" ELSE "asleep"
BY DEF Broadcast

LEMMA InitInvariant == Init => IInv
<1>. SUFFICES ASSUME Init PROVE IInv
  OBVIOUS
<1>. USE ConstantsAssumption DEF Init
<1>1. TypeOK
  BY DEF TypeOK, Slots
<1>2. Balance
  <2>1. \A S \in SUBSET Threads : Completed(S) = {}
    BY DEF Completed, Rounds
  <2>2. Completed(Writers) = {} /\ Completed(Readers) = {}
    BY <2>1 DEF Threads
  <2>. QED
    BY <2>2, FS_EmptySet DEF Balance
<1>3. LastStored /\ LoadsStoredSlot /\ SleepersJustified
  BY DEF LastStored, LoadsStoredSlot, SleepersJustified, Threads
<1>. QED
  BY <1>1, <1>2, <1>3 DEF IInv

\* A step that changes no counter.
LEMMA WaitingInvariant ==
    ASSUME IInv, NEW t \in Threads, NEW v \in {"enter", "asleep"},
           pc[t] \in {"enter", "asleep"},
           pc' = [pc EXCEPT ![t] = v],
           v = "asleep" => \/ t \in Readers /\ ReaderMustWait
                           \/ t \in Writers /\ WriterMustWait,
           UNCHANGED <<written, writeIndex, readIndex, stored, slot, turn>>
    PROVE  IInv'
<1>. USE ConstantsAssumption DEF IInv
<1>1. TypeOK'
  BY DEF TypeOK
<1>2. Balance'
  BY DEF Balance, Completed, Rounds
<1>3. LastStored' /\ LoadsStoredSlot'
  BY DEF TypeOK, LastStored, LoadsStoredSlot, Threads
<1>4. SleepersJustified'
  <2>1. WriterMustWait => written >= BUFFER_SIZE
    BY DEF WriterMustWait, TypeOK
  <2>2. ReaderMustWait => written <= 0
    BY DEF ReaderMustWait
  <2>. QED
    BY <2>1, <2>2 DEF TypeOK, SleepersJustified, Threads
<1>. QED
  BY <1>1, <1>2, <1>3, <1>4

LEMMA ReaderClaimInvariant ==
    ASSUME IInv, NEW r \in Readers, ReaderClaim(r)
    PROVE  IInv'
<1>. USE ConstantsAssumption DEF IInv, ReaderClaim
<1>. r \in Threads /\ r \notin Writers
  BY DEF Threads
<1>1. TypeOK'
  BY DEF TypeOK
<1>2. Balance'
  BY DEF Balance, Completed, Rounds
<1>3. readIndex \in stored
  BY DEF LastStored, ReaderMustWait
<1>4. LastStored' /\ LoadsStoredSlot' /\ SleepersJustified'
  BY <1>3 DEF TypeOK, LastStored, LoadsStoredSlot, SleepersJustified, Threads
<1>. QED
  BY <1>1, <1>2, <1>4

LEMMA ReaderLoadInvariant ==
    ASSUME IInv, NEW r \in Readers, ReaderLoad(r)
    PROVE  IInv'
<1>. USE ConstantsAssumption DEF IInv, ReaderLoad
<1>. r \in Threads /\ r \notin Writers
  BY DEF Threads
<1>1. TypeOK'
  BY DEF TypeOK
<1>2. Balance'
  BY DEF Balance, Completed, Rounds
<1>3. LastStored' /\ LoadsStoredSlot' /\ SleepersJustified'
  BY DEF TypeOK, LastStored, LoadsStoredSlot, SleepersJustified, Threads
<1>. QED
  BY <1>1, <1>2, <1>3

LEMMA WriterClaimInvariant ==
    ASSUME IInv, NEW w \in Writers, WriterClaim(w)
    PROVE  IInv'
<1>. USE ConstantsAssumption DEF IInv, WriterClaim
<1>. w \in Threads /\ w \notin Readers
  BY DEF Threads
<1>1. writeIndex' \in Slots
  BY DEF TypeOK, NextSlot, Slots
<1>2. TypeOK'
  BY <1>1 DEF TypeOK
<1>3. Balance'
  BY DEF Balance, Completed, Rounds
<1>4. LastStored' /\ LoadsStoredSlot' /\ SleepersJustified'
  BY DEF TypeOK, LastStored, LoadsStoredSlot, SleepersJustified, Threads
<1>. QED
  BY <1>2, <1>3, <1>4

LEMMA WriterStoreInvariant ==
    ASSUME IInv, NEW w \in Writers, WriterStore(w)
    PROVE  IInv'
<1>. USE ConstantsAssumption DEF IInv, WriterStore
<1>. w \in Threads /\ w \notin Readers
  BY DEF Threads
<1>1. TypeOK'
  BY DEF TypeOK
<1>2. Balance'
  BY DEF Balance, Completed, Rounds
<1>3. LastStored' /\ LoadsStoredSlot' /\ SleepersJustified'
  BY DEF TypeOK, LastStored, LoadsStoredSlot, SleepersJustified, Threads
<1>. QED
  BY <1>1, <1>2, <1>3

\* What the two ways to complete a round have in common.
LEMMA LeaveFacts ==
    ASSUME IInv, NEW t \in Threads, NEW S,
           pc[t] = "leave",
           turn' = [turn EXCEPT ![t] = @ + 1],
           pc' = Broadcast(S, EndTurn(t)),
           written' \in Int, readIndex' \in Slots,
           UNCHANGED <<writeIndex, stored, slot>>
    PROVE  /\ TypeOK'
           /\ \A u \in Threads : pc'[u] \in {"access", "leave"} => pc'[u] = pc[u]
           /\ \A u \in Threads : pc'[u] = "asleep" => pc[u] = "asleep" /\ u \notin S
           /\ Cardinality(Completed(Writers)') = Cardinality(Completed(Writers))
                                                   + (IF t \in Writers THEN 1 ELSE 0)
           /\ Cardinality(Completed(Readers)') = Cardinality(Completed(Readers))
                                                   + (IF t \in Readers THEN 1 ELSE 0)
<1>. USE ConstantsAssumption DEF IInv
<1>1. TURNS \in Nat /\ turn[t] \in Nat /\ turn[t] < TURNS
  BY DEF TypeOK
<1>2. EndTurn(t) \in [Threads -> {"enter", "asleep", "access", "leave", "done"}]
  BY EndTurnFacts
<1>3. /\ pc' \in [Threads -> {"enter", "asleep", "access", "leave", "done"}]
      /\ pc'[t] = EndTurn(t)[t]
      /\ \A u \in Threads \ {t} : \/ pc'[u] = pc[u]
                                  \/ pc[u] = "asleep" /\ pc'[u] = "enter"
      /\ \A u \in Threads : pc'[u] = "asleep" => pc[u] = "asleep" /\ u \notin S
  BY <1>2, EndTurnFacts, BroadcastFacts
<1>4. TypeOK'
  <2>1. turn' \in [Threads -> 0 .. TURNS]
    BY <1>1 DEF TypeOK
  <2>2. pc'[t] = "done" <=> turn'[t] = TURNS
    <3>1. turn'[t] = turn[t] + 1
      BY DEF TypeOK
    <3>2. turn[t] + 1 = TURNS <=> ~(turn[t] + 1 < TURNS)
      BY <1>1
    <3>3. pc'[t] = "done" <=> ~(turn[t] + 1 < TURNS)
      BY <1>3, EndTurnFacts
    <3>. QED
      BY <3>1, <3>2, <3>3
  <2>3. \A u \in Threads : pc'[u] = "done" <=> turn'[u] = TURNS
    BY <1>3, <2>2 DEF TypeOK
  <2>. QED
    BY <1>3, <2>1, <2>3 DEF TypeOK
<1>5. \A u \in Threads : pc'[u] \in {"access", "leave"} => pc'[u] = pc[u]
  BY <1>3, EndTurnFacts
<1>6. /\ Writers \in SUBSET Threads /\ IsFiniteSet(Writers)
      /\ Readers \in SUBSET Threads /\ IsFiniteSet(Readers)
  BY DEF Threads
<1>7. /\ Cardinality(Completed(Writers)) \in Nat
      /\ Cardinality(Completed(Readers)) \in Nat
  BY <1>6, RoundsFinite
<1>8. Cardinality(Completed(Writers)') =
          Cardinality(Completed(Writers)) + (IF t \in Writers THEN 1 ELSE 0)
  <2>1. Cardinality(Completed(Writers)') =
            IF t \in Writers THEN Cardinality(Completed(Writers)) + 1
                             ELSE Cardinality(Completed(Writers))
    BY <1>1, <1>6, RoundCompleted
  <2>. QED
    BY <1>7, <2>1
<1>9. Cardinality(Completed(Readers)') =
          Cardinality(Completed(Readers)) + (IF t \in Readers THEN 1 ELSE 0)
  <2>1. Cardinality(Completed(Readers)') =
            IF t \in Readers THEN Cardinality(Completed(Readers)) + 1
                             ELSE Cardinality(Completed(Readers))
    BY <1>1, <1>6, RoundCompleted
  <2>. QED
    BY <1>7, <2>1
<1>. QED
  BY <1>3, <1>4, <1>5, <1>8, <1>9

LEMMA ReaderLeaveInvariant ==
    ASSUME IInv, NEW r \in Readers, ReaderLeave(r)
    PROVE  IInv'
<1>. USE ConstantsAssumption DEF IInv, ReaderLeave
<1>. r \in Threads /\ r \notin Writers
  BY DEF Threads
<1>1. written \in Int /\ written' \in Int /\ written' = written - 1 /\ readIndex' \in Slots
  BY DEF TypeOK
<1>2. /\ TypeOK'
      /\ \A u \in Threads : pc'[u] \in {"access", "leave"} => pc'[u] = pc[u]
      /\ \A u \in Threads : pc'[u] = "asleep" => pc[u] = "asleep" /\ u \notin Writers
      /\ Cardinality(Completed(Writers)') = Cardinality(Completed(Writers)) + 0
      /\ Cardinality(Completed(Readers)') = Cardinality(Completed(Readers)) + 1
  BY <1>1, LeaveFacts
<1>3. /\ Cardinality(Completed(Writers)) \in Nat
      /\ Cardinality(Completed(Readers)) \in Nat
  BY RoundsFinite
<1>4. Balance'
  BY <1>1, <1>2, <1>3 DEF Balance
<1>5. LastStored' /\ LoadsStoredSlot'
  BY <1>2 DEF LastStored, LoadsStoredSlot, Threads
<1>6. SleepersJustified'
  BY <1>1, <1>2 DEF SleepersJustified, Threads
<1>. QED
  BY <1>2, <1>4, <1>5, <1>6

LEMMA WriterLeaveInvariant ==
    ASSUME IInv, NEW w \in Writers, WriterLeave(w)
    PROVE  IInv'
<1>. USE ConstantsAssumption DEF IInv, WriterLeave
<1>. w \in Threads /\ w \notin Readers
  BY DEF Threads
<1>1. written \in Int /\ written' \in Int /\ written' = written + 1 /\ readIndex' \in Slots
  BY DEF TypeOK
<1>2. /\ TypeOK'
      /\ \A u \in Threads : pc'[u] \in {"access", "leave"} => pc'[u] = pc[u]
      /\ \A u \in Threads : pc'[u] = "asleep" => pc[u] = "asleep" /\ u \notin Readers
      /\ Cardinality(Completed(Writers)') = Cardinality(Completed(Writers)) + 1
      /\ Cardinality(Completed(Readers)') = Cardinality(Completed(Readers)) + 0
  BY <1>1, LeaveFacts
<1>3. /\ Cardinality(Completed(Writers)) \in Nat
      /\ Cardinality(Completed(Readers)) \in Nat
  BY RoundsFinite
<1>4. Balance'
  BY <1>1, <1>2, <1>3 DEF Balance
<1>5. readIndex' \in stored'
  BY DEF LastStored
<1>6. LastStored' /\ LoadsStoredSlot'
  BY <1>2, <1>5 DEF LastStored, LoadsStoredSlot, Threads
<1>7. SleepersJustified'
  BY <1>1, <1>2 DEF SleepersJustified, Threads
<1>. QED
  BY <1>2, <1>4, <1>6, <1>7

LEMMA NextInvariant == IInv /\ [Next]_vars => IInv'
<1>. SUFFICES ASSUME IInv, [Next]_vars PROVE IInv'
  OBVIOUS
<1>1. CASE UNCHANGED vars
  BY <1>1 DEF vars, IInv, TypeOK, Balance, Completed, LastStored, LoadsStoredSlot,
              SleepersJustified
<1>2. ASSUME NEW r \in Readers, Reader(r)
      PROVE  IInv'
  <2>1. CASE ReaderSleep(r)
    BY <2>1, WaitingInvariant DEF ReaderSleep, Sleep, Threads
  <2>. QED
    BY <1>2, <2>1, ReaderClaimInvariant, ReaderLoadInvariant, ReaderLeaveInvariant DEF Reader
<1>3. ASSUME NEW w \in Writers, Writer(w)
      PROVE  IInv'
  <2>1. CASE WriterSleep(w)
    BY <2>1, WaitingInvariant DEF WriterSleep, Sleep, Threads
  <2>. QED
    BY <1>3, <2>1, WriterClaimInvariant, WriterStoreInvariant, WriterLeaveInvariant DEF Writer
<1>4. ASSUME NEW t \in Threads, SpuriousWakeup(t)
      PROVE  IInv'
  BY <1>4, WaitingInvariant DEF SpuriousWakeup
<1>. QED
  BY <1>1, <1>2, <1>3, <1>4 DEF Next, Terminating

------------------------------------------------------------------------------
(* Some thread is awake.                                                   *)

\* A side that is done has completed all its rounds; a side with a thread that
\* is not done has completed fewer.
LEMMA SideComplete ==
    ASSUME TypeOK, NEW S \in SUBSET Threads, IsFiniteSet(S)
    PROVE  /\ (\A t \in S : pc[t] = "done") =>
                  Cardinality(Completed(S)) = Cardinality(S) * TURNS
           /\ (\E t \in S : pc[t] # "done") =>
                  Cardinality(Completed(S)) < Cardinality(S) * TURNS
<1>1. TURNS \in Nat /\ TURNS > 0
  BY ConstantsAssumption
<1>2. ASSUME \A t \in S : pc[t] = "done"
      PROVE  Cardinality(Completed(S)) = Cardinality(S) * TURNS
  <2>1. \A t \in S : turn[t] = TURNS
    BY <1>2 DEF TypeOK
  <2>2. Completed(S) = Rounds(S)
    BY <1>1, <2>1 DEF Completed, Rounds
  <2>. QED
    BY <2>2, RoundsFinite
<1>3. ASSUME NEW t \in S, pc[t] # "done"
      PROVE  Cardinality(Completed(S)) < Cardinality(S) * TURNS
  <2>1. turn[t] \in Nat /\ turn[t] < TURNS
    BY <1>1, <1>3 DEF TypeOK
  <2>2. <<t, TURNS>> \in Rounds(S) /\ <<t, TURNS>> \notin Completed(S)
    BY <1>1, <2>1 DEF Completed, Rounds
  <2>3. Cardinality(Completed(S)) # Cardinality(Rounds(S))
    BY <2>2, RoundsFinite
  <2>4. Cardinality(Rounds(S)) \in Nat
    BY RoundsFinite, FS_CardinalityType
  <2>. QED
    BY <2>3, <2>4, RoundsFinite
<1>. QED
  BY <1>2, <1>3

LEMMA AwakeByBalance ==
    IInv /\ ~AllDone => \E t \in Threads : pc[t] \notin {"asleep", "done"}
<1>. SUFFICES ASSUME IInv, NEW s \in Threads, pc[s] # "done",
                     \A t \in Threads : pc[t] \in {"asleep", "done"}
              PROVE  FALSE
  BY DEF AllDone, IInv, TypeOK
<1>. USE ConstantsAssumption DEF IInv
<1>1. /\ Readers \in SUBSET Threads /\ IsFiniteSet(Readers)
      /\ Writers \in SUBSET Threads /\ IsFiniteSet(Writers)
  BY DEF Threads
<1>2. /\ Cardinality(Completed(Writers)) \in Nat /\ Cardinality(Completed(Readers)) \in Nat
      /\ written \in Int /\ BUFFER_SIZE > 0
  BY <1>1, RoundsFinite DEF TypeOK
<1>. DEFINE all == Cardinality(Readers) * TURNS
<1>3. all = Cardinality(Writers) * TURNS /\ all \in Nat
  <2>1. Cardinality(Readers) \in Nat
    BY <1>1, FS_CardinalityType
  <2>. QED
    BY <2>1, BalanceAssumption
<1>. HIDE DEF all
<1>4. CASE s \in Readers
  <2>1. written <= 0
    BY <1>4 DEF SleepersJustified
  <2>2. \A w \in Writers : pc[w] = "done"
    <3>1. \A w \in Writers : pc[w] # "asleep"
      BY <1>2, <2>1 DEF SleepersJustified
    <3>. QED
      BY <3>1 DEF Threads
  <2>3. Cardinality(Completed(Writers)) = all
    BY <1>1, <1>3, <2>2, SideComplete
  <2>4. Cardinality(Completed(Readers)) < all
    BY <1>1, <1>4, SideComplete DEF all
  <2>. QED
    BY <1>2, <1>3, <2>1, <2>3, <2>4 DEF Balance
<1>5. CASE s \in Writers
  <2>1. written >= BUFFER_SIZE
    BY <1>5 DEF SleepersJustified
  <2>2. \A r \in Readers : pc[r] = "done"
    <3>1. \A r \in Readers : pc[r] # "asleep"
      BY <1>2, <2>1 DEF SleepersJustified
    <3>. QED
      BY <3>1 DEF Threads
  <2>3. Cardinality(Completed(Readers)) = all
    BY <1>1, <2>2, SideComplete DEF all
  <2>4. Cardinality(Completed(Writers)) < all
    BY <1>1, <1>3, <1>5, SideComplete
  <2>. QED
    BY <1>2, <1>3, <2>1, <2>3, <2>4 DEF Balance
<1>. QED
  BY <1>4, <1>5 DEF Threads

\* When all have returned, both sides have completed all their rounds.
LEMMA EvenInTheEnd == IInv /\ AllDone => written = 0
<1>. SUFFICES ASSUME IInv, AllDone PROVE written = 0
  OBVIOUS
<1>. USE ConstantsAssumption DEF IInv
<1>1. /\ Readers \in SUBSET Threads /\ IsFiniteSet(Readers)
      /\ Writers \in SUBSET Threads /\ IsFiniteSet(Writers)
  BY DEF Threads
<1>2. /\ Cardinality(Completed(Readers)) = Cardinality(Readers) * TURNS
      /\ Cardinality(Completed(Writers)) = Cardinality(Writers) * TURNS
  BY <1>1, SideComplete DEF AllDone
<1>3. Cardinality(Completed(Writers)) = Cardinality(Completed(Readers))
  BY <1>2, BalanceAssumption
<1>4. Cardinality(Completed(Writers)) \in Nat
  BY <1>1, RoundsFinite
<1>. QED
  BY <1>3, <1>4 DEF Balance

------------------------------------------------------------------------------
(* The theorems.                                                           *)

\* The inductive invariant holds throughout every behaviour of ex2.
THEOREM Invariance == Spec => []IInv
BY InitInvariant, NextInvariant, PTL DEF Spec

\* The indices of ex2 stay within the buffer.
THEOREM TypeCorrect == Spec => []TypeOK
BY Invariance, PTL DEF IInv

\* In ex2 no reader sleeps over a counted value and no writer over free slots,
\* although written is tested and changed in different critical sections.
THEOREM SleepJustified == Spec => []SleepersJustified
BY Invariance, PTL DEF IInv

\* A reader of ex2 never loads from a slot that no writer has stored into.
THEOREM LoadsAreStored == Spec => []LoadsStoredSlot
BY Invariance, PTL DEF IInv

\* The threads of ex2 never all wait for each other: with as many readers as
\* writers, somebody with rounds left is awake; and when all have returned, as
\* many values have been counted out as in.
THEOREM NeverAllAsleep == Spec => []NoDeadlock
<1>1. IInv => NoDeadlock
  BY AwakeByBalance, EvenInTheEnd DEF NoDeadlock
<1>. QED
  BY <1>1, Invariance, PTL
==============================================================================
