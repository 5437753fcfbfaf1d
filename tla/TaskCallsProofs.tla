--------------------------- MODULE TaskCallsProofs ---------------------------
(***************************************************************************)
(* Proofs about the system calls of lab04 (module TaskCalls), for any      *)
(* processes and users, whatever is forked, exits and is freed meanwhile.  *)
(*                                                                         *)
(* The argument about the walks is an order of the tasks by age, which no  *)
(* variable of the program holds: the links of the list follow it, also    *)
(* those kept by tasks that have exited, and none of them leads past a     *)
(* task that is still there.  So a walk that has left a task behind has    *)
(* come past it, and one that ends has come past everybody that stayed.    *)
(***************************************************************************)
EXTENDS TaskCalls, FiniteSetTheorems, SequenceTheorems, TLAPS

------------------------------------------------------------------------------
(* What does not depend on the order.                                      *)

Typed ==
    /\ call \in {"by_index", "by_pid", "census", "cpu_time"}
    /\ preemptible \in BOOLEAN
    /\ uid \in [Tasks -> Uids]
    /\ weight \in [Tasks -> {0, 1}]
    /\ state \in [Tasks -> {"unborn", "listed", "unlinked", "freed"}]
    /\ next \in [Nodes -> Nodes]
    /\ sections \in SUBSET Callers
    /\ guards \in [Tasks -> SUBSET Callers]
    /\ at \in [Callers -> {"idle", "walk", "step", "end", "answer", "visit", "tally", "scan", "cleanup",
                           "deleting", "returned", "over", "lost"}]
    /\ DOMAIN arg = Callers
    /\ call = "by_index" => arg \in [Callers -> Nat]
    /\ num \in [Callers -> Nat]
    /\ here \in [Callers -> Nodes]
    /\ DOMAIN result = Callers
    /\ existing \in [Callers -> Entries \cup {NULL}]
    /\ count \in [Entries -> Nat \cup {-1}]
    /\ lost \in SUBSET Callers
    /\ stayed \in [Callers -> SUBSET Tasks]
    /\ met \in [Callers -> SUBSET Tasks]
    /\ there \in [Callers -> SUBSET Tasks]
    /\ shrunk \in [Callers -> BOOLEAN]
    /\ reported \in [Callers -> SUBSET Nodes]
    /\ slept \in [Callers -> BOOLEAN]
    /\ overlapped \in [Callers -> BOOLEAN]

\* The places in which a call holds on to a task.
Holding(c) == at[c] \in {"walk", "step", "end", "answer", "visit", "tally"}

\* A kernel has calls of one kind, and a process is there during its call.
Placed(c) ==
    /\ at[c] \in {"walk", "step", "end", "answer"} => ~Counting
    /\ at[c] \in {"visit", "tally", "scan", "cleanup", "deleting"} => Counting
    /\ c \in lost <=> at[c] = "lost"
    /\ at[c] \notin {"idle", "over"} => state[c] = "listed"
    /\ at[c] = "idle" => state[c] \in {"unborn", "listed"}
    /\ at[c] = "over" => state[c] # "unborn"
    /\ state[c] = "unborn" => reported[c] = {} /\ ~shrunk[c]
    /\ at[c] \in {"idle", "walk", "step", "end"} => ~slept[c]

\* Who is in a read section: a call that holds on to a task and has not slept,
\* and a program whose call has answered 3 in a preemptible kernel.
InSection(c) ==
    /\ Holding(c) /\ ~slept[c] => c \in sections
    /\ c \in sections =>
          /\ state[c] = "listed"
          /\ \/ Holding(c)
             \/ at[c] = "lost"
             \/ preemptible /\ result[c] = "3" /\ at[c] \in {"returned", "over"}

\* Only tasks that have exited are guarded, and only by open sections.
Guarding == \A t \in Tasks : guards[t] \subseteq sections /\ (state[t] # "unlinked" => guards[t] = {})

\* Calls that are under way together know that they overlap; the table is empty
\* when there are none.
Overlaps ==
    /\ \A c, d \in Callers : InCall(c) /\ InCall(d) /\ c # d => overlapped[c]
    /\ ~Counting \/ (\A c \in Callers : ~InCall(c)) => InTable = {}

\* Sets of tasks in the histories.
Kept(c) ==
    /\ stayed[c] \subseteq Listed
    /\ there[c] \subseteq Listed
    /\ \A t \in met[c] : state[t] # "unborn"

Base ==
    /\ Typed
    /\ Guarding
    /\ Overlaps
    /\ \A c \in Callers : Placed(c) /\ InSection(c) /\ Kept(c)

------------------------------------------------------------------------------
(* The order of the tasks.                                                 *)

Ring == Listed \cup {"init_task"}

\* rank orders the tasks by age, those that have exited included, and the
\* list follows it; top is as large as any rank.
Order(rank, top) ==
    /\ rank["init_task"] = 0
    /\ \A t \in Tasks : rank[t] <= top
    /\ \A t \in Tasks : state[t] # "unborn" => rank[t] > 0
    /\ \A s, t \in Tasks : state[s] # "unborn" /\ state[t] # "unborn" /\ rank[s] = rank[t] => s = t
    /\ \A t \in Tasks : state[t] \in {"unborn", "freed"} => next[t] = "init_task"
    /\ \A n \in Ring : next[n] \in Ring
    /\ \A n \in Nodes : next[n] # "init_task" => rank[n] < rank[next[n]]
    /\ \A n \in Ring, t \in Listed :
          rank[n] < rank[t] => next[n] # "init_task" /\ rank[next[n]] <= rank[t]

\* A call that is in a read section can go from a task it guards to a task
\* that is listed or that it guards as well.
Chained(c) ==
    \A t \in Tasks : c \in guards[t] => next[t] \in Ring \/ c \in guards[next[t]]

\* Where the walk of c can have come.
Known(c) == IF Counting THEN met[c] ELSE Listed \cup {t \in Tasks : c \in guards[t]}

\* From there no link leads past a task that has stayed.
Reaching(c, rank) ==
    InCall(c) /\ c \notin lost =>
        \A n \in Known(c) \cup {"init_task"} : (n \in Tasks => state[n] # "freed") =>
            /\ next[n] \in Known(c) \cup {"init_task"}
            /\ \A t \in stayed[c] :
                  rank[n] < rank[t] => next[n] # "init_task" /\ rank[next[n]] <= rank[t]

\* The task at which c is has not been freed, unless c has slept, and c has
\* come to it over the links.
Standing(c) ==
    /\ Holding(c) /\ ~slept[c] => here[c] \in Ring \/ c \in guards[here[c]]
    /\ at[c] \in {"visit", "tally"} => here[c] \in Known(c) \cup {"init_task"}
    /\ at[c] = "tally" => here[c] # "init_task"
    /\ at[c] = "scan" => here[c] = "init_task"

\* lab04/4: a task that has stayed has not been passed, and is still ahead when
\* the loop goes on; the loop ends at the task that was looked for, if that has
\* stayed.
Searching(c, rank) ==
    call = "by_pid" =>
        /\ at[c] = "walk" /\ arg[c] \in stayed[c] => rank[here[c]] <= rank[arg[c]]
        /\ at[c] = "step" /\ arg[c] \in stayed[c] => rank[here[c]] < rank[arg[c]]
        /\ at[c] = "end" /\ arg[c] \in stayed[c] => here[c] = arg[c]
        /\ at[c] = "returned" /\ result[c] = "3" => arg[c] \notin stayed[c]

\* lab04/2: as many tasks as num at most have been passed, also when the walk is
\* back at init_task.
CountingUp(c, rank) ==
    call = "by_index" =>
        /\ at[c] \in {"walk", "end"} => num[c] <= arg[c]
        /\ at[c] = "step" => num[c] < arg[c]
        /\ at[c] \in {"walk", "step", "end"} =>
              Cardinality({t \in stayed[c] : rank[t] <= rank[here[c]]}) <= num[c]
        /\ at[c] = "returned" /\ result[c] = "3" => Cardinality(stayed[c]) <= arg[c]

\* lab04/2, as long as nobody exits: the tasks reported are the oldest, one
\* for each index so far, and num of them are older than the one at hand.  The
\* list is longer than the index asked for, because the last answer was given
\* to a task that was not the last: so the walk comes to that index and never
\* back to init_task.
Listing(c, rank) ==
    call = "by_index" /\ ~shrunk[c] =>
        /\ at[c] \in {"idle", "walk", "step", "end", "answer", "returned"} =>
              /\ reported[c] \subseteq Ring
              /\ \A m \in reported[c], n \in Ring : rank[n] < rank[m] => n \in reported[c]
        /\ at[c] \in {"idle", "walk", "step", "end", "answer"} => Cardinality(reported[c]) = arg[c]
        /\ at[c] \in {"idle", "walk", "step", "end"} => arg[c] < Cardinality(Ring)
        /\ at[c] \in {"walk", "step", "end", "answer"} =>
              /\ here[c] \in Ring
              /\ Cardinality({n \in Ring : rank[n] < rank[here[c]]}) = num[c]
        /\ at[c] \in {"end", "answer"} => num[c] = arg[c]
        /\ at[c] = "answer" => arg[c] + 1 < Cardinality(Ring)
        /\ at[c] = "returned" /\ result[c] = "name" =>
              Cardinality(reported[c]) = arg[c] + 1 /\ arg[c] + 1 < Cardinality(Ring)
        /\ at[c] = "returned" /\ result[c] = "3" => there[c] \subseteq reported[c] \cup {here[c]}

\* The tasks of S that the census of c has come past.
Passed(c, S, rank) == {t \in S : here[c] = "init_task" \/ rank[t] < rank[here[c]]}

\* lab04/1 and lab04/5: the table of a census that meets no other has one
\* entry for each user, which counts everybody passed that has stayed and
\* nobody that has not been met.
Tallying(c, rank) ==
    /\ \A e, f \in InTable : uid[e[2]] = uid[f[2]] => e = f
    /\ \A e \in InTable : count[e] <= Weight(Passed(c, met[c], rank), uid[e[2]])
    /\ \A u \in Uids :
          \/ Weight(Passed(c, stayed[c], rank), u) = 0
          \/ \E e \in InTable : uid[e[2]] = u /\ Weight(Passed(c, stayed[c], rank), u) <= count[e]
    /\ here[c] = "init_task" => InTable # {}

Undisturbed(c, rank) ==
    Counting /\ ~overlapped[c] =>
        /\ at[c] \in {"visit", "tally", "scan"} => Tallying(c, rank)
        /\ at[c] = "tally" =>
              IF existing[c] = NULL
              THEN \A e \in InTable : uid[e[2]] # uid[here[c]]
              ELSE existing[c] \in InTable /\ uid[existing[c][2]] = uid[here[c]]
        /\ at[c] = "cleanup" => InTable # {}
        /\ at[c] \in {"cleanup", "deleting", "returned"} =>
              \A u \in Uids : Weight(stayed[c], u) <= Weight(met[c], result[c])

OfCaller(c, rank) ==
    /\ Chained(c)
    /\ Reaching(c, rank)
    /\ Standing(c)
    /\ Searching(c, rank)
    /\ CountingUp(c, rank)
    /\ Listing(c, rank)
    /\ Undisturbed(c, rank)

Ordered(rank, top) == Order(rank, top) /\ \A c \in Callers : OfCaller(c, rank)

IInv ==
    /\ Base
    /\ \E rank \in [Nodes -> Nat], top \in Nat : Ordered(rank, top)
    /\ LostOnlyBySleepOrOverlap

------------------------------------------------------------------------------
(* Constants and sets.                                                     *)

\* Callers are tasks, tasks are nodes, and init_task and NULL are neither.
LEMMA Kinds ==
    /\ Callers \subseteq Tasks
    /\ Nodes = Tasks \cup {"init_task"}
    /\ "init_task" \notin Tasks
    /\ NULL \notin Entries
    /\ \A e \in Entries : e = <<e[1], e[2]>> /\ e[1] \in Callers /\ e[2] \in Tasks
BY ConstantsAssumption DEF Tasks, Nodes, Entries, NULL

\* There are finitely many nodes, so that every set of them has a size, and
\* the larger set has the larger one.
LEMMA NodeSets ==
    ASSUME NEW S \in SUBSET Nodes
    PROVE  /\ IsFiniteSet(S)
           /\ Cardinality(S) \in Nat
           /\ \A T \in SUBSET S : /\ IsFiniteSet(T)
                                  /\ Cardinality(T) \in Nat
                                  /\ Cardinality(T) <= Cardinality(S)
                                  /\ Cardinality(T) = Cardinality(S) => T = S
<1>1. IsFiniteSet(Nodes)
  <2>1. IsFiniteSet(Tasks)
    BY ConstantsAssumption, FS_Union DEF Tasks
  <2>. QED
    BY <2>1, FS_AddElement DEF Nodes
<1>2. IsFiniteSet(S)
  BY <1>1, FS_Subset
<1>3. ASSUME NEW T \in SUBSET S
      PROVE  /\ IsFiniteSet(T)
             /\ Cardinality(T) <= Cardinality(S)
             /\ Cardinality(S) = Cardinality(T) => S = T
  BY <1>2, FS_Subset
<1>4. ASSUME NEW T, IsFiniteSet(T) PROVE Cardinality(T) \in Nat
  BY <1>4, FS_CardinalityType
<1>. QED
  BY <1>2, <1>3, <1>4

\* One node more makes a set of them larger by one, or not at all.
LEMMA OneMore ==
    ASSUME NEW S \in SUBSET Nodes, NEW n \in Nodes
    PROVE  /\ Cardinality(S) \in Nat
           /\ Cardinality(S \cup {n}) \in Nat
           /\ Cardinality(S \cup {n}) <= Cardinality(S) + 1
           /\ n \notin S => Cardinality(S \cup {n}) = Cardinality(S) + 1
           /\ Cardinality(S) <= Cardinality(S \cup {n})
<1>1. IsFiniteSet(S) /\ Cardinality(S) \in Nat
  BY NodeSets
<1>2. Cardinality(S \cup {n}) = IF n \in S THEN Cardinality(S) ELSE Cardinality(S) + 1
  BY <1>1, FS_AddElement
<1>. QED
  BY <1>1, <1>2

\* Two nodes are two.
LEMMA Two ==
    ASSUME NEW m \in Nodes, NEW n \in Nodes, m # n
    PROVE  Cardinality({m} \cup {n}) = 2
<1>1. {m} \in SUBSET Nodes /\ n \notin {m}
  OBVIOUS
<1>2. Cardinality({m}) = 1
  BY FS_Singleton
<1>3. Cardinality({m} \cup {n}) = Cardinality({m}) + 1
  BY <1>1, OneMore
<1>. QED
  BY <1>2, <1>3

------------------------------------------------------------------------------
(* Types.                                                                  *)

\* The steps of the kernel keep the types,
LEMMA ListTyped ==
    ASSUME Typed, NEW t \in Tasks, Fork(t) \/ Exit(t) \/ Free(t)
    PROVE  Typed'
<1>. USE Kinds DEF kernel, rcu, walk, table, history
<1>1. CASE Fork(t)
  <2>1. \A c \in Callers : met'[c] \in SUBSET Tasks /\ there'[c] \in SUBSET Tasks
    BY <1>1 DEF Typed, Fork, Listed
  <2>2. /\ met' = [c \in Callers |-> met'[c]]
        /\ there' = [c \in Callers |-> there'[c]]
    BY <1>1 DEF Typed, Fork
  <2>3. state' \in [Tasks -> {"unborn", "listed", "unlinked", "freed"}] /\ next' \in [Nodes -> Nodes]
    <3>1. PICK last : next' = [next EXCEPT ![last] = t]
      BY <1>1 DEF Fork
    <3>. QED
      BY <1>1, <3>1 DEF Typed, Fork
  <2>4. met' \in [Callers -> SUBSET Tasks] /\ there' \in [Callers -> SUBSET Tasks]
    BY <2>1, <2>2
  <2>. QED
    BY <1>1, <2>3, <2>4 DEF Typed, Fork
<1>2. CASE Exit(t)
  <2>1. state' \in [Tasks -> {"unborn", "listed", "unlinked", "freed"}] /\ next' \in [Nodes -> Nodes]
    BY <1>2 DEF Typed, Exit
  <2>2. sections' \in SUBSET Callers /\ guards' \in [Tasks -> SUBSET Callers]
    BY <1>2 DEF Typed, Exit
  <2>3. /\ stayed' \in [Callers -> SUBSET Tasks]
        /\ there' \in [Callers -> SUBSET Tasks]
        /\ shrunk' \in [Callers -> BOOLEAN]
    BY <1>2 DEF Typed, Exit
  <2>. QED
    BY <1>2, <2>1, <2>2, <2>3 DEF Typed, Exit
<1>3. CASE Free(t)
  BY <1>3 DEF Typed, Free
<1>. QED
  BY <1>1, <1>2, <1>3

\* and so do those that any call makes,
LEMMA CallTyped ==
    ASSUME Typed, NEW c \in Callers, Call(c) \/ Sleep(c) \/ Dangle(c) \/ Continue(c) \/ Spoilt(c)
    PROVE  Typed'
<1>. USE Kinds DEF kernel, rcu, walk, table, history, EndSection, Goto
<1>1. CASE Call(c)
  <2>1. PICK a : Begin(c, a) /\ (call = "by_index" => a = arg[c])
    BY <1>1 DEF Call
  <2>2. arg' = [arg EXCEPT ![c] = a]
    BY <2>1 DEF Begin
  <2>3. DOMAIN arg' = Callers /\ (call = "by_index" => arg' \in [Callers -> Nat])
    BY <2>1, <2>2 DEF Typed
  <2>4. overlapped' \in [Callers -> BOOLEAN]
    BY <2>1 DEF Typed, Begin, InCall
  <2>5. /\ stayed' \in [Callers -> SUBSET Tasks]
        /\ met' \in [Callers -> SUBSET Tasks]
    BY <2>1 DEF Typed, Begin, Listed
  <2>6. /\ at' \in [Callers -> {"idle", "walk", "step", "end", "answer", "visit", "tally", "scan", "cleanup",
                                "deleting", "returned", "over", "lost"}]
        /\ num' \in [Callers -> Nat]
        /\ here' \in [Callers -> Nodes]
        /\ sections' \in SUBSET Callers
    BY <2>1 DEF Typed, Begin, rcu_read_lock
  <2>. QED
    BY <2>1, <2>3, <2>4, <2>5, <2>6 DEF Typed, Begin
<1>2. CASE Sleep(c)
  BY <1>2 DEF Typed, Sleep
<1>3. CASE Dangle(c) \/ Spoilt(c)
  <2>1. Lose(c)
    BY <1>3 DEF Dangle, Spoilt
  <2>2. /\ existing' \in [Callers -> Entries \cup {NULL}]
        /\ stayed' \in [Callers -> SUBSET Tasks]
        /\ met' \in [Callers -> SUBSET Tasks]
    BY <2>1 DEF Typed, Lose
  <2>. QED
    BY <2>1, <2>2 DEF Typed, Lose
<1>4. CASE Continue(c)
  <2>1. DOMAIN result' = Callers /\ DOMAIN arg' = Callers
    BY <1>4 DEF Typed, Continue
  <2>2. call = "by_index" => arg' \in [Callers -> Nat]
    BY <1>4 DEF Typed, Continue
  <2>3. /\ at' \in [Callers -> {"idle", "walk", "step", "end", "answer", "visit", "tally", "scan", "cleanup",
                                "deleting", "returned", "over", "lost"}]
        /\ num' \in [Callers -> Nat]
        /\ here' \in [Callers -> Nodes]
        /\ stayed' \in [Callers -> SUBSET Tasks]
        /\ met' \in [Callers -> SUBSET Tasks]
        /\ overlapped' \in [Callers -> BOOLEAN]
        /\ slept' \in [Callers -> BOOLEAN]
    BY <1>4 DEF Typed, Continue
  <2>. QED
    BY <1>4, <2>1, <2>2, <2>3 DEF Typed, Continue
<1>. QED
  BY <1>1, <1>2, <1>3, <1>4

\* those of a walk by index or by PID,
LEMMA WalkTyped ==
    ASSUME Typed, NEW c \in Callers, Walk(c)
    PROVE  Typed'
<1>. USE Kinds DEF kernel, rcu, walk, table, history, EndSection, Goto
<1>0. CASE Test(c)
  BY <1>0 DEF Typed, Test
<1>1. CASE Advance(c)
  BY <1>1 DEF Typed, Advance
<1>2. CASE Found(c)
  BY <1>2 DEF Typed, Found
<1>3. CASE NotFound(c)
  <2>1. sections' \in SUBSET Callers /\ guards' \in [Tasks -> SUBSET Callers]
    BY <1>3 DEF Typed, NotFound
  <2>. QED
    BY <1>3, <2>1 DEF Typed, NotFound
<1>4. CASE Answer(c)
  BY <1>4 DEF Typed, Answer, rcu_read_unlock
<1>. QED
  BY <1>0, <1>1, <1>2, <1>3, <1>4 DEF Walk

\* and those of a census, which counts only tasks.
LEMMA CensusTyped ==
    ASSUME Typed, NEW c \in Callers, \A d \in Callers : Placed(d), Standing(c),
           Visit(c) \/ Tally(c) \/ EndWalk(c) \/ Scan(c) \/ Delete(c) \/ EndCall(c)
    PROVE  Typed'
<1>. USE Kinds DEF kernel, rcu, walk, table, history, EndSection, Goto
<1>1. CASE Visit(c)
  <2>1. existing' \in [Callers -> Entries \cup {NULL}]
    BY <1>1 DEF Typed, Visit, InTable
  <2>. QED
    BY <1>1, <2>1 DEF Typed, Visit
<1>2. CASE Tally(c)
  <2>. DEFINE entry == IF existing[c] = NULL THEN <<c, here[c]>> ELSE existing[c]
  <2>1. here[c] \in Tasks
    BY <1>2 DEF Typed, Tally, Standing
  <2>2. entry \in Entries
    BY <2>1 DEF Typed, Entries
  <2>3. existing[c] # NULL => count[entry] \in Nat
    BY <1>2 DEF Typed, Tally, InTable
  <2>. HIDE DEF entry
  <2>4. (IF existing[c] = NULL THEN 0 ELSE count[entry]) + weight[here[c]] \in Nat
    <3>1. weight[here[c]] \in Nat
      BY <2>1 DEF Typed
    <3>. QED
      BY <2>3, <3>1
  <2>5. count' = [count EXCEPT ![entry] = (IF existing[c] = NULL THEN 0 ELSE @) + weight[here[c]]]
    BY <1>2 DEF Tally, entry
  <2>6. count' \in [Entries -> Nat \cup {-1}]
    BY <2>2, <2>4, <2>5 DEF Typed
  <2>. QED
    BY <1>2, <2>6 DEF Typed, Tally
<1>3. CASE EndWalk(c)
  BY <1>3 DEF Typed, EndWalk, rcu_read_unlock
<1>4. CASE Scan(c)
  <2>1. DOMAIN result' = Callers
    BY <1>4 DEF Typed, Scan
  <2>. QED
    BY <1>4, <2>1 DEF Typed, Scan
<1>5. CASE Delete(c)
  BY <1>5 DEF Typed, Delete
<1>6. CASE EndCall(c)
  BY <1>6 DEF Typed, EndCall
<1>. QED
  BY <1>1, <1>2, <1>3, <1>4, <1>5, <1>6

------------------------------------------------------------------------------
(* What a step of one program does to the others, and to the list.         *)

Local(c) ==
    /\ UNCHANGED <<kernel, state, next>>
    /\ \A t \in Tasks : c \in guards'[t] => c \in guards[t]
    /\ count' = count \/ InCall(c)
    /\ \A d \in Callers \ {c} :
          /\ at'[d] = at[d]
          /\ arg'[d] = arg[d]
          /\ num'[d] = num[d]
          /\ here'[d] = here[d]
          /\ result'[d] = result[d]
          /\ existing'[d] = existing[d]
          /\ stayed'[d] = stayed[d]
          /\ met'[d] = met[d]
          /\ there'[d] = there[d]
          /\ shrunk'[d] = shrunk[d]
          /\ reported'[d] = reported[d]
          /\ slept'[d] = slept[d]
          /\ overlapped[d] => overlapped'[d]
          /\ d \in sections' <=> d \in sections
          /\ d \in lost' <=> d \in lost
          /\ \A t \in Tasks : d \in guards'[t] <=> d \in guards[t]

\* What any call does is local,
LEMMA CallLocal ==
    ASSUME Typed, NEW c \in Callers, Call(c) \/ Sleep(c) \/ Dangle(c) \/ Continue(c) \/ Spoilt(c)
    PROVE  Local(c)
<1>. USE Kinds DEF kernel, rcu, walk, table, history, EndSection, Goto, Local
<1>1. CASE Call(c)
  <2>1. PICK a : Begin(c, a)
    BY <1>1 DEF Call
  <2>2. \A d \in Callers : overlapped[d] => overlapped'[d]
    BY <2>1 DEF Typed, Begin
  <2>. QED
    BY <2>1, <2>2 DEF Typed, Begin, rcu_read_lock
<1>2. CASE Sleep(c)
  BY <1>2 DEF Typed, Sleep
<1>3. CASE Dangle(c) \/ Spoilt(c)
  <2>1. Lose(c)
    BY <1>3 DEF Dangle, Spoilt
  <2>. QED
    BY <2>1 DEF Typed, Lose
<1>4. CASE Continue(c)
  BY <1>4 DEF Typed, Continue
<1>. QED
  BY <1>1, <1>2, <1>3, <1>4

\* and so is what a walk does,
LEMMA WalkLocal ==
    ASSUME Typed, NEW c \in Callers, Walk(c)
    PROVE  Local(c)
<1>. USE Kinds DEF kernel, rcu, walk, table, history, EndSection, Goto, Local
<1>0. CASE Test(c)
  BY <1>0 DEF Typed, Test
<1>1. CASE Advance(c)
  BY <1>1 DEF Typed, Advance
<1>2. CASE Found(c)
  BY <1>2 DEF Typed, Found
<1>3. CASE NotFound(c)
  BY <1>3 DEF Typed, NotFound
<1>4. CASE Answer(c)
  BY <1>4 DEF Typed, Answer, rcu_read_unlock
<1>. QED
  BY <1>0, <1>1, <1>2, <1>3, <1>4 DEF Walk

\* and a census; but the table is everybody's.
LEMMA CensusLocal ==
    ASSUME Typed, NEW c \in Callers,
           Visit(c) \/ Tally(c) \/ EndWalk(c) \/ Scan(c) \/ Delete(c) \/ EndCall(c)
    PROVE  Local(c)
<1>. USE Kinds DEF kernel, rcu, walk, table, history, EndSection, Goto, Local
<1>1. CASE Visit(c)
  <2>1. PICK e : existing' = [existing EXCEPT ![c] = e]
    BY <1>1 DEF Visit
  <2>. QED
    BY <1>1, <2>1 DEF Typed, Visit
<1>2. CASE Tally(c)
  BY <1>2 DEF Typed, Tally, InCall
<1>3. CASE EndWalk(c)
  BY <1>3 DEF Typed, EndWalk, rcu_read_unlock
<1>4. CASE Scan(c)
  BY <1>4 DEF Typed, Scan
<1>5. CASE Delete(c)
  BY <1>5 DEF Typed, Delete, InCall
<1>6. CASE EndCall(c)
  BY <1>6 DEF Typed, EndCall
<1>. QED
  BY <1>1, <1>2, <1>3, <1>4, <1>5, <1>6

\* The places of the others do not change.
LEMMA OthersBase ==
    ASSUME Base, NEW c \in Callers, Local(c), NEW d \in Callers, d # c
    PROVE  Placed(d)' /\ InSection(d)' /\ Kept(d)'
BY DEF Base, Local, Placed, InSection, Kept, Holding, Counting, Listed, kernel

\* The calls under way go on as they were, unless c begins one.
LEMMA OverlapsKept ==
    ASSUME Base, NEW c \in Callers, Local(c), InCall(c),
           InCall(c)' => overlapped'[c] = overlapped[c],
           ~InCall(c)' \/ ~Counting => UNCHANGED count,
           ~InCall(c)' /\ Counting => InTable = {}
    PROVE  Overlaps'
<1>1. \A d \in Callers : InCall(d)' => InCall(d) /\ (overlapped[d] => overlapped'[d])
  BY DEF Local, InCall
<1>2. Counting' = Counting
  BY DEF Local, kernel, Counting
<1>3. \A d, e \in Callers : InCall(d)' /\ InCall(e)' /\ d # e => overlapped'[d]
  BY <1>1 DEF Base, Overlaps
<1>4. ~Counting \/ (\A d \in Callers : ~InCall(d)') => InTable' = {}
  BY DEF Base, Overlaps, InTable
<1>. QED
  BY <1>2, <1>3, <1>4 DEF Overlaps

\* The other parts of Base hold after a step of c when they do for c.
LEMMA ProgramBase ==
    ASSUME Base, NEW c \in Callers, Local(c), Typed', Overlaps',
           Placed(c)', InSection(c)', Kept(c)',
           \A t \in Tasks : c \in guards'[t] => c \in sections'
    PROVE  Base'
<1>1. \A d \in Callers : Placed(d)' /\ InSection(d)' /\ Kept(d)'
  BY OthersBase
<1>2. Guarding'
  <2>1. ASSUME NEW t \in Tasks PROVE guards'[t] \subseteq sections'
    <3>1. guards'[t] \subseteq Callers
      BY DEF Typed
    <3>. QED
      BY <3>1 DEF Base, Guarding, Local
  <2>2. ASSUME NEW t \in Tasks, state'[t] # "unlinked" PROVE guards'[t] = {}
    <3>1. guards'[t] \subseteq Callers /\ guards[t] = {}
      BY <2>2 DEF Base, Typed, Guarding, Local
    <3>. QED
      BY <3>1 DEF Local
  <2>. QED
    BY <2>1, <2>2 DEF Guarding
<1>. QED
  BY <1>1, <1>2 DEF Base

\* A call begins.
LEMMA BeginBase ==
    ASSUME Base, NEW c \in Callers, Call(c)
    PROVE  Base'
<1>1. PICK a : Begin(c, a)
  BY DEF Call
<1>2. Typed' /\ Local(c)
  BY CallTyped, CallLocal DEF Base
<1>. USE Kinds DEF Begin, Goto, rcu_read_lock, kernel
<1>3. at[c] = "idle" /\ at'[c] \in {"walk", "visit"} /\ Counting' = Counting
  BY <1>1 DEF Base, Typed, Counting
<1>4. /\ at'[c] = "visit" <=> Counting
      /\ c \notin lost /\ UNCHANGED <<lost, slept, result, reported, shrunk, there, guards, count, state>>
      /\ state[c] = "listed"
      /\ sections' = sections \cup {c}
  BY <1>1 DEF Base, Typed, table
<1>5. Placed(c)' /\ InSection(c)'
  BY <1>3, <1>4 DEF Base, Placed, InSection, Holding
<1>6. Kept(c)'
  BY <1>1, <1>4 DEF Base, Kept, Typed, Listed
<1>7. Overlaps'
  <2>1. \A d \in Callers \ {c} : InCall(d)' <=> InCall(d)
    BY <1>2 DEF Local, InCall
  <2>2. ~InCall(c)
    BY <1>3 DEF InCall
  <2>3. \A d \in Callers : overlapped'[d] <=>
            overlapped[d] \/ (IF d = c THEN \E e \in Callers : InCall(e) ELSE InCall(d))
    BY <1>1 DEF Base, Typed
  <2>4. \A d, e \in Callers : InCall(d)' /\ InCall(e)' /\ d # e => overlapped'[d]
    BY <2>1, <2>2, <2>3
  <2>5. InCall(c)' /\ InTable' = InTable
    BY <1>3, <1>4 DEF InCall, InTable
  <2>. QED
    BY <1>3, <2>4, <2>5 DEF Base, Overlaps
<1>8. \A t \in Tasks : c \in guards'[t] => c \in sections'
  BY <1>4
<1>. QED
  BY <1>2, <1>5, <1>6, <1>7, <1>8, ProgramBase

\* It sleeps, is lost, or returns to its program.
LEMMA CallBase ==
    ASSUME Base, NEW c \in Callers, Sleep(c) \/ Dangle(c) \/ Continue(c) \/ Spoilt(c)
    PROVE  Base'
<1>1. Typed' /\ Local(c)
  BY CallTyped, CallLocal DEF Base
<1>. USE Kinds DEF kernel, rcu, walk, table, history, EndSection, Goto
<1>2. CASE Sleep(c)
  <2>1. Placed(c)' /\ InSection(c)' /\ Kept(c)'
    BY <1>2 DEF Base, Typed, Sleep, Placed, InSection, Kept, Holding, Counting, Listed
  <2>2. \A t \in Tasks : c \notin guards'[t]
    BY <1>2 DEF Sleep
  <2>3. Overlaps'
    BY <1>1, <1>2, OverlapsKept DEF Sleep, InCall
  <2>. QED
    BY <1>1, <2>1, <2>2, <2>3, ProgramBase
<1>3. CASE Dangle(c) \/ Spoilt(c)
  <2>1. Lose(c) /\ (Holding(c) \/ at[c] \in {"scan", "cleanup", "deleting"})
    BY <1>3 DEF Dangle, Spoilt, Holding
  <2>2. /\ at'[c] = "lost" /\ c \in lost' /\ stayed'[c] = {} /\ met'[c] = {}
        /\ UNCHANGED <<state, sections, guards, result, reported, shrunk, there, slept,
                       overlapped, count>>
    BY <2>1 DEF Base, Typed, Lose
  <2>3. state[c] = "listed"
    BY <2>1 DEF Base, Placed, Holding
  <2>4. Placed(c)' /\ Kept(c)'
    BY <2>2, <2>3 DEF Base, Placed, Kept, Listed
  <2>5. InSection(c)'
    BY <2>2, <2>3 DEF Base, InSection, Holding
  <2>6. \A t \in Tasks : c \in guards'[t] => c \in sections'
    BY <2>2 DEF Base, Guarding
  <2>7. Overlaps'
    BY <1>1, <2>1, <2>2, OverlapsKept DEF InCall, Holding
  <2>. QED
    BY <1>1, <2>4, <2>5, <2>6, <2>7, ProgramBase
<1>4. CASE Continue(c)
  <2>1. /\ at[c] = "returned" /\ at'[c] \in {"idle", "over"} /\ c \notin lost
        /\ result[c] = "3" => at'[c] = "over" /\ result'[c] = "3"
        /\ ~slept'[c] /\ stayed'[c] = {} /\ met'[c] = {}
        /\ UNCHANGED <<kernel, state, sections, guards, reported, shrunk, there, count, lost>>
    BY <1>4 DEF Base, Typed, Continue
  <2>2. state[c] = "listed"
    BY <2>1 DEF Base, Placed
  <2>3. Placed(c)' /\ Kept(c)' /\ InSection(c)'
    BY <2>1, <2>2 DEF Base, Placed, Kept, InSection, Holding, Listed, Counting
  <2>4. \A t \in Tasks : c \in guards'[t] => c \in sections'
    BY <2>1 DEF Base, Guarding
  <2>5. Overlaps'
    <3>1. \A d \in Callers : InCall(d)' <=> InCall(d)
      BY <1>1, <2>1 DEF Local, InCall
    <3>2. \A d \in Callers : InCall(d) => overlapped'[d] = overlapped[d]
      BY <1>4 DEF Base, Typed, Continue, InCall
    <3>3. InTable' = InTable /\ Counting' = Counting
      BY <2>1 DEF InTable, Counting
    <3>. QED
      BY <3>1, <3>2, <3>3 DEF Base, Overlaps
  <2>. QED
    BY <1>1, <2>3, <2>4, <2>5, ProgramBase
<1>. QED
  BY <1>2, <1>3, <1>4

\* A walk by index or by PID.
LEMMA WalkBase ==
    ASSUME Base, NEW c \in Callers, Walk(c)
    PROVE  Base'
<1>1. Typed' /\ Local(c)
  BY WalkTyped, WalkLocal DEF Base
<1>. USE Kinds DEF kernel, rcu, walk, table, history, EndSection, Goto
<1>2. /\ at[c] \in {"walk", "step", "end", "answer"}
      /\ ~Counting /\ state[c] = "listed" /\ c \notin lost
  BY DEF Walk, Test, Advance, Found, NotFound, Answer, Base, Placed
<1>3. Overlaps'
  BY <1>1, <1>2, OverlapsKept DEF Walk, Test, Advance, Found, NotFound, Answer, InCall, Base, Overlaps
<1>4. CASE Test(c) \/ Advance(c) \/ Found(c)
  <2>1. /\ at[c] \in {"walk", "step", "end"} /\ at'[c] \in {"walk", "step", "end", "answer"}
        /\ UNCHANGED <<sections, guards, state, slept, lost, stayed, met, there, reported, shrunk>>
        /\ Counting' = Counting
    BY <1>4 DEF Test, Advance, Found, Base, Typed, Counting
  <2>2. Placed(c)' /\ InSection(c)' /\ Kept(c)'
    BY <1>2, <2>1 DEF Base, Placed, InSection, Kept, Holding, Listed
  <2>3. \A t \in Tasks : c \in guards'[t] => c \in sections'
    BY <2>1 DEF Base, Guarding
  <2>. QED
    BY <1>1, <1>3, <2>2, <2>3, ProgramBase
<1>5. CASE NotFound(c) \/ Answer(c)
  <2>1. /\ at'[c] = "returned"
        /\ UNCHANGED <<state, lost, stayed, met, there, shrunk>>
        /\ Counting' = Counting
    BY <1>5 DEF NotFound, Answer, Base, Typed, Counting
  <2>2. \/ NotFound(c) /\ preemptible /\ UNCHANGED <<sections, guards, preemptible>> /\ result'[c] = "3"
        \/ c \notin sections' /\ \A t \in Tasks : c \notin guards'[t]
    BY <1>5 DEF NotFound, Answer, rcu_read_unlock, Base, Typed
  <2>3. InSection(c)' /\ \A t \in Tasks : c \in guards'[t] => c \in sections'
    BY <1>2, <2>1, <2>2 DEF Base, InSection, Holding, Guarding
  <2>4. Placed(c)' /\ Kept(c)'
    BY <1>2, <2>1 DEF Base, Placed, Kept, Listed
  <2>. QED
    BY <1>1, <1>3, <2>3, <2>4, ProgramBase
<1>. QED
  BY <1>4, <1>5 DEF Walk

\* A census.
LEMMA CensusBase ==
    ASSUME Base, NEW c \in Callers, Standing(c),
           Visit(c) \/ Tally(c) \/ EndWalk(c) \/ Scan(c) \/ Delete(c) \/ EndCall(c)
    PROVE  Base'
<1>1. Typed' /\ Local(c)
  BY CensusTyped, CensusLocal DEF Base
<1>. USE Kinds DEF kernel, rcu, walk, table, history, EndSection, Goto
<1>2. /\ at[c] \in {"visit", "tally", "scan", "cleanup", "deleting"}
      /\ Counting /\ state[c] = "listed" /\ c \notin lost
  BY DEF Visit, Tally, EndWalk, Scan, Delete, EndCall, Base, Placed
<1>3. /\ at'[c] \in {"visit", "tally", "scan", "cleanup", "deleting", "returned"}
      /\ UNCHANGED <<state, slept, lost, stayed, met, there, reported, shrunk, overlapped>>
      /\ Counting' = Counting
      /\ at'[c] = "returned" => EndCall(c)
      /\ at'[c] \in {"visit", "tally"} => at[c] \in {"visit", "tally"} /\ UNCHANGED <<sections, guards>>
      /\ at'[c] \notin {"visit", "tally"} =>
            EndWalk(c) \/ (at[c] \notin {"visit", "tally"} /\ UNCHANGED <<sections, guards>>)
  BY <1>2 DEF Visit, Tally, EndWalk, Scan, Delete, EndCall, Base, Typed, Counting
<1>4. Placed(c)' /\ Kept(c)'
  BY <1>2, <1>3 DEF Base, Placed, Kept, Listed
<1>5. EndWalk(c) => c \notin sections' /\ \A t \in Tasks : c \notin guards'[t]
  BY DEF EndWalk, rcu_read_unlock
<1>6. InSection(c)' /\ \A t \in Tasks : c \in guards'[t] => c \in sections'
  BY <1>2, <1>3, <1>5 DEF Base, InSection, Holding, Guarding
<1>7. Overlaps'
  BY <1>1, <1>2, <1>3, OverlapsKept DEF InCall, EndCall
<1>. QED
  BY <1>1, <1>4, <1>6, <1>7, ProgramBase

\* The steps of the kernel: only tasks that exit become guarded.
LEMMA ListBase ==
    ASSUME Base, NEW t \in Tasks, Fork(t) \/ Exit(t) \/ Free(t)
    PROVE  Base'
<1>1. Typed'
  BY ListTyped DEF Base
<1>. USE Kinds DEF kernel, rcu, walk, table, history
<1>2. UNCHANGED <<call, preemptible, at, result, count, lost, slept, reported, overlapped>>
  BY DEF Fork, Exit, Free
<1>3. Overlaps'
  BY <1>2 DEF Base, Overlaps, InCall, InTable, Counting
<1>4. /\ \A u \in Tasks \ {t} : state'[u] = state[u]
      /\ state'[t] # "unborn"
      /\ state[t] = "unborn" => Fork(t)
      /\ state[t] # "unborn" => ~Fork(t)
  <2>1. state \in [Tasks -> {"unborn", "listed", "unlinked", "freed"}]
    BY DEF Base, Typed
  <2>. QED
    BY <2>1 DEF Fork, Exit, Free
<1>5. CASE Fork(t)
  <2>1. state[t] = "unborn" /\ state'[t] = "listed" /\ UNCHANGED <<sections, guards, stayed, shrunk>>
    BY <1>5 DEF Fork, Base, Typed
  <2>2. Guarding'
    BY <1>4, <2>1 DEF Base, Guarding
  <2>3. ASSUME NEW c \in Callers PROVE Placed(c)' /\ InSection(c)'
    BY <1>2, <1>4, <2>1 DEF Base, Placed, InSection, Holding, Counting
  <2>4. ASSUME NEW c \in Callers PROVE Kept(c)'
    <3>1. Listed' = Listed \cup {t}
      BY <1>4, <2>1 DEF Listed
    <3>2. met'[c] \subseteq met[c] \cup {t} /\ there'[c] \subseteq Listed \cup {t}
      BY <1>5 DEF Fork, Base, Typed, Kept
    <3>. QED
      BY <1>4, <2>1, <3>1, <3>2 DEF Base, Kept, Typed
  <2>. QED
    BY <1>1, <1>3, <2>2, <2>3, <2>4 DEF Base
<1>6. CASE Exit(t)
  <2>1. /\ state[t] = "listed" /\ state'[t] = "unlinked" /\ UNCHANGED met
        /\ t \in Callers => at[t] = "over"
        /\ sections' = sections \ {t}
        /\ \A u \in Tasks \ {t} : guards'[u] = guards[u] \ {t}
        /\ guards'[t] = sections \ {t}
        /\ \A c \in Callers : /\ stayed'[c] = stayed[c] \ {t}
                              /\ there'[c] = there[c] \ {t}
                              /\ state[c] = "unborn" => shrunk'[c] = shrunk[c]
    BY <1>6 DEF Exit, Base, Typed
  <2>2. Guarding'
    BY <1>4, <2>1 DEF Base, Guarding
  <2>3. ASSUME NEW c \in Callers PROVE Placed(c)' /\ InSection(c)'
    BY <1>2, <1>4, <2>1 DEF Base, Placed, InSection, Holding, Counting
  <2>4. ASSUME NEW c \in Callers PROVE Kept(c)'
    BY <1>4, <2>1 DEF Base, Kept, Listed, Typed
  <2>. QED
    BY <1>1, <1>3, <2>2, <2>3, <2>4 DEF Base
<1>7. CASE Free(t)
  <2>1. /\ state[t] = "unlinked" /\ state'[t] = "freed" /\ guards[t] = {}
        /\ UNCHANGED <<sections, guards, stayed, shrunk, met, there>>
    BY <1>7 DEF Free, Base, Typed
  <2>2. Guarding'
    BY <1>4, <2>1 DEF Base, Guarding
  <2>3. ASSUME NEW c \in Callers PROVE Placed(c)' /\ InSection(c)'
    BY <1>2, <1>4, <2>1 DEF Base, Placed, InSection, Holding, Counting
  <2>4. ASSUME NEW c \in Callers PROVE Kept(c)'
    BY <1>4, <2>1 DEF Base, Kept, Listed, Typed
  <2>. QED
    BY <1>1, <1>3, <2>2, <2>3, <2>4 DEF Base
<1>. QED
  BY <1>5, <1>6, <1>7

------------------------------------------------------------------------------
(* The others are not disturbed by a step of a program.                    *)

\* A step of c may be one of a census; but then the calls that have met no other
\* are not under way.
LEMMA OthersUndisturbed ==
    ASSUME Base, NEW c \in Callers, Local(c), NEW d \in Callers, d # c,
           NEW rank, OfCaller(d, rank)
    PROVE  OfCaller(d, rank)'
<1>. USE DEF Local, OfCaller, kernel
<1>1. Counting' = Counting /\ InCall(d)' = InCall(d) /\ Holding(d)' = Holding(d)
  BY DEF Counting, InCall, Holding
<1>2. Listed' = Listed /\ Ring' = Ring /\ Known(d)' = Known(d)
  BY <1>1 DEF Listed, Ring, Known
<1>3. Chained(d)'
  BY <1>2, Kinds DEF Chained, Base, Typed, Ring
<1>4. Reaching(d, rank)'
  BY <1>1, <1>2 DEF Reaching
<1>5. Standing(d)'
  BY <1>1, <1>2, Kinds DEF Standing, Base, Typed, Ring
<1>6. Searching(d, rank)' /\ CountingUp(d, rank)'
  BY DEF Searching, CountingUp
<1>7. Listing(d, rank)'
  BY <1>2 DEF Listing
<1>8. Undisturbed(d, rank)'
  <2>. SUFFICES ASSUME Counting, ~overlapped'[d], at[d] \notin {"idle", "walk", "step", "end", "answer", "over", "lost"}
                PROVE  Undisturbed(d, rank)'
    BY <1>1 DEF Undisturbed
  <2>1. ~overlapped[d]
    OBVIOUS
  <2>2. \A S \in SUBSET Tasks : \A u : Weight(S, u)' = Weight(S, u)
    BY DEF Weight
  <2>3. stayed[d] \in SUBSET Tasks /\ met[d] \in SUBSET Tasks
    BY DEF Base, Typed
  <2>4. /\ Weight(stayed[d], result[d])' = Weight(stayed[d], result[d])
        /\ \A u \in Uids : Weight(stayed[d], u)' = Weight(stayed[d], u)
        /\ Weight(met[d], result[d])' = Weight(met[d], result[d])
    BY <2>3 DEF Weight
  <2>5. CASE at[d] = "returned"
    BY <2>1, <2>4, <2>5 DEF Undisturbed
  <2>6. CASE at[d] # "returned"
    <3>1. InCall(d)
      BY <2>6 DEF InCall
    <3>2. ~InCall(c)
      BY <2>1, <3>1 DEF Base, Overlaps
    <3>3. InTable' = InTable /\ count' = count
      BY <3>2 DEF InTable
    <3>4. /\ Passed(d, stayed[d], rank)' = Passed(d, stayed[d], rank)
          /\ Passed(d, met[d], rank)' = Passed(d, met[d], rank)
      BY DEF Passed
    <3>5. /\ \A u : Weight(Passed(d, stayed[d], rank), u)' = Weight(Passed(d, stayed[d], rank), u)
          /\ \A e \in InTable : Weight(Passed(d, met[d], rank), uid[e[2]])' =
                                Weight(Passed(d, met[d], rank), uid[e[2]])
      BY <3>4 DEF Weight
    <3>6. Tallying(d, rank) => Tallying(d, rank)'
      BY <3>3, <3>4, <3>5 DEF Tallying
    <3>. QED
      BY <2>1, <2>4, <3>3, <3>6 DEF Undisturbed
  <2>. QED
    BY <2>5, <2>6
<1>. QED
  BY <1>3, <1>4, <1>5, <1>6, <1>7, <1>8

------------------------------------------------------------------------------
(* A step of a program and its own part of the invariant.                  *)

\* The order does not change with a program's steps.
LEMMA OrderKept ==
    ASSUME NEW rank, NEW top, Order(rank, top), UNCHANGED <<state, next>>
    PROVE  Order(rank, top)' /\ Listed' = Listed /\ Ring' = Ring
<1>1. Listed' = Listed /\ Ring' = Ring
  BY DEF Listed, Ring
<1>. QED
  BY <1>1 DEF Order

\* A call that goes on comes to where it can have come, and past nobody that
\* has stayed.
LEMMA Onward ==
    ASSUME Base, NEW rank \in [Nodes -> Nat], NEW top, Order(rank, top),
           NEW c \in Callers, OfCaller(c, rank),
           at[c] \in {"walk", "step", "end", "visit", "tally"}, Valid(c)
    PROVE  /\ here[c] \in Known(c) \cup {"init_task"}
           /\ next[here[c]] \in Known(c) \cup {"init_task"}
           /\ next[here[c]] # "init_task" => rank[here[c]] < rank[next[here[c]]]
           /\ \A t \in stayed[c] : rank[here[c]] < rank[t] =>
                  next[here[c]] # "init_task" /\ rank[next[here[c]]] <= rank[t]
<1>. USE Kinds
<1>1. InCall(c) /\ c \notin lost /\ here[c] \in Nodes
  BY DEF InCall, Base, Placed, Typed
<1>2. here[c] \in Known(c) \cup {"init_task"}
  <2>1. CASE at[c] \in {"walk", "step", "end"}
    <3>1. ~Counting /\ ~slept[c]
      BY <2>1 DEF Base, Placed
    <3>2. here[c] \in Ring \/ c \in guards[here[c]]
      BY <2>1, <3>1 DEF OfCaller, Standing, Holding
    <3>. QED
      BY <1>1, <3>1, <3>2 DEF Known, Ring
  <2>2. CASE at[c] \notin {"walk", "step", "end"}
    BY <2>2 DEF OfCaller, Standing
  <2>. QED
    BY <2>1, <2>2
<1>3. here[c] \in Tasks => state[here[c]] # "freed"
  BY DEF Valid
<1>4. next[here[c]] # "init_task" => rank[here[c]] < rank[next[here[c]]]
  BY <1>1 DEF Order
<1>. QED
  BY <1>1, <1>2, <1>3, <1>4 DEF OfCaller, Reaching

\* When a call leaves its read section, it guards nobody any more.
LEMMA SectionLeft ==
    ASSUME Base, NEW rank \in [Nodes -> Nat], NEW top, Order(rank, top),
           NEW c \in Callers, OfCaller(c, rank),
           EndSection(c), UNCHANGED <<call, state, next, met, stayed, lost>>,
           InCall(c)' => InCall(c)
    PROVE  Chained(c)' /\ Reaching(c, rank)'
<1>. USE Kinds
<1>1. Listed' = Listed /\ Ring' = Ring /\ Counting' = Counting
  BY DEF Listed, Ring, Counting
<1>2. \A t \in Tasks : c \notin guards'[t]
  BY DEF EndSection
<1>3. Chained(c)'
  BY <1>2 DEF Chained
<1>4. ASSUME Counting PROVE Reaching(c, rank)'
  BY <1>1, <1>4 DEF OfCaller, Reaching, Known
<1>5. ASSUME ~Counting PROVE Reaching(c, rank)'
  <2>1. Known(c)' = Listed
    BY <1>1, <1>2, <1>5 DEF Known
  <2>2. \A n \in Ring : next[n] \in Ring
    BY DEF Order
  <2>3. \A n \in Ring, t \in Listed :
            rank[n] < rank[t] => next[n] # "init_task" /\ rank[next[n]] <= rank[t]
    BY DEF Order
  <2>4. stayed[c] \subseteq Listed
    BY DEF Base, Kept
  <2>. QED
    BY <2>1, <2>2, <2>3, <2>4 DEF Reaching, Ring
<1>. QED
  BY <1>3, <1>4, <1>5

\* A call begins: it has passed nobody.
LEMMA BeginOwn ==
    ASSUME Base, NEW rank \in [Nodes -> Nat], NEW top, Order(rank, top),
           NEW c \in Callers, OfCaller(c, rank), Call(c)
    PROVE  OfCaller(c, rank)'
<1>1. PICK a : Begin(c, a) /\ (call = "by_index" => a = arg[c])
  BY DEF Call
<1>. USE Kinds DEF Begin, Goto, kernel, table
<1>2. /\ at[c] = "idle" /\ c \notin lost /\ c \in Listed
      /\ at'[c] = IF Counting THEN "visit" ELSE "walk"
      /\ arg'[c] = a /\ num'[c] = 0
      /\ here'[c] = IF Counting THEN next["init_task"] ELSE "init_task"
      /\ stayed'[c] = Listed /\ (Counting => met'[c] = Listed)
      /\ UNCHANGED <<call, uid, weight, guards, count, reported, shrunk, state, next>>
      /\ Counting' = Counting
  BY <1>1 DEF Base, Typed, Listed, Counting
<1>3. Listed' = Listed /\ Ring' = Ring
  BY <1>2 DEF Listed, Ring
<1>4. \A t \in Tasks : c \notin guards[t]
  BY <1>2 DEF Base, InSection, Holding, Guarding
<1>5. Known(c)' = Listed
  BY <1>2, <1>3, <1>4 DEF Known
<1>6. /\ next["init_task"] \in Ring
      /\ \A t \in Listed : next["init_task"] # "init_task" /\ rank[next["init_task"]] <= rank[t]
      /\ rank["init_task"] = 0 /\ \A t \in Listed : rank[t] > 0
  <2>1. \A t \in Listed : rank["init_task"] < rank[t]
    BY DEF Order, Listed
  <2>. QED
    BY <2>1 DEF Order, Ring
<1>7. Chained(c)'
  BY <1>2, <1>4 DEF Chained
<1>8. Reaching(c, rank)'
  <2>1. \A n \in Ring : next[n] \in Ring
    BY DEF Order
  <2>2. \A n \in Ring, t \in Listed :
            rank[n] < rank[t] => next[n] # "init_task" /\ rank[next[n]] <= rank[t]
    BY DEF Order
  <2>. QED
    BY <1>2, <1>5, <2>1, <2>2 DEF Reaching, Ring
<1>9. Standing(c)'
  BY <1>2, <1>3, <1>5, <1>6 DEF Standing, Ring
<1>10. Searching(c, rank)'
  BY <1>2, <1>6 DEF Searching, Counting, Listed
<1>11. call = "by_index" => at'[c] = "walk" /\ arg'[c] = arg[c] /\ arg[c] \in Nat /\ here'[c] = "init_task"
  BY <1>1, <1>2 DEF Counting, Base, Typed
<1>12. CountingUp(c, rank)'
  <2>1. SUFFICES ASSUME call = "by_index" PROVE CountingUp(c, rank)'
    BY <1>2 DEF CountingUp
  <2>2. {t \in stayed[c] : rank[t] <= rank[here[c]]}' = {}
    BY <1>2, <1>6, <1>11, <2>1 DEF Listed
  <2>3. Cardinality({t \in stayed[c] : rank[t] <= rank[here[c]]})' = 0
    BY <2>2, FS_EmptySet
  <2>4. at'[c] = "walk" /\ num'[c] = 0 /\ 0 <= arg'[c]
    BY <1>2, <1>11, <2>1
  <2>5. num'[c] <= arg'[c] /\ Cardinality({t \in stayed[c] : rank[t] <= rank[here[c]]})' <= num'[c]
    BY <2>3, <2>4
  <2>. QED
    BY <2>4, <2>5 DEF CountingUp
<1>13. Listing(c, rank)'
  <2>1. SUFFICES ASSUME call = "by_index" PROVE Listing(c, rank)'
    BY <1>2 DEF Listing
  <2>2. {n \in Ring : rank[n] < rank[here[c]]}' = {}
    BY <1>3, <1>6, <1>11, <2>1 DEF Ring, Listed
  <2>3. Cardinality({n \in Ring : rank[n] < rank[here[c]]})' = 0
    BY <2>2, FS_EmptySet
  <2>. QED
    BY <1>2, <1>3, <1>11, <2>1, <2>3 DEF OfCaller, Listing, Ring
<1>14. Undisturbed(c, rank)'
  <2>1. SUFFICES ASSUME Counting, ~overlapped'[c] PROVE Tallying(c, rank)'
    BY <1>2 DEF Undisturbed
  <2>2. \A d \in Callers : ~InCall(d)
    BY <1>1, <2>1 DEF Base, Typed
  <2>3. InTable' = {}
    BY <1>2, <2>2 DEF Base, Overlaps, InTable
  <2>4. /\ here'[c] # "init_task" /\ \A t \in Listed : rank[here'[c]] <= rank[t]
        /\ here'[c] \in Nodes
    BY <1>2, <1>6, <2>1 DEF Ring, Listed
  <2>5. Passed(c, stayed[c], rank)' = {}
    BY <1>2, <2>4 DEF Passed, Listed
  <2>6. ASSUME NEW u PROVE Weight(Passed(c, stayed[c], rank), u)' = 0
    BY <2>5, FS_EmptySet DEF Weight
  <2>. QED
    BY <2>3, <2>4, <2>6 DEF Tallying
<1>. QED
  BY <1>7, <1>8, <1>9, <1>10, <1>12, <1>13, <1>14 DEF OfCaller

\* It sleeps, and guards nobody from then on.
LEMMA SleepOwn ==
    ASSUME Base, NEW rank \in [Nodes -> Nat], NEW top, Order(rank, top),
           NEW c \in Callers, OfCaller(c, rank), Sleep(c)
    PROVE  OfCaller(c, rank)'
<1>. USE Kinds DEF Sleep, kernel, walk, table
<1>1. Listed' = Listed /\ Ring' = Ring /\ Counting' = Counting /\ InCall(c)' = InCall(c)
  BY DEF Listed, Ring, Counting, InCall
<1>2. Chained(c)' /\ Reaching(c, rank)'
  BY <1>1, SectionLeft
<1>3. slept'[c] /\ at[c] \in {"answer", "visit"} /\ at[c] \notin {"walk", "step", "end"}
  BY DEF Base, Typed
<1>4. at[c] = "visit" => Counting
  BY DEF Base, Placed
<1>5. Standing(c)'
  BY <1>1, <1>3, <1>4 DEF OfCaller, Standing, Known
<1>6. Searching(c, rank)' /\ CountingUp(c, rank)' /\ Listing(c, rank)'
  BY <1>1, <1>3 DEF OfCaller, Searching, CountingUp, Listing
<1>7. Undisturbed(c, rank)'
  <2>1. InTable' = InTable
    BY DEF InTable
  <2>2. \A u : /\ Weight(Passed(c, stayed[c], rank), u)' = Weight(Passed(c, stayed[c], rank), u)
               /\ Weight(Passed(c, met[c], rank), u)' = Weight(Passed(c, met[c], rank), u)
    BY DEF Weight, Passed
  <2>3. Tallying(c, rank) => Tallying(c, rank)'
    <3>1. \A e \in InTable : Weight(Passed(c, met[c], rank), uid[e[2]])' =
                             Weight(Passed(c, met[c], rank), uid[e[2]])
      BY DEF Weight, Passed
    <3>. QED
      BY <2>1, <2>2, <3>1 DEF Tallying
  <2>. QED
    BY <1>1, <1>3, <2>1, <2>3 DEF OfCaller, Undisturbed
<1>. QED
  BY <1>2, <1>5, <1>6, <1>7 DEF OfCaller

\* It is lost, and nothing is asked of it any more.
LEMMA LoseOwn ==
    ASSUME Base, NEW rank \in [Nodes -> Nat], NEW top, Order(rank, top),
           NEW c \in Callers, OfCaller(c, rank), Lose(c)
    PROVE  OfCaller(c, rank)'
<1>. USE Kinds DEF Lose, kernel, rcu
<1>1. /\ at'[c] = "lost" /\ c \in lost'
      /\ UNCHANGED <<state, next, guards, shrunk, call>>
  BY DEF Base, Typed
<1>2. Ring' = Ring
  BY <1>1 DEF Ring, Listed
<1>3. Chained(c)'
  BY <1>1, <1>2 DEF OfCaller, Chained
<1>4. Reaching(c, rank)' /\ Standing(c)' /\ Searching(c, rank)'
  BY <1>1 DEF Reaching, Standing, Searching, Holding
<1>5. CountingUp(c, rank)' /\ Listing(c, rank)' /\ Undisturbed(c, rank)'
  BY <1>1 DEF CountingUp, Listing, Undisturbed
<1>. QED
  BY <1>3, <1>4, <1>5 DEF OfCaller

\* A step of a walk that stays in its read section.
LEMMA WalkingOwn ==
    ASSUME Base, NEW rank \in [Nodes -> Nat], NEW top, Order(rank, top),
           NEW c \in Callers, OfCaller(c, rank),
           at[c] \in {"walk", "step", "end"}, at'[c] \in {"walk", "step", "end", "answer"},
           here'[c] \in Known(c) \cup {"init_task"},
           UNCHANGED <<kernel, state, next, rcu, met, stayed, lost>>
    PROVE  Chained(c)' /\ Reaching(c, rank)' /\ Standing(c)' /\ Undisturbed(c, rank)'
<1>. USE Kinds DEF kernel, rcu
<1>1. Listed' = Listed /\ Ring' = Ring /\ Counting' = Counting /\ ~Counting
  BY DEF Listed, Ring, Counting, Base, Placed
<1>2. Known(c)' = Known(c) /\ InCall(c)
  BY <1>1 DEF Known, InCall
<1>3. Chained(c)' /\ Reaching(c, rank)'
  BY <1>1, <1>2 DEF OfCaller, Chained, Reaching
<1>4. Standing(c)'
  BY <1>1 DEF Standing, Known, Ring
<1>5. Undisturbed(c, rank)'
  BY <1>1 DEF Undisturbed
<1>. QED
  BY <1>3, <1>4, <1>5

\* At the last task of the list all the others have been passed, and before it
\* there is one more to come.
LEMMA Behind ==
    ASSUME NEW rank \in [Nodes -> Nat], NEW top, Order(rank, top), next \in [Nodes -> Nodes],
           NEW n \in Ring
    PROVE  /\ next[n] = "init_task" =>
                  Cardinality(Ring) = Cardinality({m \in Ring : rank[m] < rank[n]}) + 1
           /\ next[n] # "init_task" =>
                  Cardinality({m \in Ring : rank[m] < rank[n]}) + 1 < Cardinality(Ring)
<1>. USE Kinds
<1>. DEFINE S == {m \in Ring : rank[m] < rank[n]}
<1>1. Ring \in SUBSET Nodes /\ S \in SUBSET Ring /\ S \in SUBSET Nodes /\ n \in Nodes
  BY DEF Ring, Listed
<1>2. n \notin S /\ rank[n] \in Nat /\ next[n] \in Ring
  BY <1>1 DEF Order
<1>3. Cardinality(S \cup {n}) = Cardinality(S) + 1 /\ Cardinality(S) \in Nat
  <2>. HIDE DEF S
  <2>. QED
    BY <1>1, <1>2, OneMore
<1>4. ASSUME next[n] = "init_task" PROVE Ring = S \cup {n}
  <2>1. ASSUME NEW m \in Ring PROVE m \in S \cup {n}
    <3>1. rank[m] \in Nat /\ rank["init_task"] = 0
      BY <1>1 DEF Order
    <3>2. ~(rank[n] < rank[m])
      BY <1>2, <1>4, <3>1 DEF Order, Ring
    <3>3. rank[m] = rank[n] => m = n
      BY DEF Order, Ring, Listed
    <3>. QED
      BY <1>2, <3>1, <3>2, <3>3
  <2>. QED
    BY <1>1, <2>1
<1>5. ASSUME next[n] # "init_task" PROVE Cardinality(S) + 1 < Cardinality(Ring)
  <2>1. rank[n] < rank[next[n]] /\ rank[next[n]] \in Nat
    BY <1>1, <1>2, <1>5 DEF Order
  <2>2. next[n] \notin S \cup {n}
    <3>1. ~(rank[next[n]] < rank[n]) /\ next[n] # n
      BY <1>2, <2>1
    <3>. QED
      BY <3>1
  <2>3. (S \cup {n}) \cup {next[n]} \in SUBSET Ring /\ S \cup {n} \in SUBSET Nodes
    BY <1>1, <1>2
  <2>. HIDE DEF S
  <2>4. Cardinality((S \cup {n}) \cup {next[n]}) = Cardinality(S \cup {n}) + 1
    BY <1>1, <1>2, <2>2, <2>3, OneMore
  <2>5. Cardinality((S \cup {n}) \cup {next[n]}) <= Cardinality(Ring) /\ Cardinality(Ring) \in Nat
    BY <1>1, <2>3, NodeSets
  <2>. QED
    BY <1>3, <2>4, <2>5
<1>. HIDE DEF S
<1>6. next[n] = "init_task" => Cardinality(Ring) = Cardinality(S) + 1
  BY <1>3, <1>4
<1>7. next[n] # "init_task" => Cardinality(S) + 1 < Cardinality(Ring)
  BY <1>5
<1>. QED
  BY <1>6, <1>7 DEF S

\* A walk is at a task that has been forked, and no other has the same age.
LEMMA OneOfAge ==
    ASSUME Base, NEW rank \in [Nodes -> Nat], NEW top, Order(rank, top),
           NEW c \in Callers, OfCaller(c, rank), at[c] \in {"walk", "step", "end"},
           NEW t \in Listed
    PROVE  /\ here[c] \in Nodes /\ rank[here[c]] \in Nat /\ rank[t] \in Nat
           /\ rank[here[c]] = rank[t] => here[c] = t
<1>. USE Kinds
<1>1. here[c] \in Nodes /\ rank[here[c]] \in Nat /\ t \in Tasks /\ rank[t] \in Nat
  BY DEF Base, Typed, Listed
<1>2. here[c] = "init_task" \/ state[here[c]] # "unborn"
  <2>1. ~slept[c] /\ Holding(c)
    BY DEF Base, Placed, Holding
  <2>2. here[c] \in Ring \/ c \in guards[here[c]]
    BY <2>1 DEF OfCaller, Standing
  <2>. QED
    BY <1>1, <2>2 DEF Ring, Listed, Base, Guarding
<1>3. state[t] # "unborn" /\ rank[t] > 0
  BY <1>1 DEF Order, Listed
<1>. QED
  BY <1>1, <1>2, <1>3 DEF Order

\* The loop is tested.  It goes on while somebody that has stayed is ahead, and
\* ends early only if somebody has exited.
LEMMA TestOwn ==
    ASSUME Base, NEW rank \in [Nodes -> Nat], NEW top, Order(rank, top),
           NEW c \in Callers, OfCaller(c, rank), Test(c)
    PROVE  OfCaller(c, rank)'
<1>. USE Kinds DEF Test, Goto, kernel, rcu, table, history
<1>1. /\ at[c] = "walk" /\ at'[c] = (IF GoesOn(c) THEN "step" ELSE "end") /\ c \notin lost
      /\ here'[c] = here[c] /\ here[c] \in Nodes
      /\ UNCHANGED <<call, state, next, arg, num, here, result, stayed, reported, shrunk, there>>
  BY DEF Base, Typed
<1>2. /\ here[c] \in Known(c) \cup {"init_task"}
      /\ \A t \in stayed[c] : rank[here[c]] < rank[t] => next[here[c]] # "init_task"
  BY <1>1, Onward
<1>3. Chained(c)' /\ Reaching(c, rank)' /\ Standing(c)' /\ Undisturbed(c, rank)'
  BY <1>1, <1>2, WalkingOwn
<1>4. Listed' = Listed /\ Ring' = Ring
  BY <1>1 DEF Listed, Ring
<1>5. Searching(c, rank)'
  <2>1. SUFFICES ASSUME call = "by_pid", arg[c] \in stayed[c]
                 PROVE  IF GoesOn(c) THEN rank[here[c]] < rank[arg[c]] ELSE here[c] = arg[c]
    BY <1>1 DEF Searching
  <2>2. rank[here[c]] <= rank[arg[c]] /\ arg[c] \in Listed
    BY <1>1, <2>1 DEF OfCaller, Searching, Base, Kept
  <2>3. here[c] # arg[c] => rank[here[c]] < rank[arg[c]]
    BY <1>1, <2>2, OneOfAge
  <2>. QED
    BY <1>2, <2>1, <2>3 DEF GoesOn
<1>6. CountingUp(c, rank)'
  <2>1. call = "by_index" /\ GoesOn(c) => num[c] < arg[c]
    BY DEF GoesOn
  <2>. QED
    BY <1>1, <2>1 DEF OfCaller, CountingUp
<1>7. Listing(c, rank)'
  <2>1. SUFFICES ASSUME call = "by_index", ~shrunk[c] PROVE Listing(c, rank)'
    BY <1>1 DEF Listing
  <2>2. /\ here[c] \in Ring
        /\ Cardinality({n \in Ring : rank[n] < rank[here[c]]}) = num[c]
        /\ arg[c] < Cardinality(Ring)
        /\ num[c] <= arg[c] /\ num[c] \in Nat /\ arg[c] \in Nat
    BY <1>1, <2>1 DEF OfCaller, Listing, CountingUp, Base, Typed
  <2>3. ASSUME ~GoesOn(c) PROVE num[c] = arg[c]
    <3>1. CASE next[here[c]] = "init_task"
      <4>1. next \in [Nodes -> Nodes]
        BY DEF Base, Typed
      <4>2. Cardinality(Ring) = num[c] + 1
        BY <2>2, <3>1, <4>1, Behind
      <4>. QED
        BY <2>2, <4>2
    <3>2. CASE next[here[c]] # "init_task"
      BY <2>1, <2>2, <2>3, <3>2 DEF GoesOn
    <3>. QED
      BY <3>1, <3>2
  <2>4. at'[c] \in {"step", "end"} /\ (at'[c] = "end" => num[c] = arg[c])
    BY <1>1, <2>3
  <2>. QED
    BY <1>1, <1>4, <2>1, <2>4 DEF OfCaller, Listing
<1>. QED
  BY <1>3, <1>5, <1>6, <1>7 DEF OfCaller

\* A walk goes to the next task: whoever is between has not stayed.  It goes back
\* to init_task only if somebody has exited, and begins anew.
LEMMA AdvanceOwn ==
    ASSUME Base, NEW rank \in [Nodes -> Nat], NEW top, Order(rank, top),
           NEW c \in Callers, OfCaller(c, rank), Advance(c)
    PROVE  OfCaller(c, rank)'
<1>. USE Kinds DEF Advance, Goto, kernel, rcu, table, history
<1>1. /\ at[c] = "step" /\ at'[c] = "walk" /\ c \notin lost
      /\ here'[c] = next[here[c]] /\ here[c] \in Nodes /\ next[here[c]] \in Nodes
      /\ UNCHANGED <<call, state, next, arg, result, stayed, reported, shrunk, there>>
  BY DEF Base, Typed
<1>2. /\ next[here[c]] \in Known(c) \cup {"init_task"}
      /\ next[here[c]] # "init_task" => rank[here[c]] < rank[next[here[c]]]
      /\ \A t \in stayed[c] : rank[here[c]] < rank[t] =>
             next[here[c]] # "init_task" /\ rank[next[here[c]]] <= rank[t]
  BY <1>1, Onward
<1>3. Chained(c)' /\ Reaching(c, rank)' /\ Standing(c)' /\ Undisturbed(c, rank)'
  BY <1>1, <1>2, WalkingOwn
<1>4. Listed' = Listed /\ Ring' = Ring
  BY <1>1 DEF Listed, Ring
<1>5. stayed[c] \subseteq Listed /\ Listed \subseteq Tasks
  BY DEF Base, Kept, Listed
<1>6. \A m, n \in Ring : rank[m] = rank[n] => m = n
  BY DEF Order, Ring, Listed
<1>7. Searching(c, rank)'
  BY <1>1, <1>2 DEF OfCaller, Searching
<1>8. CountingUp(c, rank)'
  <2>1. SUFFICES ASSUME call = "by_index" PROVE CountingUp(c, rank)'
    BY <1>1 DEF CountingUp
  <2>2. num'[c] = num[c] + 1 /\ num[c] < arg[c] /\ num[c] \in Nat /\ arg[c] \in Nat
    BY <1>1, <2>1 DEF OfCaller, CountingUp, Base, Typed
  <2>. DEFINE S == {t \in stayed[c] : rank[t] <= rank[here[c]]}
              T == {t \in stayed[c] : rank[t] <= rank[next[here[c]]]}
  <2>3. Cardinality(S) <= num[c] /\ Cardinality(S) \in Nat
    <3>1. S \subseteq Nodes
      BY <1>5
    <3>2. Cardinality(S) <= num[c]
      BY <1>1, <2>1 DEF OfCaller, CountingUp
    <3>. QED
      BY <3>1, <3>2, NodeSets
  <2>4. T \subseteq S \cup {next[here[c]]}
    <3>1. ASSUME NEW t \in stayed[c], rank[t] <= rank[next[here[c]]], ~(rank[t] <= rank[here[c]])
          PROVE  t = next[here[c]]
      <4>1. rank[t] \in Nat /\ rank[here[c]] \in Nat /\ rank[next[here[c]]] \in Nat
        BY <1>1, <1>5
      <4>2. rank[t] = rank[next[here[c]]] /\ next[here[c]] # "init_task"
        BY <1>2, <3>1, <4>1
      <4>3. state[next[here[c]]] # "unborn" /\ next[here[c]] \in Tasks
        BY <1>1, <1>2, <2>1, <4>2 DEF Known, Counting, Listed, Base, Guarding
      <4>. QED
        BY <1>5, <4>2, <4>3 DEF Order, Listed
    <3>. QED
      BY <3>1
  <2>5. Cardinality(T) <= num[c] + 1
    <3>1. S \in SUBSET Nodes /\ next[here[c]] \in Nodes
      BY <1>1, <1>5
    <3>. HIDE DEF S
    <3>2. Cardinality(S \cup {next[here[c]]}) <= num[c] + 1
      <4>1. /\ Cardinality(S \cup {next[here[c]]}) \in Nat
            /\ Cardinality(S \cup {next[here[c]]}) <= Cardinality(S) + 1
        BY <3>1, OneMore
      <4>. QED
        BY <2>2, <2>3, <4>1
    <3>3. S \cup {next[here[c]]} \subseteq Nodes
      BY <3>1
    <3>4. Cardinality(T) <= Cardinality(S \cup {next[here[c]]}) /\ Cardinality(T) \in Nat
          /\ Cardinality(S \cup {next[here[c]]}) \in Nat
      BY <2>4, <3>3, NodeSets
    <3>. QED
      BY <2>2, <3>2, <3>4
  <2>6. T = {t \in stayed[c] : rank[t] <= rank[here[c]]}'
    BY <1>1
  <2>7. Cardinality({t \in stayed[c] : rank[t] <= rank[here[c]]})' <= num'[c]
    BY <2>2, <2>5, <2>6
  <2>8. num'[c] <= arg'[c]
    BY <1>1, <2>2
  <2>. HIDE DEF T, S
  <2>. QED
    BY <1>1, <2>7, <2>8 DEF CountingUp
<1>9. Listing(c, rank)'
  <2>1. SUFFICES ASSUME call = "by_index", ~shrunk[c] PROVE Listing(c, rank)'
    BY <1>1 DEF Listing
  <2>2. num'[c] = num[c] + 1 /\ num[c] < arg[c] /\ num[c] \in Nat /\ arg[c] \in Nat
    BY <1>1, <2>1 DEF OfCaller, CountingUp, Base, Typed
  <2>. DEFINE S == {n \in Ring : rank[n] < rank[here[c]]}
              T == {n \in Ring : rank[n] < rank[next[here[c]]]}
  <2>3. /\ here[c] \in Ring
        /\ Cardinality(S) = num[c]
        /\ arg[c] < Cardinality(Ring)
    BY <1>1, <2>1 DEF OfCaller, Listing
  <2>. HIDE DEF S, T
  <2>11. next[here[c]] # "init_task"
    <3>1. SUFFICES ASSUME next[here[c]] = "init_task" PROVE Cardinality(Ring) = num[c] + 1
      BY <2>2, <2>3
    <3>2. next \in [Nodes -> Nodes]
      BY DEF Base, Typed
    <3>. QED
      BY <2>3, <3>1, <3>2, Behind DEF S
  <2>12. rank[here[c]] < rank[next[here[c]]]
    BY <1>2, <2>11
  <2>. USE DEF S, T
  <2>4. Ring \subseteq Nodes
    BY DEF Ring, Listed
  <2>5. next[here[c]] \in Ring
    BY <2>3 DEF Order
  <2>6. T = S \cup {here[c]} /\ here[c] \notin S
    <3>1. ASSUME NEW n \in Ring, rank[n] < rank[next[here[c]]], ~(rank[n] < rank[here[c]])
          PROVE  n = here[c]
      <4>1. rank[n] \in Nat /\ rank[here[c]] \in Nat /\ rank[next[here[c]]] \in Nat
        BY <1>1, <2>4
      <4>2. CASE rank[here[c]] < rank[n]
        <5>1. n \in Listed
          BY <4>1, <4>2 DEF Ring, Order
        <5>2. rank[next[here[c]]] <= rank[n]
          BY <2>3, <4>2, <5>1 DEF Order
        <5>. QED
          BY <3>1, <4>1, <5>2
      <4>3. CASE rank[here[c]] = rank[n]
        BY <1>6, <2>3, <4>3
      <4>. QED
        BY <3>1, <4>1, <4>2, <4>3
    <3>2. \A n \in S : rank[n] < rank[next[here[c]]]
      <4>1. ASSUME NEW n \in Ring, rank[n] < rank[here[c]] PROVE rank[n] < rank[next[here[c]]]
        BY <1>1, <2>4, <2>12, <4>1
      <4>. QED
        BY <4>1
    <3>3. here[c] \in T /\ here[c] \notin S
      BY <1>1, <2>3, <2>12
    <3>. QED
      BY <3>1, <3>2, <3>3
  <2>7. Cardinality(T) = num[c] + 1
    <3>1. IsFiniteSet(S)
      BY <2>4, NodeSets
    <3>2. Cardinality(S \cup {here[c]}) = Cardinality(S) + 1
      BY <2>6, <3>1, FS_AddElement
    <3>. QED
      BY <2>3, <2>6, <3>2
  <2>8. T = {n \in Ring : rank[n] < rank[here[c]]}'
    BY <1>1, <1>4
  <2>9. here'[c] \in Ring' /\ Cardinality({n \in Ring : rank[n] < rank[here[c]]})' = num'[c]
    <3>. HIDE DEF S, T
    <3>1. Cardinality(T) = num'[c]
      BY <2>2, <2>7
    <3>2. here'[c] \in Ring'
      BY <1>1, <1>4, <2>5
    <3>. QED
      BY <2>8, <3>1, <3>2
  <2>10. /\ reported'[c] \subseteq Ring'
         /\ \A m \in reported'[c], n \in Ring' : rank[n] < rank[m] => n \in reported'[c]
         /\ Cardinality(reported'[c]) = arg'[c]
    BY <1>1, <1>4, <2>1 DEF OfCaller, Listing
  <2>. HIDE DEF S, T
  <2>13. arg'[c] < Cardinality(Ring')
    BY <1>1, <1>4, <2>3
  <2>. QED
    BY <1>1, <2>9, <2>10, <2>13 DEF Listing
<1>. QED
  BY <1>3, <1>7, <1>8, <1>9 DEF OfCaller

\* A walk by index or by PID comes to the task that is the answer.
LEMMA FoundOwn ==
    ASSUME Base, NEW rank \in [Nodes -> Nat], NEW top, Order(rank, top),
           NEW c \in Callers, OfCaller(c, rank), Found(c)
    PROVE  OfCaller(c, rank)'
<1>. USE Kinds DEF Found, Goto, kernel, rcu, table, history
<1>1. /\ at[c] = "end" /\ at'[c] = "answer" /\ c \notin lost
      /\ here'[c] = here[c]
      /\ UNCHANGED <<call, state, next, arg, num, here, result, stayed, reported, shrunk, there>>
  BY DEF Base, Typed
<1>2. here[c] \in Known(c) \cup {"init_task"}
  BY <1>1, Onward
<1>3. Chained(c)' /\ Reaching(c, rank)' /\ Standing(c)' /\ Undisturbed(c, rank)'
  BY <1>1, <1>2, WalkingOwn
<1>4. Listed' = Listed /\ Ring' = Ring
  BY <1>1 DEF Listed, Ring
<1>5. Searching(c, rank)'
  BY <1>1 DEF Searching
<1>6. CountingUp(c, rank)'
  BY <1>1 DEF CountingUp
<1>7. Listing(c, rank)'
  <2>1. SUFFICES ASSUME call = "by_index", ~shrunk[c] PROVE Listing(c, rank)'
    BY <1>1 DEF Listing
  <2>2. /\ here[c] \in Ring
        /\ Cardinality({n \in Ring : rank[n] < rank[here[c]]}) = num[c]
        /\ num[c] = arg[c]
    BY <1>1, <2>1 DEF OfCaller, Listing
  <2>3. arg[c] + 1 < Cardinality(Ring)
    <3>1. CASE next[here[c]] # "init_task"
      <4>1. next \in [Nodes -> Nodes]
        BY DEF Base, Typed
      <4>. QED
        BY <2>2, <3>1, <4>1, Behind
    <3>2. CASE next[here[c]] = "init_task"
      <4>1. arg[c] = 0
        BY <2>1, <3>2 DEF IsAnswer
      <4>2. c \in Listed /\ {"init_task"} \in SUBSET Nodes /\ c \in Nodes /\ c # "init_task"
        BY <1>1 DEF Base, Placed, Listed
      <4>3. {"init_task"} \cup {c} \subseteq Ring /\ Ring \in SUBSET Nodes
        BY <4>2 DEF Ring, Listed
      <4>4. Cardinality({"init_task"} \cup {c}) = 2
        BY <4>2, Two
      <4>5. 2 <= Cardinality(Ring) /\ Cardinality(Ring) \in Nat
        BY <4>3, <4>4, NodeSets
      <4>. QED
        BY <4>1, <4>5
    <3>. QED
      BY <3>1, <3>2
  <2>. QED
    BY <1>1, <1>4, <2>1, <2>3 DEF OfCaller, Listing
<1>. QED
  BY <1>3, <1>5, <1>6, <1>7 DEF OfCaller

\* Of two sets of the oldest, the one that is not larger is part of the other.
LEMMA Oldest ==
    ASSUME NEW rank \in [Nodes -> Nat], NEW top, Order(rank, top),
           NEW S \in SUBSET Ring, NEW T \in SUBSET Ring, Cardinality(S) <= Cardinality(T),
           \A m \in S, n \in Ring : rank[n] < rank[m] => n \in S,
           \A m \in T, n \in Ring : rank[n] < rank[m] => n \in T
    PROVE  S \subseteq T
<1>1. SUFFICES ASSUME NEW x \in S, x \notin T PROVE FALSE
  OBVIOUS
<1>2. Ring \subseteq Nodes
  BY Kinds DEF Ring, Listed
<1>3. ASSUME NEW m \in T PROVE m \in S
  <2>1. rank[x] \in Nat /\ rank[m] \in Nat /\ m # x /\ ~(rank[x] < rank[m])
    BY <1>1, <1>2
  <2>2. rank[x] # rank[m]
    BY <1>1, <2>1, Kinds DEF Order, Ring, Listed
  <2>. QED
    BY <2>1, <2>2
<1>4. T \subseteq S /\ S \in SUBSET Nodes
  BY <1>2, <1>3
<1>5. Cardinality(T) <= Cardinality(S) /\ Cardinality(T) \in Nat /\ Cardinality(S) \in Nat
      /\ (Cardinality(T) = Cardinality(S) => T = S)
  BY <1>4, NodeSets
<1>. QED
  BY <1>1, <1>5

\* The walk has come to the end of the list.
LEMMA NotFoundOwn ==
    ASSUME Base, NEW rank \in [Nodes -> Nat], NEW top, Order(rank, top),
           NEW c \in Callers, OfCaller(c, rank), NotFound(c)
    PROVE  OfCaller(c, rank)'
<1>. USE Kinds DEF NotFound, Goto, kernel, table, history
<1>1. /\ at[c] = "end" /\ at'[c] = "returned" /\ c \notin lost /\ result'[c] = "3"
      /\ here[c] \in Nodes
      /\ UNCHANGED <<call, state, next, arg, num, here, stayed, met, reported, shrunk, there>>
  BY DEF Base, Typed
<1>2. Listed' = Listed /\ Ring' = Ring /\ Counting' = Counting /\ ~Counting
  BY <1>1 DEF Listed, Ring, Counting, Base, Placed
<1>3. Chained(c)'
  <2>1. UNCHANGED guards \/ \A t \in Tasks : c \notin guards'[t]
    BY DEF rcu, EndSection
  <2>. QED
    BY <1>1, <1>2, <2>1 DEF OfCaller, Chained
<1>4. Reaching(c, rank)' /\ Standing(c)' /\ Undisturbed(c, rank)'
  BY <1>1, <1>2 DEF Reaching, Standing, Undisturbed, InCall, Holding
<1>5. \A t \in stayed[c] : rank[here[c]] < rank[t] => next[here[c]] # "init_task"
  BY <1>1, Onward
<1>6. stayed[c] \subseteq Listed /\ Listed \subseteq Tasks
  BY DEF Base, Kept, Listed
<1>8. Searching(c, rank)'
  BY <1>1 DEF IsAnswer, OfCaller, Searching
<1>9. call = "by_index" => /\ next[here[c]] = "init_task"
                           /\ num[c] <= arg[c] /\ num[c] \in Nat /\ arg[c] \in Nat
  BY <1>1 DEF IsAnswer, OfCaller, CountingUp, Base, Typed
<1>10. CountingUp(c, rank)'
  <2>1. SUFFICES ASSUME call = "by_index" PROVE Cardinality(stayed[c]) <= arg[c]
    BY <1>1 DEF CountingUp
  <2>2. ASSUME NEW t \in stayed[c] PROVE rank[t] <= rank[here[c]]
    <3>1. rank[t] \in Nat /\ rank[here[c]] \in Nat
      BY <1>1, <1>6
    <3>. QED
      BY <1>5, <1>9, <2>1, <3>1
  <2>. DEFINE S == {t \in stayed[c] : rank[t] <= rank[here[c]]}
  <2>3. stayed[c] = S
    BY <2>2
  <2>4. Cardinality(S) <= num[c]
    BY <1>1, <2>1 DEF OfCaller, CountingUp
  <2>. HIDE DEF S
  <2>5. Cardinality(stayed[c]) \in Nat
    BY <1>6, NodeSets
  <2>. QED
    BY <1>9, <2>1, <2>3, <2>4, <2>5
<1>11. Listing(c, rank)'
  <2>1. SUFFICES ASSUME call = "by_index", ~shrunk[c] PROVE Listing(c, rank)'
    BY <1>1 DEF Listing
  <2>. DEFINE S == {n \in Ring : rank[n] < rank[here[c]]}
  <2>2. /\ reported[c] \subseteq Ring
        /\ \A m \in reported[c], n \in Ring : rank[n] < rank[m] => n \in reported[c]
        /\ Cardinality(reported[c]) = arg[c]
        /\ here[c] \in Ring
        /\ Cardinality(S) = num[c]
    BY <1>1, <2>1 DEF OfCaller, Listing
  <2>3. Ring \subseteq Nodes /\ S \subseteq Ring
    BY <1>6 DEF Ring
  <2>4. \A m \in S, n \in Ring : rank[n] < rank[m] => n \in S
    <3>1. ASSUME NEW m \in S, NEW n \in Ring, rank[n] < rank[m] PROVE n \in S
      <4>1. rank[n] \in Nat /\ rank[m] \in Nat /\ rank[here[c]] \in Nat
        BY <1>1, <2>3
      <4>. QED
        BY <3>1, <4>1
    <3>. QED
      BY <3>1
  <2>5. S \subseteq reported[c]
    <3>. HIDE DEF S
    <3>1. Cardinality(S) <= Cardinality(reported[c])
      BY <1>9, <2>1, <2>2
    <3>. QED
      BY <2>2, <2>3, <2>4, <3>1, Oldest
  <2>6. ASSUME NEW t \in there[c] PROVE t \in reported[c] \cup {here[c]}
    <3>1. t \in Listed
      BY DEF Base, Kept
    <3>2. ~(rank[here[c]] < rank[t])
      BY <1>9, <2>1, <2>2, <3>1 DEF Order
    <3>3. rank[t] \in Nat /\ rank[here[c]] \in Nat
      BY <1>1, <1>6, <3>1
    <3>4. rank[t] = rank[here[c]] => t = here[c]
      BY <2>2, <3>1 DEF Order, Ring, Listed
    <3>5. rank[t] < rank[here[c]] => t \in S
      BY <3>1 DEF Ring
    <3>. QED
      BY <2>5, <3>2, <3>3, <3>4, <3>5
  <2>. HIDE DEF S
  <2>. QED
    BY <1>1, <1>2, <2>1, <2>2, <2>6 DEF Listing
<1>. QED
  BY <1>3, <1>4, <1>8, <1>10, <1>11 DEF OfCaller

\* The name of the task is copied: it was older than all that had not been
\* reported.
LEMMA AnswerOwn ==
    ASSUME Base, NEW rank \in [Nodes -> Nat], NEW top, Order(rank, top),
           NEW c \in Callers, OfCaller(c, rank), Answer(c)
    PROVE  OfCaller(c, rank)'
<1>. USE Kinds DEF Answer, Goto, rcu_read_unlock, kernel, table
<1>1. /\ at[c] = "answer" /\ at'[c] = "returned" /\ c \notin lost /\ result'[c] = "name"
      /\ here[c] \in Nodes
      /\ reported'[c] = reported[c] \cup {here[c]}
      /\ UNCHANGED <<call, state, next, arg, num, here, stayed, met, shrunk, there>>
  BY DEF Base, Typed
<1>2. Listed' = Listed /\ Ring' = Ring /\ Counting' = Counting /\ ~Counting
  BY <1>1 DEF Listed, Ring, Counting, Base, Placed
<1>3. Chained(c)' /\ Reaching(c, rank)'
  <2>1. ~InCall(c)'
    BY <1>1 DEF InCall
  <2>. QED
    BY <1>1, <2>1, SectionLeft
<1>4. Standing(c)' /\ Undisturbed(c, rank)' /\ Searching(c, rank)' /\ CountingUp(c, rank)'
  BY <1>1, <1>2 DEF Standing, Undisturbed, Holding, Searching, CountingUp
<1>5. Listing(c, rank)'
  <2>1. SUFFICES ASSUME call = "by_index", ~shrunk[c] PROVE Listing(c, rank)'
    BY <1>1 DEF Listing
  <2>. DEFINE S == {n \in Ring : rank[n] < rank[here[c]]}
  <2>2. /\ reported[c] \in SUBSET Ring
        /\ \A m \in reported[c], n \in Ring : rank[n] < rank[m] => n \in reported[c]
        /\ Cardinality(reported[c]) = arg[c]
        /\ here[c] \in Ring
        /\ Cardinality(S) = num[c]
        /\ num[c] = arg[c]
        /\ arg[c] + 1 < Cardinality(Ring)
    BY <1>1, <2>1 DEF OfCaller, Listing
  <2>3. Ring \subseteq Nodes /\ S \in SUBSET Ring /\ here[c] \notin S
    BY <1>1 DEF Ring, Listed
  <2>4. \A m \in S, n \in Ring : rank[n] < rank[m] => n \in S
    <3>1. ASSUME NEW m \in S, NEW n \in Ring, rank[n] < rank[m] PROVE n \in S
      <4>1. rank[n] \in Nat /\ rank[m] \in Nat /\ rank[here[c]] \in Nat
        BY <1>1, <2>3
      <4>. QED
        BY <3>1, <4>1
    <3>. QED
      BY <3>1
  <2>5. \A n \in Ring : rank[n] < rank[here[c]] => n \in S
    OBVIOUS
  <2>. HIDE DEF S
  <2>6. Cardinality(S) = Cardinality(reported[c]) /\ Cardinality(S) \in Nat
        /\ Cardinality(S) <= Cardinality(reported[c]) /\ Cardinality(reported[c]) <= Cardinality(S)
    <3>1. Cardinality(S) \in Nat
      BY <2>3, NodeSets
    <3>. QED
      BY <2>2, <3>1
  <2>7. S = reported[c]
    <3>1. S \subseteq reported[c]
      BY <2>2, <2>3, <2>4, <2>6, Oldest
    <3>2. reported[c] \subseteq S
      BY <2>2, <2>3, <2>4, <2>6, Oldest
    <3>. QED
      BY <3>1, <3>2
  <2>8. Cardinality(S \cup {here[c]}) = Cardinality(S) + 1
    BY <1>1, <2>3, OneMore
  <2>9. \A m \in S \cup {here[c]}, n \in Ring : rank[n] < rank[m] => n \in S \cup {here[c]}
    BY <2>4, <2>5
  <2>10. reported'[c] = S \cup {here[c]} /\ reported'[c] \subseteq Ring
         /\ Cardinality(reported'[c]) = arg'[c] + 1 /\ arg'[c] + 1 < Cardinality(Ring)
    BY <1>1, <2>2, <2>3, <2>6, <2>7, <2>8
  <2>. QED
    BY <1>1, <1>2, <2>9, <2>10 DEF Listing
<1>. QED
  BY <1>3, <1>4, <1>5 DEF OfCaller

\* The test program takes the answer.
LEMMA ContinueOwn ==
    ASSUME Base, NEW rank \in [Nodes -> Nat], NEW top, Order(rank, top),
           NEW c \in Callers, OfCaller(c, rank), Continue(c)
    PROVE  OfCaller(c, rank)'
<1>. USE Kinds DEF Continue, Goto, kernel, rcu, table
<1>1. /\ at[c] = "returned" /\ at'[c] \in {"idle", "over"} /\ c \notin lost
      /\ at'[c] = "idle" => call = "by_index" /\ result[c] = "name" /\ arg'[c] = arg[c] + 1
      /\ UNCHANGED <<call, state, next, guards, shrunk, there, reported>>
  BY DEF Base, Typed
<1>2. Listed' = Listed /\ Ring' = Ring /\ Counting' = Counting
  BY <1>1 DEF Listed, Ring, Counting
<1>3. Chained(c)' /\ Reaching(c, rank)' /\ Standing(c)'
  BY <1>1, <1>2 DEF OfCaller, Chained, Reaching, Standing, InCall, Holding
<1>4. Searching(c, rank)' /\ CountingUp(c, rank)' /\ Undisturbed(c, rank)'
  BY <1>1 DEF Searching, CountingUp, Undisturbed
<1>5. Listing(c, rank)'
  BY <1>1, <1>2 DEF OfCaller, Listing
<1>. QED
  BY <1>3, <1>4, <1>5 DEF OfCaller

------------------------------------------------------------------------------
(* A step of a census and its own part of the invariant.                   *)

\* A task more counts for its user and for nobody else, and only once.
LEMMA Weights ==
    ASSUME Typed, NEW T \in SUBSET Tasks, NEW h \in Tasks, NEW u
    PROVE  /\ Weight(T, u) \in Nat
           /\ \A S \in SUBSET T : Weight(S, u) \in Nat /\ Weight(S, u) <= Weight(T, u)
           /\ Weight(T \cup {h}, u) =
                 Weight(T, u) + IF h \notin T /\ uid[h] = u THEN weight[h] ELSE 0
<1>. DEFINE Of(S) == {t \in S : uid[t] = u /\ weight[t] = 1}
<1>1. \A S : Weight(S, u) = Cardinality(Of(S))
  BY DEF Weight
<1>2. \A S \in SUBSET T : Of(S) \subseteq Of(T) /\ Of(T) \subseteq Nodes
  BY Kinds
<1>3. Of(T \cup {h}) = IF uid[h] = u /\ weight[h] = 1 THEN Of(T) \cup {h} ELSE Of(T)
  OBVIOUS
<1>4. h \in Of(T) => h \in T
  OBVIOUS
<1>5. h \in T /\ uid[h] = u /\ weight[h] = 1 => h \in Of(T)
  OBVIOUS
<1>6. weight[h] \in {0, 1} /\ h \in Nodes
  BY Kinds DEF Typed
<1>. HIDE DEF Of
<1>7. /\ Cardinality(Of(T)) \in Nat
      /\ \A S \in SUBSET T : Cardinality(Of(S)) \in Nat /\ Cardinality(Of(S)) <= Cardinality(Of(T))
  BY <1>2, NodeSets
<1>8. /\ h \notin Of(T) => Cardinality(Of(T) \cup {h}) = Cardinality(Of(T)) + 1
      /\ h \in Of(T) => Of(T) \cup {h} = Of(T)
  BY <1>2, <1>6, OneMore
<1>9. Cardinality(Of(T \cup {h})) =
          Cardinality(Of(T)) + IF h \notin T /\ uid[h] = u THEN weight[h] ELSE 0
  <2>1. CASE uid[h] = u /\ weight[h] = 1 /\ h \notin T
    <3>1. Of(T \cup {h}) = Of(T) \cup {h} /\ h \notin Of(T)
      BY <1>3, <1>4, <2>1
    <3>. QED
      BY <1>8, <2>1, <3>1
  <2>2. CASE uid[h] = u /\ weight[h] = 1 /\ h \in T
    <3>1. Of(T \cup {h}) = Of(T)
      BY <1>3, <1>5, <1>8, <2>2
    <3>. QED
      BY <1>7, <2>2, <3>1
  <2>3. CASE ~(uid[h] = u /\ weight[h] = 1)
    <3>1. Of(T \cup {h}) = Of(T)
      BY <1>3, <2>3
    <3>. QED
      BY <1>6, <1>7, <2>3, <3>1
  <2>. QED
    BY <2>1, <2>2, <2>3
<1>. QED
  BY <1>1, <1>7, <1>9

\* What a census cannot disturb.
LEMMA CountingOwn ==
    ASSUME Base, NEW rank \in [Nodes -> Nat], NEW c \in Callers, OfCaller(c, rank), Counting,
           UNCHANGED <<kernel, state, next, met, stayed, lost>>, InCall(c)' => InCall(c)
    PROVE  /\ Reaching(c, rank)' /\ Searching(c, rank)' /\ CountingUp(c, rank)' /\ Listing(c, rank)'
           /\ UNCHANGED rcu => Chained(c)'
<1>. USE DEF kernel, rcu
<1>1. Counting' /\ Listed' = Listed /\ Ring' = Ring
  BY DEF Counting, Listed, Ring
<1>2. Searching(c, rank)' /\ CountingUp(c, rank)' /\ Listing(c, rank)'
  BY <1>1 DEF Counting, Searching, CountingUp, Listing
<1>3. Reaching(c, rank)'
  BY <1>1 DEF OfCaller, Reaching, Known
<1>4. UNCHANGED rcu => Chained(c)'
  BY <1>1 DEF OfCaller, Chained
<1>. QED
  BY <1>2, <1>3, <1>4

\* What has been counted depends on the table and on where the walk is.
LEMMA TallyingKept ==
    ASSUME NEW rank, NEW c \in Callers, Tallying(c, rank),
           UNCHANGED <<uid, weight, count, stayed, met, here>>
    PROVE  Tallying(c, rank)' /\ InTable' = InTable
<1>1. InTable' = InTable
  BY DEF InTable
<1>2. /\ Passed(c, stayed[c], rank)' = Passed(c, stayed[c], rank)
      /\ Passed(c, met[c], rank)' = Passed(c, met[c], rank)
  BY DEF Passed
<1>3. /\ \A u : Weight(Passed(c, stayed[c], rank), u)' = Weight(Passed(c, stayed[c], rank), u)
      /\ \A e : Weight(Passed(c, met[c], rank), uid[e[2]])' = Weight(Passed(c, met[c], rank), uid[e[2]])
  BY <1>2 DEF Weight
<1>. QED
  BY <1>1, <1>3 DEF Tallying

\* get() looks for an entry of the user.
LEMMA VisitOwn ==
    ASSUME Base, NEW rank \in [Nodes -> Nat], NEW top, Order(rank, top),
           NEW c \in Callers, OfCaller(c, rank), Visit(c)
    PROVE  OfCaller(c, rank)'
<1>. USE Kinds DEF Visit, Goto, kernel, rcu, history
<1>1. /\ at[c] = "visit" /\ at'[c] = "tally" /\ here[c] # "init_task"
      /\ UNCHANGED <<uid, weight, call, state, next, guards, here, stayed, met, lost, slept, count, overlapped>>
  BY DEF Base, Typed
<1>2. Counting /\ InCall(c) /\ Counting'
  BY <1>1 DEF Base, Placed, InCall, Counting
<1>3. /\ Chained(c)' /\ Reaching(c, rank)' /\ Searching(c, rank)'
      /\ CountingUp(c, rank)' /\ Listing(c, rank)'
  BY <1>2, CountingOwn
<1>4. Standing(c)'
  BY <1>1, <1>2 DEF OfCaller, Standing, Holding, Ring, Listed, Known
<1>5. Undisturbed(c, rank)'
  <2>1. SUFFICES ASSUME ~overlapped[c] PROVE Undisturbed(c, rank)'
    BY <1>1 DEF Undisturbed
  <2>2. Tallying(c, rank)' /\ InTable' = InTable
    BY <1>1, <1>2, <2>1, TallyingKept DEF OfCaller, Undisturbed
  <2>3. IF existing'[c] = NULL
        THEN \A e \in InTable : uid[e[2]] # uid[here[c]]
        ELSE existing'[c] \in InTable /\ uid[existing'[c][2]] = uid[here[c]]
    <3>. DEFINE same == {e \in InTable : uid[e[2]] = uid[here[c]]}
    <3>1. PICK e \in IF same = {} THEN {NULL} ELSE same : existing' = [existing EXCEPT ![c] = e]
      OBVIOUS
    <3>2. existing'[c] = e
      BY <3>1 DEF Base, Typed
    <3>3. NULL \notin InTable
      BY DEF InTable
    <3>4. CASE same = {}
      BY <3>1, <3>2, <3>4
    <3>5. CASE same # {}
      BY <3>1, <3>2, <3>3, <3>5
    <3>. QED
      BY <3>4, <3>5
  <2>. QED
    BY <1>1, <1>2, <2>2, <2>3 DEF Undisturbed
<1>. QED
  BY <1>3, <1>4, <1>5 DEF OfCaller

\* The task at hand is counted, with its user's entry, and passed.
LEMMA TallyCounts ==
    ASSUME Base, NEW rank \in [Nodes -> Nat], NEW top, Order(rank, top),
           NEW c \in Callers, OfCaller(c, rank), Tally(c), ~overlapped[c]
    PROVE  Tallying(c, rank)'
<1>. USE Kinds
<1>. DEFINE h == here[c]
            M == Passed(c, met[c], rank)
            S == Passed(c, stayed[c], rank)
            entry == IF existing[c] = NULL THEN <<c, here[c]>> ELSE existing[c]
            k == IF existing[c] = NULL THEN 0 ELSE count[entry]
<1>1. /\ at[c] = "tally" /\ c \notin lost /\ Counting
      /\ here'[c] = next[h]
      /\ existing[c] = NULL \/ existing[c] \in InTable
      /\ count' = [count EXCEPT ![entry] = (IF existing[c] = NULL THEN 0 ELSE @) + weight[h]]
      /\ UNCHANGED <<uid, weight, stayed, met, state>>
  <2>1. /\ at[c] = "tally" /\ c \notin lost
        /\ existing[c] = NULL \/ existing[c] \in InTable
        /\ UNCHANGED <<uid, weight, stayed, met, state>>
    BY DEF Tally, Goto, kernel, history
  <2>2. Counting
    BY <2>1 DEF Base, Placed
  <2>3. here'[c] = next[h]
    BY DEF Tally, Base, Typed
  <2>4. count' = [count EXCEPT ![entry] = (IF existing[c] = NULL THEN 0 ELSE @) + weight[h]]
    BY DEF Tally
  <2>. QED
    BY <2>1, <2>2, <2>3, <2>4
<1>2. h \in met[c] /\ h \in Tasks /\ h # "init_task" /\ weight[h] \in Nat
  <2>1. h \in met[c] /\ h # "init_task"
    BY <1>1 DEF OfCaller, Standing, Known
  <2>2. h \in Tasks
    BY <2>1 DEF Base, Typed
  <2>3. weight[h] \in Nat
    BY <2>2 DEF Base, Typed
  <2>. QED
    BY <2>1, <2>2, <2>3
<1>3. Tallying(c, rank) /\ IF existing[c] = NULL
                           THEN \A e \in InTable : uid[e[2]] # uid[h]
                           ELSE existing[c] \in InTable /\ uid[existing[c][2]] = uid[h]
  BY <1>1 DEF OfCaller, Undisturbed
<1>4. /\ next[h] # "init_task" => rank[h] < rank[next[h]]
      /\ \A t \in stayed[c] : rank[h] < rank[t] => next[h] # "init_task" /\ rank[next[h]] <= rank[t]
      /\ next[h] \in Nodes
  BY <1>1, <1>2, Onward DEF Tally, Base, Typed
<1>5. stayed[c] \in SUBSET Tasks /\ met[c] \in SUBSET Tasks
  BY DEF Base, Typed
<1>6. M \in SUBSET Tasks /\ S \in SUBSET Tasks /\ h \notin M
  BY <1>2, <1>5 DEF Passed
<1>7. M \cup {h} \subseteq Passed(c, met[c], rank)' /\ Passed(c, met[c], rank)' \subseteq Tasks
  <2>1. Passed(c, met[c], rank)' = {t \in met[c] : next[h] = "init_task" \/ rank[t] < rank[next[h]]}
    BY <1>1 DEF Passed
  <2>2. ASSUME NEW t \in met[c], rank[t] < rank[h]
        PROVE  next[h] = "init_task" \/ rank[t] < rank[next[h]]
    <3>1. rank[t] \in Nat /\ rank[h] \in Nat /\ rank[next[h]] \in Nat
      BY <1>2, <1>4, <1>5
    <3>. QED
      BY <1>4, <2>2, <3>1
  <2>. QED
    BY <1>2, <1>4, <1>5, <2>1, <2>2 DEF Passed
<1>8. Passed(c, stayed[c], rank)' \subseteq S \cup {h}
  <2>1. Passed(c, stayed[c], rank)' =
            {t \in stayed[c] : next[h] = "init_task" \/ rank[t] < rank[next[h]]}
    BY <1>1 DEF Passed
  <2>2. ASSUME NEW t \in stayed[c], next[h] = "init_task" \/ rank[t] < rank[next[h]]
        PROVE  t \in S \cup {h}
    <3>1. rank[t] \in Nat /\ rank[h] \in Nat /\ rank[next[h]] \in Nat
      BY <1>2, <1>4, <1>5
    <3>2. ~(rank[h] < rank[t])
      BY <1>4, <2>2, <3>1
    <3>3. state[h] # "unborn" /\ state[t] # "unborn"
      BY <1>2 DEF Base, Kept, Listed
    <3>4. rank[t] = rank[h] => t = h
      BY <1>2, <1>5, <3>3 DEF Order
    <3>. QED
      BY <3>1, <3>2, <3>4 DEF Passed
  <2>. QED
    BY <2>1, <2>2
<1>9. entry \in Entries /\ uid[entry[2]] = uid[h] /\ (entry \in InTable <=> existing[c] # NULL)
  <2>1. <<c, h>> \in Entries
    BY <1>2 DEF Entries
  <2>2. CASE existing[c] = NULL
    BY <1>3, <2>1, <2>2
  <2>3. CASE existing[c] # NULL
    BY <1>3, <2>3 DEF InTable
  <2>. QED
    BY <2>2, <2>3
<1>10. /\ k \in Nat /\ k <= Weight(M, uid[h]) /\ Weight(S, uid[h]) <= k
       /\ \A e \in InTable : e # entry => uid[e[2]] # uid[h]
  <2>1. Weight(M, uid[h]) \in Nat /\ Weight(S, uid[h]) \in Nat /\ uid[h] \in Uids
    BY <1>2, <1>6, Weights DEF Base, Typed
  <2>2. CASE existing[c] = NULL
    BY <1>3, <2>1, <2>2 DEF Tallying
  <2>3. CASE existing[c] # NULL
    <3>1. entry \in InTable /\ entry \in Entries /\ k = count[entry] /\ count[entry] \in Nat
      BY <1>9, <2>3 DEF InTable, Base, Typed
    <3>2. \A e \in InTable : e # entry => uid[e[2]] # uid[h]
      BY <1>3, <1>9, <3>1 DEF Tallying
    <3>3. k <= Weight(M, uid[h])
      <4>1. count[entry] <= Weight(M, uid[entry[2]])
        BY <1>3, <3>1 DEF Tallying
      <4>. QED
        BY <1>9, <3>1, <4>1
    <3>4. Weight(S, uid[h]) <= k
      <4>1. \/ Weight(S, uid[h]) = 0
            \/ \E e \in InTable : uid[e[2]] = uid[h] /\ Weight(S, uid[h]) <= count[e]
        BY <1>3, <2>1 DEF Tallying
      <4>. QED
        BY <3>1, <3>2, <4>1
    <3>. QED
      BY <3>1, <3>2, <3>3, <3>4
  <2>. QED
    BY <2>2, <2>3
<1>11. /\ count'[entry] = k + weight[h]
       /\ \A e \in Entries : e # entry => count'[e] = count[e]
  BY <1>1, <1>9 DEF Base, Typed
<1>12. InTable' = InTable \cup {entry}
  BY <1>2, <1>9, <1>10, <1>11 DEF InTable
<1>. DEFINE M2 == Passed(c, met[c], rank)'
            S2 == Passed(c, stayed[c], rank)'
<1>13. /\ \A u : Weight(Passed(c, stayed[c], rank), u)' = Weight(S2, u)
       /\ \A e : Weight(Passed(c, met[c], rank), uid[e[2]])' = Weight(M2, uid[e[2]])
  BY <1>1 DEF Weight
<1>14. S2 \in SUBSET Tasks
  BY <1>2, <1>6, <1>8
<1>. HIDE DEF h, M, S, entry, k, M2, S2
<1>15. ASSUME NEW u
       PROVE  /\ Weight(M, u) \in Nat /\ Weight(S, u) \in Nat
              /\ Weight(M2, u) \in Nat /\ Weight(S2, u) \in Nat
              /\ Weight(M, u) <= Weight(M2, u)
              /\ uid[h] = u => Weight(M, u) + weight[h] <= Weight(M2, u)
              /\ uid[h] # u => Weight(S2, u) <= Weight(S, u)
              /\ Weight(S2, u) <= Weight(S, u) + weight[h]
  <2>1. /\ Weight(M, u) \in Nat /\ Weight(S, u) \in Nat
        /\ Weight(M \cup {h}, u) = Weight(M, u) + IF uid[h] = u THEN weight[h] ELSE 0
        /\ Weight(S \cup {h}, u) = Weight(S, u) + IF h \notin S /\ uid[h] = u THEN weight[h] ELSE 0
    BY <1>2, <1>6, Weights DEF Base
  <2>2. /\ Weight(M2, u) \in Nat
        /\ Weight(M \cup {h}, u) <= Weight(M2, u)
        /\ Weight(M, u) <= Weight(M2, u)
    BY <1>2, <1>7, Weights DEF Base, M2
  <2>3. Weight(S2, u) \in Nat /\ Weight(S2, u) <= Weight(S \cup {h}, u)
    <3>1. S \cup {h} \in SUBSET Tasks /\ S2 \in SUBSET (S \cup {h})
      BY <1>2, <1>6, <1>8 DEF S2
    <3>. QED
      BY <1>2, <3>1, Weights DEF Base
  <2>. QED
    BY <1>2, <2>1, <2>2, <2>3
<1>16. \A e \in InTable : count[e] \in Nat
  BY DEF InTable, Base, Typed
<1>17. \A e, f \in InTable' : uid[e[2]] = uid[f[2]] => e = f
  BY <1>3, <1>9, <1>10, <1>12 DEF Tallying
<1>18. ASSUME NEW e \in InTable' PROVE count'[e] <= Weight(M2, uid[e[2]])
  <2>1. CASE e = entry
    <3>1. uid[e[2]] = uid[h] /\ count'[e] = k + weight[h]
      BY <1>9, <1>11, <2>1
    <3>2. Weight(M, uid[h]) + weight[h] <= Weight(M2, uid[h])
          /\ Weight(M, uid[h]) \in Nat /\ Weight(M2, uid[h]) \in Nat
      BY <1>15
    <3>. QED
      BY <1>2, <1>10, <3>1, <3>2
  <2>2. CASE e # entry
    <3>1. e \in InTable /\ e \in Entries /\ count'[e] = count[e] /\ count[e] \in Nat
      BY <1>11, <1>12, <1>16, <2>2 DEF InTable
    <3>2. count[e] <= Weight(M, uid[e[2]])
      BY <1>3, <3>1 DEF Tallying, M
    <3>3. Weight(M, uid[e[2]]) <= Weight(M2, uid[e[2]])
          /\ Weight(M, uid[e[2]]) \in Nat /\ Weight(M2, uid[e[2]]) \in Nat
      BY <1>15
    <3>. QED
      BY <3>1, <3>2, <3>3
  <2>. QED
    BY <2>1, <2>2
<1>19. ASSUME NEW u \in Uids, Weight(S2, u) # 0
       PROVE  \E e \in InTable' : uid[e[2]] = u /\ Weight(S2, u) <= count'[e]
  <2>1. CASE u = uid[h]
    <3>1. count'[entry] = k + weight[h] /\ entry \in InTable' /\ uid[entry[2]] = u
      BY <1>9, <1>11, <1>12, <2>1
    <3>2. Weight(S2, u) <= Weight(S, u) + weight[h]
          /\ Weight(S, u) \in Nat /\ Weight(S2, u) \in Nat
      BY <1>15
    <3>3. Weight(S2, u) <= count'[entry]
      BY <1>2, <1>10, <2>1, <3>1, <3>2
    <3>. QED
      BY <3>1, <3>3
  <2>2. CASE u # uid[h]
    <3>1. Weight(S2, u) <= Weight(S, u)
          /\ Weight(S, u) \in Nat /\ Weight(S2, u) \in Nat
      BY <1>15, <2>2
    <3>2. Weight(S, u) # 0
      BY <1>19, <3>1
    <3>3. PICK e \in InTable : uid[e[2]] = u /\ Weight(S, u) <= count[e]
      BY <1>3, <3>2 DEF Tallying, S
    <3>4. e \in Entries /\ e # entry /\ count'[e] = count[e] /\ count[e] \in Nat
      BY <1>9, <1>11, <1>16, <2>2, <3>3 DEF InTable
    <3>5. Weight(S2, u) <= count'[e]
      BY <3>1, <3>3, <3>4
    <3>. QED
      BY <1>12, <3>3, <3>5
  <2>. QED
    BY <2>1, <2>2
<1>20. InTable' # {}
  BY <1>12
<1>. QED
  BY <1>1, <1>13, <1>17, <1>18, <1>19, <1>20 DEF Tallying

\* The walk goes to the next task.
LEMMA TallyOwn ==
    ASSUME Base, NEW rank \in [Nodes -> Nat], NEW top, Order(rank, top),
           NEW c \in Callers, OfCaller(c, rank), Tally(c)
    PROVE  OfCaller(c, rank)'
<1>. USE Kinds
<1>1. /\ at[c] = "tally" /\ at'[c] = "visit" /\ Counting /\ Valid(c) /\ InCall(c)
      /\ here[c] \in Nodes /\ here'[c] = next[here[c]]
      /\ UNCHANGED <<kernel, state, next, rcu, stayed, met, lost, slept, overlapped>>
  <2>1. /\ at[c] = "tally" /\ Valid(c)
        /\ UNCHANGED <<kernel, state, next, rcu, stayed, met, lost, slept, overlapped>>
    BY DEF Tally, Goto, history
  <2>2. Counting /\ InCall(c)
    BY <2>1 DEF Base, Placed, InCall
  <2>3. here[c] \in Nodes /\ here'[c] = next[here[c]] /\ at'[c] = "visit"
    BY DEF Tally, Goto, Base, Typed
  <2>. QED
    BY <2>1, <2>2, <2>3
<1>2. Counting' /\ Listed' = Listed /\ Ring' = Ring /\ UNCHANGED <<guards, next>>
  BY <1>1 DEF Counting, kernel, rcu, Listed, Ring
<1>3. /\ Chained(c)' /\ Reaching(c, rank)' /\ Searching(c, rank)'
      /\ CountingUp(c, rank)' /\ Listing(c, rank)'
  BY <1>1, CountingOwn
<1>4. Standing(c)'
  <2>1. next[here[c]] \in Known(c) \cup {"init_task"}
    BY <1>1, Onward
  <2>2. Known(c)' = Known(c)
    BY <1>1, <1>2 DEF Known
  <2>3. ~slept[c] => next[here[c]] \in Ring \/ c \in guards[next[here[c]]]
    <3>1. ~slept[c] => here[c] \in Ring \/ c \in guards[here[c]]
      BY <1>1 DEF OfCaller, Standing, Holding
    <3>2. \A n \in Ring : next[n] \in Ring
      BY DEF Order
    <3>3. here[c] \in Tasks
      BY <1>1 DEF OfCaller, Standing
    <3>. QED
      BY <3>1, <3>2, <3>3 DEF OfCaller, Chained
  <2>. QED
    BY <1>1, <1>2, <2>1, <2>2, <2>3 DEF Standing
<1>5. Undisturbed(c, rank)'
  BY <1>1, TallyCounts DEF Undisturbed
<1>. QED
  BY <1>3, <1>4, <1>5 DEF OfCaller

\* The walk is over, and the read section with it.
LEMMA EndWalkOwn ==
    ASSUME Base, NEW rank \in [Nodes -> Nat], NEW top, Order(rank, top),
           NEW c \in Callers, OfCaller(c, rank), EndWalk(c)
    PROVE  OfCaller(c, rank)'
<1>. USE Kinds
<1>1. /\ at[c] = "visit" /\ at'[c] = "scan" /\ here[c] = "init_task"
      /\ EndSection(c)
      /\ UNCHANGED <<kernel, state, next, num, here, table, stayed, met, lost, slept, overlapped>>
  BY DEF EndWalk, Goto, history, rcu_read_unlock, Base, Typed
<1>2. Counting /\ InCall(c)
  BY <1>1 DEF Base, Placed, InCall
<1>3. Searching(c, rank)' /\ CountingUp(c, rank)' /\ Listing(c, rank)'
  BY <1>1, <1>2, CountingOwn
<1>4. Chained(c)' /\ Reaching(c, rank)'
  BY <1>1, <1>2, SectionLeft DEF kernel
<1>5. Standing(c)'
  BY <1>1 DEF Standing, Holding
<1>6. Undisturbed(c, rank)'
  <2>1. SUFFICES ASSUME ~overlapped[c] PROVE Undisturbed(c, rank)'
    BY <1>1 DEF Undisturbed
  <2>2. Tallying(c, rank)'
    BY <1>1, <1>2, <2>1, TallyingKept DEF OfCaller, Undisturbed, kernel, table
  <2>. QED
    BY <1>1, <2>2 DEF Undisturbed
<1>. QED
  BY <1>3, <1>4, <1>5, <1>6 DEF OfCaller

\* The largest count is at least that of any user's tasks that have stayed, and
\* at most that of those of its own user that have been met.
LEMMA ScanOwn ==
    ASSUME Base, NEW rank \in [Nodes -> Nat], NEW top, Order(rank, top),
           NEW c \in Callers, OfCaller(c, rank), Scan(c)
    PROVE  OfCaller(c, rank)'
<1>. USE Kinds
<1>1. /\ at[c] = "scan" /\ at'[c] = "cleanup"
      /\ UNCHANGED <<kernel, state, next, rcu, here, table, stayed, met, lost, slept, overlapped>>
  BY DEF Scan, Goto, history, Base, Typed
<1>2. Counting /\ InCall(c) /\ here[c] = "init_task"
  BY <1>1 DEF Base, Placed, InCall, OfCaller, Standing
<1>3. /\ Chained(c)' /\ Reaching(c, rank)' /\ Searching(c, rank)'
      /\ CountingUp(c, rank)' /\ Listing(c, rank)'
  BY <1>1, <1>2, CountingOwn
<1>4. Standing(c)'
  BY <1>1 DEF Standing, Holding
<1>5. Undisturbed(c, rank)'
  <2>1. SUFFICES ASSUME ~overlapped[c] PROVE Undisturbed(c, rank)'
    BY <1>1 DEF Undisturbed
  <2>2. Tallying(c, rank) /\ InTable # {} /\ InTable' = InTable
    BY <1>1, <1>2, <2>1 DEF OfCaller, Undisturbed, Tallying, InTable, table
  <2>3. stayed[c] \in SUBSET Tasks /\ met[c] \in SUBSET Tasks
    BY DEF Base, Typed
  <2>4. Passed(c, stayed[c], rank) = stayed[c] /\ Passed(c, met[c], rank) = met[c]
    BY <1>2 DEF Passed
  <2>5. \A u : Weight(stayed[c], u) \in Nat /\ Weight(met[c], u) \in Nat
    <3>1. \A t \in Tasks : \A u : Weight(stayed[c], u) \in Nat /\ Weight(met[c], u) \in Nat
      BY <2>3, Weights DEF Base
    <3>. QED
      BY <3>1
  <2>6. ASSUME NEW u \in Uids PROVE Weight(stayed[c], u) <= Weight(met[c], result'[c])
    <3>1. Weight(stayed[c], u) \in Nat /\ Weight(met[c], result'[c]) \in Nat
      BY <2>5
    <3>2. \/ Weight(stayed[c], u) = 0
          \/ \E f \in InTable : Weight(stayed[c], u) <= count[f]
      BY <2>2, <2>4 DEF Tallying
    <3>3. \A f \in InTable : count[f] \in Nat
      BY DEF InTable, Base, Typed
    <3>4. CASE \A f \in InTable : count[f] = 0
      BY <3>1, <3>2, <3>3, <3>4
    <3>5. CASE \E e \in InTable : /\ \A f \in InTable : count[f] <= count[e]
                                  /\ result' = [result EXCEPT ![c] = uid[e[2]]]
      <4>1. PICK e \in InTable : /\ \A f \in InTable : count[f] <= count[e]
                                 /\ result' = [result EXCEPT ![c] = uid[e[2]]]
        BY <3>5
      <4>2. result'[c] = uid[e[2]]
        BY <4>1 DEF Base, Typed
      <4>3. count[e] <= Weight(met[c], result'[c])
        BY <2>2, <2>4, <4>2 DEF Tallying
      <4>. QED
        BY <3>1, <3>2, <3>3, <4>1, <4>3
    <3>. QED
      BY <3>4, <3>5 DEF Scan
  <2>7. /\ \A u : Weight(stayed[c], u)' = Weight(stayed[c], u)
        /\ Weight(met[c], result[c])' = Weight(met[c], result'[c])
    BY <1>1 DEF Weight, kernel
  <2>. QED
    BY <1>1, <2>2, <2>6, <2>7 DEF Undisturbed, kernel
<1>. QED
  BY <1>3, <1>4, <1>5 DEF OfCaller

\* The entries are deleted after the answer.
LEMMA DeleteOwn ==
    ASSUME Base, NEW rank \in [Nodes -> Nat], NEW top, Order(rank, top),
           NEW c \in Callers, OfCaller(c, rank), Delete(c) \/ EndCall(c)
    PROVE  OfCaller(c, rank)'
<1>. USE Kinds
<1>1. /\ at[c] \in {"cleanup", "deleting"} /\ at'[c] \in {"deleting", "returned"}
      /\ UNCHANGED <<kernel, state, next, rcu, here, result, stayed, met, lost, slept, overlapped>>
  BY DEF Delete, EndCall, Goto, history, table, Base, Typed
<1>2. Counting /\ InCall(c)
  BY <1>1 DEF Base, Placed, InCall
<1>3. /\ Chained(c)' /\ Reaching(c, rank)' /\ Searching(c, rank)'
      /\ CountingUp(c, rank)' /\ Listing(c, rank)'
  BY <1>1, <1>2, CountingOwn
<1>4. Standing(c)'
  BY <1>1 DEF Standing, Holding
<1>5. Undisturbed(c, rank)'
  <2>1. /\ \A u : Weight(stayed[c], u)' = Weight(stayed[c], u)
        /\ Weight(met[c], result[c])' = Weight(met[c], result[c])
    BY <1>1 DEF Weight, kernel
  <2>. QED
    BY <1>1, <1>2, <2>1 DEF OfCaller, Undisturbed, Counting, kernel
<1>. QED
  BY <1>3, <1>4, <1>5 DEF OfCaller

------------------------------------------------------------------------------
(* A new task.                                                             *)

\* The new task t comes after the last one, and is younger than all others;
\* later is the order with it, which was rank without it.
Forked(t, last, rank, later, top) ==
    /\ state[t] = "unborn" /\ t \notin Ring /\ next[t] = "init_task"
    /\ last \in Ring /\ last \in Nodes /\ last # t
    /\ Listed' = Listed \cup {t} /\ Ring' = Ring \cup {t}
    /\ \A u \in Tasks \ {t} : state'[u] = state[u]
    /\ state'[t] = "listed"
    /\ next'[t] = "init_task" /\ next'[last] = t
    /\ \A n \in Nodes \ {last} : next'[n] = next[n]
    /\ later[t] = top + 1
    /\ \A n \in Nodes \ {t} : later[n] = rank[n] /\ rank[n] <= top
    /\ \A x \in Listed : ~(rank[last] < rank[x])
    /\ \A n \in Ring \ {last} : next[n] # "init_task"

\* The new task is added where the list ends.
LEMMA ForkFacts ==
    ASSUME Base, NEW rank \in [Nodes -> Nat], NEW top \in Nat, Order(rank, top),
           NEW t \in Tasks, Fork(t), NEW later, later = [rank EXCEPT ![t] = top + 1]
    PROVE  later \in [Nodes -> Nat] /\ \E last : Forked(t, last, rank, later, top)
<1>. USE Kinds
<1>1. PICK last \in Ring : next[last] = "init_task" /\ next' = [next EXCEPT ![last] = t]
  BY DEF Fork, Ring
<1>2. state[t] = "unborn" /\ state' = [state EXCEPT ![t] = "listed"]
  BY DEF Fork
<1>3. state'[t] = "listed" /\ \A u \in Tasks \ {t} : state'[u] = state[u]
  BY <1>2 DEF Base, Typed
<1>4. Ring \subseteq Nodes /\ t \notin Ring /\ last # t
  BY <1>1, <1>2 DEF Ring, Listed
<1>5. Listed' = Listed \cup {t} /\ Ring' = Ring \cup {t}
  BY <1>3 DEF Ring, Listed
<1>6. next[t] = "init_task"
  BY <1>2 DEF Order
<1>7. next'[last] = t /\ \A n \in Nodes \ {last} : next'[n] = next[n]
  BY <1>1, <1>4 DEF Base, Typed
<1>8. next'[t] = "init_task"
  BY <1>4, <1>6, <1>7
<1>9. /\ later \in [Nodes -> Nat] /\ later[t] = top + 1
      /\ \A n \in Nodes \ {t} : later[n] = rank[n] /\ rank[n] <= top
  BY DEF Order
<1>10. \A x \in Listed : ~(rank[last] < rank[x])
  BY <1>1 DEF Order
<1>11. ASSUME NEW n \in Ring \ {last} PROVE next[n] # "init_task"
  <2>1. rank[n] \in Nat /\ rank[last] \in Nat
    BY <1>4
  <2>2. rank[n] # rank[last]
    BY <1>1 DEF Order, Ring, Listed
  <2>3. CASE rank[last] < rank[n]
    <3>1. n \in Listed
      BY <2>3, <2>1 DEF Order, Ring
    <3>. QED
      BY <1>10, <2>3, <3>1
  <2>4. CASE rank[n] < rank[last]
    <3>1. last \in Listed
      BY <2>4, <2>1 DEF Order, Ring
    <3>. QED
      BY <2>4, <3>1 DEF Order
  <2>. QED
    BY <2>1, <2>2, <2>3, <2>4
<1>. QED
  BY <1>1, <1>2, <1>3, <1>4, <1>5, <1>6, <1>7, <1>8, <1>9, <1>10, <1>11 DEF Forked

\* The list follows the order with the new task.
LEMMA ForkOrder ==
    ASSUME Base, NEW rank \in [Nodes -> Nat], NEW top \in Nat, Order(rank, top),
           NEW t \in Tasks, NEW later \in [Nodes -> Nat], NEW last,
           Forked(t, last, rank, later, top)
    PROVE  Order(later, top + 1)'
<1>. USE Kinds DEF Forked
<1>1. Ring \subseteq Nodes /\ Listed \subseteq Tasks /\ Listed \subseteq Ring
  BY DEF Ring, Listed
<1>2. later["init_task"] = 0 /\ \A u \in Tasks : later[u] <= top + 1
  <2>1. \A u \in Tasks \ {t} : later[u] \in Nat /\ later[u] <= top
    OBVIOUS
  <2>. QED
    BY <2>1 DEF Order
<1>3. \A u \in Tasks : state'[u] # "unborn" => later[u] > 0
  BY DEF Order
<1>4. ASSUME NEW r \in Tasks, NEW u \in Tasks, state'[r] # "unborn", state'[u] # "unborn",
             later[r] = later[u]
      PROVE  r = u
  <2>1. \A x \in Tasks \ {t} : later[x] \in Nat /\ later[x] < later[t]
    OBVIOUS
  <2>2. CASE r # t /\ u # t
    BY <1>4, <2>2 DEF Order
  <2>. QED
    BY <1>4, <2>1, <2>2
<1>5. \A u \in Tasks : state'[u] \in {"unborn", "freed"} => next'[u] = "init_task"
  BY DEF Order, Ring, Listed
<1>6. \A n \in Ring' : next'[n] \in Ring'
  BY <1>1 DEF Order, Ring
<1>7. ASSUME NEW n \in Nodes, next'[n] # "init_task" PROVE later[n] < later[next'[n]]
  <2>1. CASE n = last
    BY <2>1
  <2>2. CASE n # last /\ n # t /\ next[n] = t
    <3>1. rank[n] <= top /\ rank[n] \in Nat
      BY <2>2
    <3>. QED
      BY <2>2, <3>1
  <2>3. CASE n # last /\ n # t /\ next[n] # t
    BY <1>7, <2>3 DEF Order, Base, Typed
  <2>. QED
    BY <1>7, <2>1, <2>2, <2>3
<1>8. ASSUME NEW n \in Ring', NEW x \in Listed', later[n] < later[x]
      PROVE  next'[n] # "init_task" /\ later[next'[n]] <= later[x]
  <2>1. n \in Nodes /\ x \in Tasks /\ later[n] \in Nat /\ later[x] \in Nat
    BY <1>1
  <2>2. n # t
    <3>1. later[x] <= top + 1
      BY <1>2, <2>1
    <3>. QED
      BY <1>8, <2>1, <3>1
  <2>3. CASE n = last
    <3>1. x = t
      BY <1>1, <1>8, <2>1, <2>3
    <3>. QED
      BY <2>3, <3>1
  <2>4. CASE n # last /\ x = t
    <3>1. next[n] \in Ring /\ next[n] # "init_task" /\ next'[n] = next[n]
      BY <2>1, <2>2, <2>4 DEF Order
    <3>2. later[next[n]] <= top + 1
      BY <1>1, <1>2, <3>1 DEF Ring
    <3>. QED
      BY <2>4, <3>1, <3>2
  <2>5. CASE n # last /\ x # t
    <3>1. n \in Ring /\ x \in Listed /\ rank[n] < rank[x]
      BY <1>8, <2>1, <2>2, <2>5
    <3>2. next[n] \in Ring /\ next[n] # "init_task" /\ rank[next[n]] <= rank[x]
      BY <3>1 DEF Order
    <3>3. next[n] \in Nodes \ {t} /\ next'[n] = next[n]
      BY <1>1, <2>1, <2>5, <3>2
    <3>. QED
      BY <2>1, <2>5, <3>2, <3>3
  <2>. QED
    BY <2>3, <2>4, <2>5
<1>. QED
  BY <1>2, <1>3, <1>4, <1>5, <1>6, <1>7, <1>8 DEF Order

\* The walks of a caller do not notice the new task before they come to it.
LEMMA ForkWalks ==
    ASSUME Base, NEW rank \in [Nodes -> Nat], NEW top \in Nat, Order(rank, top),
           NEW t \in Tasks, Fork(t), NEW later \in [Nodes -> Nat], NEW last,
           Forked(t, last, rank, later, top), NEW c \in Callers, OfCaller(c, rank)
    PROVE  /\ Chained(c)' /\ Reaching(c, later)' /\ Standing(c)'
           /\ Searching(c, later)' /\ CountingUp(c, later)' /\ Listing(c, later)'
<1>. USE Kinds
<1>1. /\ UNCHANGED <<call, at, arg, num, here, result, guards, lost, slept, stayed, reported, shrunk>>
      /\ Counting' = Counting /\ InCall(c)' = InCall(c) /\ Holding(c)' = Holding(c)
  BY DEF Fork, kernel, rcu, walk, Counting, InCall, Holding
<1>2. Counting /\ InCall(c) /\ c \notin lost => met'[c] = met[c] \cup {t}
  BY DEF Fork, Base, Typed
<1>3. Listed' = Listed \cup {t} /\ Ring' = Ring \cup {t} /\ t \notin Ring /\ state[t] = "unborn"
  BY DEF Forked
<1>4. Ring \subseteq Nodes /\ Listed \subseteq Ring /\ stayed[c] \subseteq Listed /\ here[c] \in Nodes
  BY DEF Ring, Listed, Base, Kept, Typed
<1>5. /\ t \notin Known(c)
      /\ InCall(c) /\ c \notin lost => Known(c)' = Known(c) \cup {t}
  BY <1>1, <1>2, <1>3 DEF Known, Base, Kept, Guarding, Ring
<1>6. Known(c) \subseteq Tasks
  BY DEF Known, Base, Typed, Listed
<1>7. \A n \in Nodes \ {t} : later[n] = rank[n] /\ rank[n] <= top
  BY DEF Forked
<1>8. Chained(c)'
  <2>1. ASSUME NEW u \in Tasks, c \in guards[u] PROVE next'[u] \in Ring' \/ c \in guards[next'[u]]
    <3>1. u # last /\ next'[u] = next[u]
      BY <2>1 DEF Base, Guarding, Forked, Ring, Listed
    <3>. QED
      BY <1>3, <2>1, <3>1 DEF OfCaller, Chained
  <2>. QED
    BY <1>1, <2>1 DEF Chained
<1>9. Reaching(c, later)'
  <2>1. SUFFICES ASSUME InCall(c), c \notin lost,
                        NEW n \in Known(c) \cup {t, "init_task"}, n \in Tasks => state'[n] # "freed"
                 PROVE  /\ next'[n] \in Known(c) \cup {t, "init_task"}
                        /\ \A x \in stayed[c] : later[n] < later[x] =>
                              next'[n] # "init_task" /\ later[next'[n]] <= later[x]
    BY <1>1, <1>5 DEF Reaching
  <2>2. n \in Nodes
    BY <1>6, <2>1
  <2>3. CASE n = t
    <3>1. later[t] = top + 1 /\ next'[t] = "init_task"
      BY DEF Forked
    <3>2. ASSUME NEW x \in stayed[c] PROVE ~(later[t] < later[x])
      <4>1. x \in Nodes \ {t}
        BY <1>3, <1>4
      <4>2. later[x] <= top /\ later[x] \in Nat
        BY <1>7, <4>1
      <4>. QED
        BY <3>1, <4>2
    <3>. QED
      BY <2>3, <3>1, <3>2
  <2>4. CASE n = last
    <3>1. next'[n] = t /\ n # t /\ \A x \in Listed : ~(rank[n] < rank[x])
      BY <2>4 DEF Forked
    <3>2. \A x \in stayed[c] : ~(later[n] < later[x])
      BY <1>3, <1>4, <1>7, <2>2, <3>1
    <3>. QED
      BY <3>1, <3>2
  <2>5. CASE n # t /\ n # last
    <3>1. next'[n] = next[n] /\ (n \in Tasks => state[n] # "freed")
      BY <2>1, <2>2, <2>5 DEF Forked
    <3>2. /\ next[n] \in Known(c) \cup {"init_task"}
          /\ \A x \in stayed[c] :
                rank[n] < rank[x] => next[n] # "init_task" /\ rank[next[n]] <= rank[x]
      BY <2>1, <2>5, <3>1 DEF OfCaller, Reaching
    <3>3. next[n] \in Nodes \ {t}
      BY <1>5, <1>6, <3>2
    <3>. QED
      BY <1>3, <1>4, <1>7, <2>2, <2>5, <3>1, <3>2, <3>3
  <2>. QED
    BY <2>3, <2>4, <2>5
<1>10. Standing(c)'
  <2>1. at[c] \in {"visit", "tally"} => InCall(c) /\ c \notin lost
    BY DEF InCall, Base, Placed
  <2>. QED
    BY <1>1, <1>3, <1>5, <2>1 DEF OfCaller, Standing
<1>11. at[c] \in {"walk", "step", "end"} => here[c] \in Nodes \ {t}
  <2>1. at[c] \in {"walk", "step", "end"} => here[c] \in Ring \/ c \in guards[here[c]]
    BY DEF OfCaller, Standing, Holding, Base, Placed
  <2>. QED
    BY <1>3, <1>4, <2>1 DEF Base, Guarding
<1>12. Searching(c, later)'
  BY <1>1, <1>3, <1>4, <1>7, <1>11 DEF OfCaller, Searching
<1>13. CountingUp(c, later)'
  <2>1. at[c] \in {"walk", "step", "end"} =>
            {x \in stayed[c] : later[x] <= later[here[c]]} = {x \in stayed[c] : rank[x] <= rank[here[c]]}
    BY <1>3, <1>4, <1>7, <1>11
  <2>2. {x \in stayed[c] : later[x] <= later[here[c]]}' = {x \in stayed[c] : later[x] <= later[here[c]]}
    BY <1>1
  <2>. QED
    BY <1>1, <2>1, <2>2 DEF OfCaller, CountingUp
<1>14. Listing(c, later)'
  <2>1. SUFFICES ASSUME call = "by_index", ~shrunk[c] PROVE Listing(c, later)'
    BY <1>1 DEF Listing
  <2>2. at[c] = "returned" => there'[c] = there[c]
    <3>1. at[c] = "returned" => c # t
      BY <1>3 DEF Base, Placed
    <3>. QED
      BY <3>1 DEF Fork, Base, Typed
  <2>3. ASSUME at[c] \in {"idle", "walk", "step", "end", "answer", "returned"}
        PROVE  /\ reported[c] \subseteq Ring'
               /\ \A m \in reported[c], n \in Ring' : later[n] < later[m] => n \in reported[c]
    <3>1. /\ reported[c] \subseteq Ring
          /\ \A m \in reported[c], n \in Ring : rank[n] < rank[m] => n \in reported[c]
      BY <2>1, <2>3 DEF OfCaller, Listing
    <3>2. ASSUME NEW m \in reported[c], later[t] < later[m] PROVE FALSE
      <4>1. later[m] <= top /\ later[m] \in Nat
        BY <1>3, <1>4, <1>7, <3>1
      <4>2. later[t] = top + 1
        BY DEF Forked
      <4>. QED
        BY <3>2, <4>1, <4>2
    <3>. QED
      BY <1>3, <1>4, <1>7, <3>1, <3>2
  <2>4. ASSUME at[c] \in {"walk", "step", "end", "answer"}
        PROVE  /\ here[c] \in Ring'
               /\ Cardinality({n \in Ring' : later[n] < later[here[c]]}) = num[c]
    <3>1. here[c] \in Ring /\ Cardinality({n \in Ring : rank[n] < rank[here[c]]}) = num[c]
      BY <2>1, <2>4 DEF OfCaller, Listing
    <3>2. ~(later[t] < later[here[c]])
      <4>1. later[here[c]] <= top /\ later[here[c]] \in Nat
        BY <1>3, <1>4, <1>7, <3>1
      <4>2. later[t] = top + 1
        BY DEF Forked
      <4>. QED
        BY <4>1, <4>2
    <3>3. {n \in Ring' : later[n] < later[here[c]]} = {n \in Ring : rank[n] < rank[here[c]]}
      BY <1>3, <1>4, <1>7, <3>1, <3>2
    <3>. QED
      BY <1>3, <3>1, <3>3
  <2>5. {n \in Ring : later[n] < later[here[c]]}' = {n \in Ring' : later[n] < later[here[c]]}
    BY <1>1
  <2>6. /\ Cardinality(Ring) \in Nat /\ Cardinality(Ring') \in Nat
        /\ Cardinality(Ring) <= Cardinality(Ring')
    BY <1>3, <1>4, OneMore
  <2>8. arg[c] \in Nat
    BY <2>1 DEF Base, Typed
  <2>9. /\ arg[c] < Cardinality(Ring) => arg[c] < Cardinality(Ring')
        /\ arg[c] + 1 < Cardinality(Ring) => arg[c] + 1 < Cardinality(Ring')
    <3>. DEFINE k == Cardinality(Ring)
                l == Cardinality(Ring')
                i == arg[c]
    <3>1. k \in Nat /\ l \in Nat /\ k <= l /\ i \in Nat
      BY <2>6, <2>8
    <3>. HIDE DEF k, l, i
    <3>2. (i < k => i < l) /\ (i + 1 < k => i + 1 < l)
      BY <3>1
    <3>. QED
      BY <3>2 DEF k, l, i
  <2>10. /\ at[c] \in {"idle", "walk", "step", "end"} => arg'[c] < Cardinality(Ring')
         /\ at[c] = "answer" => arg'[c] + 1 < Cardinality(Ring')
         /\ at[c] = "returned" /\ result[c] = "name" => arg'[c] + 1 < Cardinality(Ring')
    BY <1>1, <2>1, <2>9 DEF OfCaller, Listing
  <2>11. /\ at[c] \in {"idle", "walk", "step", "end", "answer"} => Cardinality(reported[c]) = arg[c]
         /\ at[c] \in {"end", "answer"} => num[c] = arg[c]
         /\ at[c] = "returned" /\ result[c] = "name" => Cardinality(reported[c]) = arg[c] + 1
         /\ at[c] = "returned" /\ result[c] = "3" => there[c] \subseteq reported[c] \cup {here[c]}
    BY <2>1 DEF OfCaller, Listing
  <2>12. at[c] \in {"walk", "step", "end", "answer"} =>
             /\ here'[c] \in Ring'
             /\ Cardinality({n \in Ring : later[n] < later[here[c]]})' = num'[c]
    BY <1>1, <2>4, <2>5
  <2>13. at[c] \in {"idle", "walk", "step", "end", "answer", "returned"} =>
             /\ reported'[c] \subseteq Ring'
             /\ \A m \in reported'[c], n \in Ring' : later[n] < later[m] => n \in reported'[c]
    BY <1>1, <2>3
  <2>. QED
    BY <1>1, <2>2, <2>10, <2>11, <2>12, <2>13 DEF Listing
<1>. QED
  BY <1>8, <1>9, <1>10, <1>12, <1>13, <1>14

\* A census may count the new task, if it comes to it.
LEMMA ForkCensus ==
    ASSUME Base, NEW rank \in [Nodes -> Nat], NEW top \in Nat, Order(rank, top),
           NEW t \in Tasks, Fork(t), NEW later \in [Nodes -> Nat], NEW last,
           Forked(t, last, rank, later, top), NEW c \in Callers, OfCaller(c, rank)
    PROVE  Undisturbed(c, later)'
<1>. USE Kinds
<1>1. /\ UNCHANGED <<call, uid, weight, at, here, result, lost, stayed, overlapped, existing, count>>
      /\ Counting' = Counting /\ InTable' = InTable
  BY DEF Fork, kernel, walk, table, Counting, InTable
<1>2. SUFFICES ASSUME Counting, ~overlapped[c] PROVE Undisturbed(c, later)'
  BY <1>1 DEF Undisturbed
<1>3. met[c] \in SUBSET Tasks /\ met'[c] \in SUBSET Tasks /\ met[c] \subseteq met'[c]
      /\ stayed[c] \in SUBSET Tasks
  BY DEF Fork, Base, Typed
<1>4. t \notin met[c] /\ t \notin stayed[c]
  BY DEF Forked, Base, Kept, Listed
<1>5. \A n \in Nodes \ {t} : later[n] = rank[n]
  BY DEF Forked
<1>6. ASSUME NEW u
      PROVE  /\ Weight(stayed[c], u)' = Weight(stayed[c], u)
             /\ Weight(met'[c], u) \in Nat /\ Weight(met[c], u) \in Nat
             /\ Weight(met[c], u) <= Weight(met'[c], u)
             /\ Weight(stayed[c], u) \in Nat
  <2>1. Weight(stayed[c], u)' = Weight(stayed[c], u)
    BY <1>1 DEF Weight
  <2>. QED
    BY <1>3, <2>1, Weights DEF Base
<1>7. Weight(met[c], result[c])' = Weight(met'[c], result[c])
  BY <1>1 DEF Weight
<1>8. ASSUME at[c] \in {"visit", "tally", "scan"} PROVE Tallying(c, later)'
  <2>1. Tallying(c, rank)
    BY <1>2, <1>8 DEF OfCaller, Undisturbed
  <2>2. here[c] \in Nodes \ {t}
    <3>1. here[c] \in met[c] \cup {"init_task"}
      BY <1>2, <1>8 DEF OfCaller, Standing, Known
    <3>. QED
      BY <1>3, <1>4, <3>1
  <2>. DEFINE M2 == Passed(c, met[c], later)'
  <2>3. Passed(c, stayed[c], later)' = Passed(c, stayed[c], rank)
    <3>1. Passed(c, stayed[c], later)' = {x \in stayed[c] : here[c] = "init_task" \/ later[x] < later[here[c]]}
      BY <1>1 DEF Passed
    <3>. QED
      BY <1>3, <1>4, <1>5, <2>2, <3>1 DEF Passed
  <2>4. Passed(c, met[c], rank) \subseteq M2 /\ M2 \in SUBSET Tasks
    <3>1. M2 = {x \in met'[c] : here[c] = "init_task" \/ later[x] < later[here[c]]}
      BY <1>1 DEF Passed
    <3>. QED
      BY <1>3, <1>4, <1>5, <2>2, <3>1 DEF Passed
  <2>5. /\ \A u : Weight(Passed(c, stayed[c], later), u)' = Weight(Passed(c, stayed[c], rank), u)
        /\ \A e : Weight(Passed(c, met[c], later), uid[e[2]])' = Weight(M2, uid[e[2]])
    BY <1>1, <2>3 DEF Weight
  <2>. HIDE DEF M2
  <2>6. ASSUME NEW e \in InTable PROVE count[e] <= Weight(M2, uid[e[2]])
    <3>1. count[e] <= Weight(Passed(c, met[c], rank), uid[e[2]])
      BY <2>1 DEF Tallying
    <3>2. /\ Weight(Passed(c, met[c], rank), uid[e[2]]) <= Weight(M2, uid[e[2]])
          /\ Weight(Passed(c, met[c], rank), uid[e[2]]) \in Nat /\ Weight(M2, uid[e[2]]) \in Nat
      <4>1. \A u : /\ Weight(Passed(c, met[c], rank), u) <= Weight(M2, u)
                   /\ Weight(Passed(c, met[c], rank), u) \in Nat /\ Weight(M2, u) \in Nat
        BY <2>4, Weights DEF Base
      <4>. QED
        BY <4>1
    <3>3. count[e] \in Nat
      BY DEF InTable, Base, Typed
    <3>. QED
      BY <3>1, <3>2, <3>3
  <2>. QED
    BY <1>1, <2>1, <2>5, <2>6 DEF Tallying
<1>9. Weight(stayed[c], result[c]) \in Nat
  BY <1>6
<1>10. ASSUME at[c] \in {"cleanup", "deleting", "returned"}, NEW u \in Uids
       PROVE  Weight(stayed[c], u) <= Weight(met'[c], result[c])
  <2>1. Weight(stayed[c], u) <= Weight(met[c], result[c])
    BY <1>2, <1>10 DEF OfCaller, Undisturbed
  <2>. QED
    BY <1>6, <2>1
<1>. QED
  BY <1>1, <1>2, <1>6, <1>7, <1>8, <1>10 DEF OfCaller, Undisturbed

------------------------------------------------------------------------------
(* A task exits.                                                           *)

\* t is taken out of the list after previous, and guarded by every open section
\* but its own.
Left(t, previous, rank) ==
    /\ state[t] = "listed" /\ t \in Ring /\ t # "init_task" /\ next[t] # t
    /\ next[t] # "init_task" => rank[t] < rank[next[t]]
    /\ previous \in Ring /\ previous \in Nodes /\ previous # t
    /\ next[previous] = t /\ rank[previous] < rank[t]
    /\ \A n \in Ring : next[n] = t => n = previous
    /\ Listed' = Listed \ {t} /\ Ring' = Ring \ {t}
    /\ \A u \in Tasks \ {t} : state'[u] = state[u]
    /\ state'[t] = "unlinked"
    /\ next'[previous] = next[t]
    /\ \A n \in Nodes \ {previous} : next'[n] = next[n]
    /\ guards'[t] = sections \ {t}
    /\ \A u \in Tasks \ {t} : guards'[u] = guards[u] \ {t}

\* One task at most comes before t in the list.
LEMMA ExitFacts ==
    ASSUME Base, NEW rank \in [Nodes -> Nat], NEW top, Order(rank, top),
           NEW t \in Tasks, Exit(t)
    PROVE  \E previous : Left(t, previous, rank)
<1>. USE Kinds
<1>1. PICK previous \in Ring : next[previous] = t /\ next' = [next EXCEPT ![previous] = next[t]]
  BY DEF Exit, Ring
<1>2. state[t] = "listed" /\ state' = [state EXCEPT ![t] = "unlinked"]
  BY DEF Exit
<1>3. state'[t] = "unlinked" /\ \A u \in Tasks \ {t} : state'[u] = state[u]
  BY <1>2 DEF Base, Typed
<1>4. Ring \subseteq Nodes /\ t \in Ring /\ t \in Listed /\ t # "init_task"
  BY <1>2 DEF Ring, Listed
<1>5. Listed' = Listed \ {t} /\ Ring' = Ring \ {t}
  BY <1>3, <1>4 DEF Ring, Listed
<1>6. \A n \in Nodes : next[n] # "init_task" => rank[n] < rank[next[n]] /\ rank[n] \in Nat /\ next[n] \in Nodes
  BY DEF Order, Base, Typed
<1>7. rank[previous] < rank[t] /\ previous # t /\ next[t] # t
      /\ (next[t] # "init_task" => rank[t] < rank[next[t]])
  BY <1>1, <1>4, <1>6
<1>8. next'[previous] = next[t] /\ \A n \in Nodes \ {previous} : next'[n] = next[n]
  BY <1>1, <1>4 DEF Base, Typed
<1>9. ASSUME NEW n \in Ring, next[n] = t PROVE n = previous
  <2>1. rank[n] < rank[t] /\ rank[n] \in Nat /\ rank[previous] \in Nat /\ rank[t] \in Nat
    BY <1>1, <1>4, <1>6, <1>9
  <2>2. rank[n] = rank[previous] => n = previous
    BY <1>1 DEF Order, Ring, Listed
  <2>3. ~(rank[n] < rank[previous])
    <3>1. SUFFICES ASSUME rank[n] < rank[previous] PROVE FALSE
      OBVIOUS
    <3>2. previous \in Listed
      BY <2>1, <3>1 DEF Order, Ring
    <3>3. rank[t] <= rank[previous]
      BY <1>9, <3>1, <3>2 DEF Order
    <3>. QED
      BY <1>7, <2>1, <3>3
  <2>4. ~(rank[previous] < rank[n])
    <3>1. SUFFICES ASSUME rank[previous] < rank[n] PROVE FALSE
      OBVIOUS
    <3>2. n \in Listed
      BY <2>1, <3>1 DEF Order, Ring
    <3>3. rank[t] <= rank[n]
      BY <1>1, <3>1, <3>2 DEF Order
    <3>. QED
      BY <2>1, <3>3
  <2>. QED
    BY <2>1, <2>2, <2>3, <2>4
<1>10. guards'[t] = sections \ {t} /\ \A u \in Tasks \ {t} : guards'[u] = guards[u] \ {t}
  BY DEF Exit
<1>. QED
  BY <1>1, <1>2, <1>3, <1>4, <1>5, <1>7, <1>8, <1>9, <1>10 DEF Left

\* The order of those that stay is the same.
LEMMA ExitOrder ==
    ASSUME Base, NEW rank \in [Nodes -> Nat], NEW top, Order(rank, top),
           NEW t \in Tasks, NEW previous, Left(t, previous, rank)
    PROVE  Order(rank, top)'
<1>. USE Kinds DEF Left
<1>1. Ring \subseteq Nodes /\ Listed \subseteq Tasks /\ Listed \subseteq Ring
  BY DEF Ring, Listed
<1>2. \A u \in Tasks : state'[u] # "unborn" <=> state[u] # "unborn"
  OBVIOUS
<1>3. \A u \in Tasks : state'[u] \in {"unborn", "freed"} => next'[u] = "init_task"
  BY DEF Order, Ring, Listed
<1>4. ASSUME NEW n \in Ring' PROVE next'[n] \in Ring'
  <2>1. next[t] \in Ring /\ next[n] \in Ring
    BY <1>4 DEF Order
  <2>. QED
    BY <1>1, <1>4, <2>1
<1>5. ASSUME NEW n \in Nodes, next'[n] # "init_task" PROVE rank[n] < rank[next'[n]]
  <2>1. CASE n = previous
    <3>1. rank[n] \in Nat /\ rank[t] \in Nat /\ rank[next[t]] \in Nat
      BY <2>1 DEF Base, Typed
    <3>. QED
      BY <1>5, <2>1, <3>1
  <2>2. CASE n # previous
    BY <1>5, <2>2 DEF Order
  <2>. QED
    BY <2>1, <2>2
<1>6. ASSUME NEW n \in Ring', NEW x \in Listed', rank[n] < rank[x]
      PROVE  next'[n] # "init_task" /\ rank[next'[n]] <= rank[x]
  <2>1. next[n] # "init_task" /\ rank[next[n]] <= rank[x] /\ x \in Tasks /\ x # t
    BY <1>1, <1>6 DEF Order
  <2>2. CASE n = previous
    <3>1. rank[t] <= rank[x] /\ rank[t] \in Nat /\ rank[x] \in Nat
      BY <2>1, <2>2
    <3>2. rank[t] # rank[x]
      BY <1>6, <2>1 DEF Order, Listed
    <3>3. rank[t] < rank[x]
      BY <3>1, <3>2
    <3>. QED
      BY <1>6, <2>2, <3>3 DEF Order
  <2>3. CASE n # previous
    BY <1>1, <2>1, <2>3
  <2>. QED
    BY <2>2, <2>3
<1>. QED
  BY <1>2, <1>3, <1>4, <1>5, <1>6 DEF Order

\* The walks of a caller that is not the one that exits can go on, for the task
\* keeps its link, and waits for them.
LEMMA ExitWalks ==
    ASSUME Base, NEW rank \in [Nodes -> Nat], NEW top, Order(rank, top),
           NEW t \in Tasks, Exit(t), NEW previous, Left(t, previous, rank),
           NEW c \in Callers, OfCaller(c, rank)
    PROVE  Chained(c)' /\ Reaching(c, rank)' /\ Standing(c)'
<1>. USE Kinds
<1>1. /\ UNCHANGED <<call, at, here, lost, slept, met>>
      /\ Counting' = Counting /\ InCall(c)' = InCall(c) /\ Holding(c)' = Holding(c)
  BY DEF Exit, kernel, walk, Counting, InCall, Holding
<1>2. stayed'[c] = stayed[c] \ {t} /\ (t \in Callers => at[t] = "over")
  BY DEF Exit, Base, Typed
<1>3. Ring \subseteq Nodes /\ Listed \subseteq Ring /\ t \in Listed /\ stayed[c] \subseteq Listed
  BY DEF Ring, Listed, Base, Kept, Left
<1>4. Listed' = Listed \ {t} /\ Ring' = Ring \ {t} /\ next[t] \in Ring /\ next[t] # t
  BY DEF Left, Order
<1>5. /\ \A u \in Tasks \ {t} : c \in guards'[u] <=> (c \in guards[u] /\ c # t)
      /\ c \in guards'[t] <=> (c \in sections /\ c # t)
      /\ \A u \in Tasks : c \in guards[u] => c \in sections /\ u # t
  BY <1>3 DEF Left, Base, Guarding, Listed
<1>6. Chained(c)'
  <2>1. ASSUME NEW u \in Tasks, c \in guards'[u] PROVE next'[u] \in Ring' \/ c \in guards'[next'[u]]
    <3>1. c # t /\ c \in sections
      BY <1>5, <2>1
    <3>2. CASE u = t
      BY <1>4, <3>2 DEF Left
    <3>3. CASE u # t
      <4>1. c \in guards[u] /\ u # previous /\ next'[u] = next[u] /\ next[u] \in Nodes
        BY <1>5, <2>1, <3>3 DEF Left, Base, Guarding, Ring, Listed, Typed
      <4>2. next[u] \in Ring \/ (next[u] \in Tasks /\ c \in guards[next[u]])
        BY <4>1 DEF OfCaller, Chained, Ring
      <4>. QED
        BY <1>4, <1>5, <3>1, <4>1, <4>2
    <3>. QED
      BY <3>2, <3>3
  <2>. QED
    BY <2>1 DEF Chained
<1>7. Reaching(c, rank)'
  <2>1. SUFFICES ASSUME InCall(c), c \notin lost,
                        NEW n \in Known(c)' \cup {"init_task"}, n \in Tasks => state'[n] # "freed"
                 PROVE  /\ next'[n] \in Known(c)' \cup {"init_task"}
                        /\ \A x \in stayed'[c] : rank[n] < rank[x] =>
                              next'[n] # "init_task" /\ rank[next'[n]] <= rank[x]
    BY <1>1 DEF Reaching
  <2>2. c # t
    BY <1>2, <2>1 DEF InCall
  <2>3. Known(c) \subseteq Tasks /\ Known(c)' \subseteq Known(c)
    BY <1>1, <1>3, <1>4, <1>5 DEF Known, Base, Typed, Listed
  <2>4. n \in Known(c) \cup {"init_task"} /\ n \in Nodes /\ (n \in Tasks => state[n] # "freed")
    BY <2>1, <2>3 DEF Left
  <2>5. /\ next[n] \in Known(c) \cup {"init_task"}
        /\ \A x \in stayed[c] : rank[n] < rank[x] =>
              next[n] # "init_task" /\ rank[next[n]] <= rank[x]
    BY <2>1, <2>4 DEF OfCaller, Reaching
  <2>6. next'[n] \in Known(c)' \cup {"init_task"}
    <3>1. CASE Counting /\ n = previous
      <4>1. t \in Known(c) /\ state[t] # "freed" /\ next'[n] = next[t]
        BY <2>5, <3>1 DEF Left
      <4>2. next[t] \in Known(c) \cup {"init_task"}
        BY <2>1, <4>1 DEF OfCaller, Reaching
      <4>. QED
        BY <1>1, <3>1, <4>1, <4>2 DEF Known
    <3>2. CASE Counting /\ n # previous
      BY <1>1, <2>4, <2>5, <3>2 DEF Known, Left
    <3>3. CASE ~Counting /\ n = previous
      BY <1>1, <1>4, <3>3 DEF Known, Left, Ring
    <3>4. CASE ~Counting /\ n # previous
      <4>1. next'[n] = next[n]
        BY <2>4, <3>4 DEF Left
      <4>2. CASE next[n] # t
        <5>1. next[n] \in Listed \cup {u \in Tasks : c \in guards[u]} \cup {"init_task"}
          BY <2>5, <3>4 DEF Known
        <5>. QED
          BY <1>1, <1>4, <1>5, <2>2, <3>4, <4>1, <4>2, <5>1 DEF Known
      <4>3. CASE next[n] = t
        <5>1. n \notin Ring /\ n # t
          BY <1>4, <3>4, <4>3 DEF Left
        <5>2. n \in Tasks /\ c \in guards[n]
          BY <2>4, <3>4, <5>1 DEF Known, Ring
        <5>3. c \in guards'[t]
          BY <1>5, <2>2, <5>2
        <5>. QED
          BY <1>1, <3>4, <4>1, <4>3, <5>3 DEF Known
      <4>. QED
        BY <4>2, <4>3
    <3>. QED
      BY <3>1, <3>2, <3>3, <3>4
  <2>7. ASSUME NEW x \in stayed'[c], rank[n] < rank[x]
        PROVE  next'[n] # "init_task" /\ rank[next'[n]] <= rank[x]
    <3>1. x \in stayed[c] /\ x \in Listed /\ x # t
      BY <1>2, <1>3
    <3>2. CASE n = previous
      <4>1. rank[t] <= rank[x] /\ rank[t] \in Nat /\ rank[x] \in Nat
        BY <1>3, <2>5, <2>7, <3>1, <3>2 DEF Left
      <4>2. rank[t] # rank[x]
        BY <1>3, <3>1 DEF Order, Listed
      <4>3. rank[t] < rank[x] /\ t \in Ring
        BY <1>3, <4>1, <4>2
      <4>. QED
        BY <3>1, <3>2, <4>3 DEF Order, Left
    <3>3. CASE n # previous
      BY <2>4, <2>5, <2>7, <3>1, <3>3 DEF Left
    <3>. QED
      BY <3>2, <3>3
  <2>. QED
    BY <2>6, <2>7
<1>8. Standing(c)'
  <2>1. ASSUME Holding(c), ~slept[c] PROVE here[c] \in Ring' \/ c \in guards'[here[c]]
    <3>1. c \in sections /\ c # t
      BY <1>2, <2>1 DEF Base, InSection, Holding
    <3>2. here[c] \in Ring \/ c \in guards[here[c]]
      BY <2>1 DEF OfCaller, Standing
    <3>3. here[c] \in Tasks \/ here[c] = "init_task"
      BY DEF Base, Typed
    <3>. QED
      BY <1>4, <1>5, <3>1, <3>2, <3>3 DEF Ring, Left
  <2>2. ASSUME at[c] \in {"visit", "tally"} PROVE here[c] \in Known(c)' \cup {"init_task"}
    BY <1>1, <2>2 DEF OfCaller, Standing, Known, Base, Placed
  <2>. QED
    BY <1>1, <2>1, <2>2 DEF OfCaller, Standing
<1>. QED
  BY <1>6, <1>7, <1>8

\* What has been found, reported and counted does not depend on a task that
\* has exited.
LEMMA ExitAnswers ==
    ASSUME Base, NEW rank \in [Nodes -> Nat],
           NEW t \in Tasks, Exit(t), NEW c \in Callers, OfCaller(c, rank)
    PROVE  /\ Searching(c, rank)' /\ CountingUp(c, rank)'
           /\ Listing(c, rank)' /\ Undisturbed(c, rank)'
<1>. USE Kinds
<1>1. /\ UNCHANGED <<call, uid, weight, at, arg, num, here, result, existing, count, met, reported, overlapped>>
      /\ Counting' = Counting /\ InTable' = InTable
  BY DEF Exit, kernel, walk, table, Counting, InTable
<1>2. /\ stayed'[c] \subseteq stayed[c]
      /\ shrunk'[c] = (shrunk[c] \/ (call = "by_index" /\ state[c] = "listed"))
  BY DEF Exit, Base, Typed
<1>3. stayed[c] \in SUBSET Tasks /\ stayed'[c] \in SUBSET Tasks /\ met[c] \in SUBSET Tasks
  BY <1>2 DEF Base, Typed
<1>4. Searching(c, rank)'
  BY <1>1, <1>2 DEF OfCaller, Searching
<1>5. CountingUp(c, rank)'
  <2>1. SUFFICES ASSUME call = "by_index" PROVE CountingUp(c, rank)'
    BY <1>1 DEF CountingUp
  <2>2. ASSUME at[c] \in {"walk", "step", "end"}
        PROVE  Cardinality({x \in stayed'[c] : rank[x] <= rank[here[c]]}) <= num[c]
    <3>. DEFINE S == {x \in stayed[c] : rank[x] <= rank[here[c]]}
                T == {x \in stayed'[c] : rank[x] <= rank[here[c]]}
    <3>1. T \in SUBSET S /\ S \in SUBSET Nodes
      BY <1>2, <1>3
    <3>2. Cardinality(S) <= num[c]
      BY <2>1, <2>2 DEF OfCaller, CountingUp
    <3>3. num[c] \in Nat
      BY DEF Base, Typed
    <3>. HIDE DEF S, T
    <3>4. Cardinality(T) <= Cardinality(S) /\ Cardinality(T) \in Nat /\ Cardinality(S) \in Nat
      BY <3>1, NodeSets
    <3>5. Cardinality(T) <= num[c]
      BY <3>2, <3>3, <3>4
    <3>. QED
      BY <3>5 DEF T
  <2>3. ASSUME at[c] = "returned", result[c] = "3" PROVE Cardinality(stayed'[c]) <= arg[c]
    <3>1. Cardinality(stayed[c]) <= arg[c] /\ arg[c] \in Nat
      BY <2>1, <2>3 DEF OfCaller, CountingUp, Base, Typed
    <3>2. /\ Cardinality(stayed'[c]) <= Cardinality(stayed[c])
          /\ Cardinality(stayed'[c]) \in Nat /\ Cardinality(stayed[c]) \in Nat
      BY <1>2, <1>3, NodeSets
    <3>. QED
      BY <3>1, <3>2
  <2>4. {x \in stayed[c] : rank[x] <= rank[here[c]]}' = {x \in stayed'[c] : rank[x] <= rank[here[c]]}
    BY <1>1
  <2>. QED
    BY <1>1, <2>1, <2>2, <2>3, <2>4 DEF OfCaller, CountingUp
<1>6. Listing(c, rank)'
  <2>1. SUFFICES ASSUME call = "by_index", ~shrunk'[c] PROVE Listing(c, rank)'
    BY <1>1 DEF Listing
  <2>2. ~shrunk[c] /\ state[c] # "listed"
    BY <1>2, <2>1
  <2>3. at[c] \in {"idle", "over"} /\ (at[c] = "idle" => reported[c] = {})
    BY <2>2 DEF Base, Placed
  <2>4. at[c] = "idle" => Cardinality(reported[c]) = arg[c]
    BY <2>1, <2>2 DEF OfCaller, Listing
  <2>5. at[c] = "idle" => arg[c] < Cardinality(Ring')
    <3>1. SUFFICES ASSUME at[c] = "idle" PROVE arg[c] < Cardinality(Ring')
      OBVIOUS
    <3>2. arg[c] = 0
      BY <2>3, <2>4, <3>1, FS_EmptySet
    <3>3. {"init_task"} \subseteq Ring' /\ Ring' \in SUBSET Nodes
      BY DEF Ring, Listed
    <3>4. Cardinality({"init_task"}) = 1
      BY FS_Singleton
    <3>5. Cardinality({"init_task"}) <= Cardinality(Ring') /\ Cardinality(Ring') \in Nat
      BY <3>3, NodeSets
    <3>. QED
      BY <3>2, <3>4, <3>5
  <2>. QED
    BY <1>1, <2>3, <2>4, <2>5 DEF Listing
<1>7. Undisturbed(c, rank)'
  <2>1. SUFFICES ASSUME Counting, ~overlapped[c] PROVE Undisturbed(c, rank)'
    BY <1>1 DEF Undisturbed
  <2>2. ASSUME at[c] \in {"visit", "tally", "scan"} PROVE Tallying(c, rank)'
    <3>. DEFINE S2 == Passed(c, stayed[c], rank)'
    <3>1. Tallying(c, rank)
      BY <2>1, <2>2 DEF OfCaller, Undisturbed
    <3>2. /\ Passed(c, met[c], rank)' = Passed(c, met[c], rank)
          /\ S2 \subseteq Passed(c, stayed[c], rank)
          /\ Passed(c, stayed[c], rank) \in SUBSET Tasks
      BY <1>1, <1>2, <1>3 DEF Passed
    <3>3. /\ \A u : Weight(Passed(c, stayed[c], rank), u)' = Weight(S2, u)
          /\ \A e : Weight(Passed(c, met[c], rank), uid[e[2]])' = Weight(Passed(c, met[c], rank), uid[e[2]])
      BY <1>1, <3>2 DEF Weight
    <3>. HIDE DEF S2
    <3>4. \A u : /\ Weight(S2, u) \in Nat /\ Weight(Passed(c, stayed[c], rank), u) \in Nat
                 /\ Weight(S2, u) <= Weight(Passed(c, stayed[c], rank), u)
      BY <3>2, Weights DEF Base
    <3>5. ASSUME NEW u \in Uids, Weight(S2, u) # 0
          PROVE  \E e \in InTable : uid[e[2]] = u /\ Weight(S2, u) <= count[e]
      <4>1. Weight(Passed(c, stayed[c], rank), u) # 0
        BY <3>4, <3>5
      <4>2. PICK e \in InTable : uid[e[2]] = u /\ Weight(Passed(c, stayed[c], rank), u) <= count[e]
        BY <3>1, <4>1 DEF Tallying
      <4>3. count[e] \in Nat
        BY <4>2 DEF InTable, Base, Typed
      <4>4. Weight(S2, u) <= count[e]
        BY <3>4, <4>2, <4>3
      <4>. QED
        BY <4>2, <4>4
    <3>. QED
      BY <1>1, <3>1, <3>3, <3>5 DEF Tallying
  <2>3. ASSUME at[c] \in {"cleanup", "deleting", "returned"}, NEW u \in Uids
        PROVE  Weight(stayed'[c], u) <= Weight(met[c], result[c])
    <3>1. Weight(stayed[c], u) <= Weight(met[c], result[c])
      BY <2>1, <2>3 DEF OfCaller, Undisturbed
    <3>2. Weight(stayed'[c], u) <= Weight(stayed[c], u)
          /\ Weight(stayed'[c], u) \in Nat /\ Weight(stayed[c], u) \in Nat
      BY <1>2, <1>3, Weights DEF Base
    <3>3. Weight(met[c], result[c]) \in Nat
      BY <1>3, Weights DEF Base
    <3>. QED
      BY <3>1, <3>2, <3>3
  <2>4. /\ \A u : Weight(stayed[c], u)' = Weight(stayed'[c], u)
        /\ Weight(met[c], result[c])' = Weight(met[c], result[c])
    BY <1>1 DEF Weight
  <2>. QED
    BY <1>1, <2>1, <2>2, <2>3, <2>4 DEF OfCaller, Undisturbed
<1>. QED
  BY <1>4, <1>5, <1>6, <1>7

------------------------------------------------------------------------------
(* A task is freed.                                                        *)

\* No section that is open still leads to a task that is freed.
LEMMA FreeOwn ==
    ASSUME Base, NEW rank \in [Nodes -> Nat], NEW top, Order(rank, top),
           NEW t \in Tasks, Free(t)
    PROVE  Order(rank, top)' /\ \A c \in Callers : OfCaller(c, rank) => OfCaller(c, rank)'
<1>. USE Kinds
<1>1. /\ state[t] = "unlinked" /\ guards[t] = {}
      /\ state'[t] = "freed" /\ \A u \in Tasks \ {t} : state'[u] = state[u]
      /\ next'[t] = "init_task" /\ \A n \in Nodes \ {t} : next'[n] = next[n]
      /\ UNCHANGED <<kernel, rcu, walk, table, lost, history>>
  BY DEF Free, Base, Typed
<1>2. Listed' = Listed /\ Ring' = Ring /\ t \notin Ring /\ Ring \subseteq Nodes /\ Listed \subseteq Tasks
  BY <1>1 DEF Ring, Listed
<1>3. Order(rank, top)'
  <2>1. \A u \in Tasks : state'[u] # "unborn" <=> state[u] # "unborn"
    BY <1>1
  <2>2. \A u \in Tasks : state'[u] \in {"unborn", "freed"} => next'[u] = "init_task"
    BY <1>1 DEF Order
  <2>3. \A n \in Ring : next'[n] = next[n]
    BY <1>1, <1>2
  <2>4. \A n \in Nodes : next'[n] # "init_task" => rank[n] < rank[next'[n]]
    BY <1>1 DEF Order
  <2>. QED
    BY <1>2, <2>1, <2>2, <2>3, <2>4 DEF Order
<1>4. ASSUME NEW c \in Callers, OfCaller(c, rank) PROVE OfCaller(c, rank)'
  <2>1. Counting' = Counting /\ InCall(c)' = InCall(c) /\ Holding(c)' = Holding(c)
    BY <1>1 DEF kernel, walk, Counting, InCall, Holding
  <2>2. Known(c)' = Known(c) /\ Known(c) \subseteq Tasks
    BY <1>1, <1>2, <2>1 DEF Known, rcu, history, Base, Typed
  <2>3. Chained(c)'
    <3>1. ASSUME NEW u \in Tasks, c \in guards[u] PROVE next'[u] = next[u]
      BY <1>1, <3>1
    <3>. QED
      BY <1>1, <1>2, <1>4, <3>1 DEF OfCaller, Chained, rcu
  <2>4. Reaching(c, rank)'
    <3>1. ASSUME NEW n \in Known(c) \cup {"init_task"}, n \in Tasks => state'[n] # "freed"
          PROVE  next'[n] = next[n] /\ (n \in Tasks => state[n] # "freed")
      BY <1>1, <2>2, <3>1
    <3>. QED
      BY <1>1, <1>4, <2>1, <2>2, <3>1 DEF OfCaller, Reaching, history
  <2>5. Standing(c)'
    BY <1>1, <1>2, <1>4, <2>1, <2>2 DEF OfCaller, Standing, rcu, walk, history
  <2>6. Searching(c, rank)' /\ CountingUp(c, rank)' /\ Listing(c, rank)'
    BY <1>1, <1>2, <1>4 DEF OfCaller, Searching, CountingUp, Listing, kernel, walk, history
  <2>7. Undisturbed(c, rank)'
    <3>1. Tallying(c, rank) => Tallying(c, rank)'
      BY <1>1, TallyingKept DEF kernel, walk, table, history
    <3>2. /\ \A u : Weight(stayed[c], u)' = Weight(stayed[c], u)
          /\ Weight(met[c], result[c])' = Weight(met[c], result[c])
          /\ InTable' = InTable
      BY <1>1 DEF Weight, InTable, kernel, walk, table, history
    <3>. QED
      BY <1>1, <1>4, <2>1, <3>1, <3>2 DEF OfCaller, Undisturbed, kernel, walk, table, history
  <2>. QED
    BY <2>3, <2>4, <2>5, <2>6, <2>7 DEF OfCaller
<1>. QED
  BY <1>3, <1>4

\* The order and what depends on it after a step of the kernel.
LEMMA ListOrdered ==
    ASSUME Base, NEW rank \in [Nodes -> Nat], NEW top \in Nat, Ordered(rank, top),
           NEW t \in Tasks, Fork(t) \/ Exit(t) \/ Free(t)
    PROVE  \E later \in [Nodes -> Nat], newtop \in Nat : Ordered(later, newtop)'
<1>1. CASE Fork(t)
  <2>. DEFINE later == [rank EXCEPT ![t] = top + 1]
  <2>1. Order(rank, top)
    BY DEF Ordered
  <2>2. later \in [Nodes -> Nat] /\ \E last : Forked(t, last, rank, later, top)
    BY <1>1, <2>1, ForkFacts
  <2>. HIDE DEF later
  <2>3. PICK last : Forked(t, last, rank, later, top)
    BY <2>2
  <2>4. Order(later, top + 1)'
    BY <2>1, <2>2, <2>3, ForkOrder
  <2>5. ASSUME NEW c \in Callers PROVE OfCaller(c, later)'
    <3>1. OfCaller(c, rank)
      BY DEF Ordered
    <3>2. /\ Chained(c)' /\ Reaching(c, later)' /\ Standing(c)'
          /\ Searching(c, later)' /\ CountingUp(c, later)' /\ Listing(c, later)'
      BY <1>1, <2>1, <2>2, <2>3, <3>1, ForkWalks
    <3>3. Undisturbed(c, later)'
      BY <1>1, <2>1, <2>2, <2>3, <3>1, ForkCensus
    <3>. QED
      BY <3>2, <3>3 DEF OfCaller
  <2>6. Ordered(later, top + 1)' /\ top + 1 \in Nat
    BY <2>4, <2>5 DEF Ordered
  <2>. QED
    BY <2>2, <2>6
<1>2. CASE Exit(t)
  <2>1. Order(rank, top)
    BY DEF Ordered
  <2>2. PICK previous : Left(t, previous, rank)
    BY <1>2, <2>1, ExitFacts
  <2>3. Order(rank, top)'
    BY <2>1, <2>2, ExitOrder
  <2>4. ASSUME NEW c \in Callers PROVE OfCaller(c, rank)'
    <3>1. OfCaller(c, rank)
      BY DEF Ordered
    <3>2. Chained(c)' /\ Reaching(c, rank)' /\ Standing(c)'
      BY <1>2, <2>1, <2>2, <3>1, ExitWalks
    <3>3. Searching(c, rank)' /\ CountingUp(c, rank)' /\ Listing(c, rank)' /\ Undisturbed(c, rank)'
      BY <1>2, <3>1, ExitAnswers
    <3>. QED
      BY <3>2, <3>3 DEF OfCaller
  <2>5. Ordered(rank, top)'
    BY <2>3, <2>4 DEF Ordered
  <2>. QED
    BY <2>5
<1>3. CASE Free(t)
  <2>1. Order(rank, top) /\ \A c \in Callers : OfCaller(c, rank)
    BY DEF Ordered
  <2>2. Ordered(rank, top)'
    BY <1>3, <2>1, FreeOwn DEF Ordered
  <2>. QED
    BY <2>2
<1>. QED
  BY <1>1, <1>2, <1>3

------------------------------------------------------------------------------
(* The invariant and the theorems.                                         *)

\* The order and what depends on it after a step of a program.
LEMMA ProgramOrdered ==
    ASSUME Base, NEW rank \in [Nodes -> Nat], NEW top \in Nat, Ordered(rank, top),
           NEW c \in Callers, Program(c)
    PROVE  Local(c) /\ Base' /\ Ordered(rank, top)'
<1>1. Order(rank, top) /\ OfCaller(c, rank) /\ Typed
  BY DEF Ordered, Base
<1>2. SUFFICES ASSUME Local(c), Base', OfCaller(c, rank)'
               PROVE  Local(c) /\ Base' /\ Ordered(rank, top)'
  <2>1. CASE Call(c)
    BY <1>1, <1>2, <2>1, CallLocal, BeginBase, BeginOwn
  <2>2. CASE Sleep(c)
    BY <1>1, <1>2, <2>2, CallLocal, CallBase, SleepOwn
  <2>3. CASE Dangle(c) \/ Spoilt(c)
    <3>1. Lose(c)
      BY <2>3 DEF Dangle, Spoilt
    <3>. QED
      BY <1>1, <1>2, <2>3, <3>1, CallLocal, CallBase, LoseOwn
  <2>4. CASE Continue(c)
    BY <1>1, <1>2, <2>4, CallLocal, CallBase, ContinueOwn
  <2>5. CASE Walk(c)
    <3>1. OfCaller(c, rank)'
      BY <1>1, <2>5, TestOwn, AdvanceOwn, FoundOwn, NotFoundOwn, AnswerOwn DEF Walk
    <3>. QED
      BY <1>1, <1>2, <2>5, <3>1, WalkLocal, WalkBase
  <2>6. CASE Visit(c) \/ Tally(c) \/ EndWalk(c) \/ Scan(c) \/ Delete(c) \/ EndCall(c)
    <3>1. OfCaller(c, rank)'
      BY <1>1, <2>6, VisitOwn, TallyOwn, EndWalkOwn, ScanOwn, DeleteOwn
    <3>2. Standing(c)
      BY <1>1 DEF OfCaller
    <3>. QED
      BY <1>1, <1>2, <2>6, <3>1, <3>2, CensusLocal, CensusBase
  <2>. QED
    BY <2>1, <2>2, <2>3, <2>4, <2>5, <2>6 DEF Program, Census
<1>3. ASSUME NEW d \in Callers PROVE OfCaller(d, rank)'
  <2>1. OfCaller(d, rank)
    BY DEF Ordered
  <2>. QED
    BY <1>2, <2>1, OthersUndisturbed
<1>4. Order(rank, top)'
  BY <1>1, <1>2, OrderKept DEF Local
<1>. QED
  BY <1>2, <1>3, <1>4 DEF Ordered

\* A call that comes to a task or an entry that has been freed has slept, or its
\* census has overlapped with another.
LEMMA LostForAReason ==
    ASSUME Base, NEW rank, NEW c \in Callers, OfCaller(c, rank), Dangle(c) \/ Spoilt(c)
    PROVE  slept[c] \/ (Counting /\ overlapped[c])
<1>1. CASE Dangle(c)
  <2>1. SUFFICES ASSUME ~slept[c] PROVE FALSE
    OBVIOUS
  <2>2. here[c] \in Ring \/ c \in guards[here[c]]
    BY <1>1, <2>1 DEF Dangle, OfCaller, Standing, Holding
  <2>3. here[c] \in Tasks /\ state[here[c]] = "freed"
    BY <1>1 DEF Dangle, Valid
  <2>. QED
    BY <2>2, <2>3, Kinds DEF Ring, Listed, Base, Guarding
<1>2. CASE Spoilt(c)
  <2>1. SUFFICES ASSUME ~overlapped[c] PROVE FALSE
    BY <1>2 DEF Spoilt
  <2>2. Counting /\ Undisturbed(c, rank)
    BY <1>2 DEF Spoilt, OfCaller
  <2>3. CASE at[c] = "tally" /\ existing[c] # NULL /\ existing[c] \notin InTable
    BY <2>1, <2>2, <2>3 DEF Undisturbed
  <2>4. CASE at[c] = "cleanup" /\ InTable = {}
    BY <2>1, <2>2, <2>4 DEF Undisturbed
  <2>5. CASE InCall(c) /\ Disturbed(c)
    <3>1. PICK d \in Callers \ {c} : InCall(d)
      BY <2>5 DEF Disturbed, InCall
    <3>. QED
      BY <2>1, <2>5, <3>1 DEF Base, Overlaps
  <2>. QED
    BY <1>2, <2>3, <2>4, <2>5 DEF Spoilt, InCall
<1>. QED
  BY <1>1, <1>2

\* Only these steps lose a call.
LEMMA LostKept ==
    ASSUME Base, LostOnlyBySleepOrOverlap, NEW rank, NEW c \in Callers, OfCaller(c, rank),
           Local(c), Program(c)
    PROVE  LostOnlyBySleepOrOverlap'
<1>1. Counting' = Counting
  BY DEF Local, kernel, Counting
<1>2. ASSUME NEW d \in lost', d # c PROVE slept'[d] \/ (Counting' /\ overlapped'[d])
  <2>1. d \in Callers /\ d \in lost
    <3>1. lost' \subseteq Callers
      <4>1. lost' \subseteq lost \cup {c}
        BY DEF Program, Call, Begin, Sleep, Dangle, Lose, Walk, Test, Advance, Found, NotFound, Answer,
               Census, Visit, Tally, EndWalk, Scan, Delete, EndCall, Spoilt, Continue
      <4>. QED
        BY <4>1 DEF Base, Typed
    <3>. QED
      BY <1>2, <3>1 DEF Local
  <2>. QED
    BY <1>1, <1>2, <2>1 DEF Local, LostOnlyBySleepOrOverlap
<1>3. ASSUME c \in lost' PROVE slept'[c] \/ (Counting' /\ overlapped'[c])
  <2>1. Dangle(c) \/ Spoilt(c)
    BY <1>3 DEF Program, Call, Begin, Sleep, Walk, Test, Advance, Found, NotFound, Answer,
               Census, Visit, Tally, EndWalk, Scan, Delete, EndCall, Continue, Goto
  <2>2. UNCHANGED <<slept, overlapped>>
    BY <2>1 DEF Dangle, Spoilt, Lose
  <2>. QED
    BY <1>1, <2>1, <2>2, LostForAReason
<1>. QED
  BY <1>2, <1>3 DEF LostOnlyBySleepOrOverlap

\* What comes after n in the list that leads through the other processes in
\* some order.
After(order, n) ==
    LET list == <<"init_task">> \o order \o <<"init_task">>
    IN  list[1 + CHOOSE i \in 1 .. Len(list) - 1 : list[i] = n]

InOrder(order, n) ==
    /\ n = "init_task" => After(order, n) = IF Cardinality(Others) = 0 THEN "init_task" ELSE order[1]
    /\ \A i \in 1 .. Cardinality(Others) : n = order[i] =>
          After(order, n) = IF i = Cardinality(Others) THEN "init_task" ELSE order[i + 1]
    /\ n \in Others => \E i \in 1 .. Cardinality(Others) : n = order[i]

\* The list at the start is of this kind.
LEMMA InitNext ==
    ASSUME Init
    PROVE  \E order \in [1 .. Cardinality(Others) -> Others] :
              /\ IsInjective(order)
              /\ next = [n \in Nodes |-> IF n \in Callers THEN "init_task" ELSE After(order, n)]
BY DEF Init, After

\* There are finitely many other processes.
LEMMA OthersCounted == Cardinality(Others) \in Nat
BY ConstantsAssumption, FS_CardinalityType

\* The list leads through all of them, in that order.
LEMMA InitList ==
    ASSUME NEW order \in [1 .. Cardinality(Others) -> Others], IsInjective(order),
           NEW n \in Others \cup {"init_task"}
    PROVE  InOrder(order, n)
<1>. DEFINE N == Cardinality(Others)
            first == <<"init_task">> \o order
            list == first \o <<"init_task">>
<1>1. N \in Nat
  BY ConstantsAssumption, FS_CardinalityType
<1>2. order \in Seq(Nodes) /\ Len(order) = N /\ <<"init_task">> \in Seq(Nodes) /\ Len(<<"init_task">>) = 1
      /\ <<"init_task">>[1] = "init_task"
  BY <1>1 DEF Nodes, Tasks
<1>3. /\ first \in Seq(Nodes) /\ Len(first) = N + 1
      /\ \A i \in 1 .. N + 1 : first[i] = IF i <= 1 THEN <<"init_task">>[i] ELSE order[i - 1]
  BY <1>1, <1>2, ConcatProperties
<1>. HIDE DEF first
<1>4. /\ list \in Seq(Nodes) /\ Len(list) = N + 2
      /\ \A i \in 1 .. N + 2 : list[i] = IF i <= N + 1 THEN first[i] ELSE <<"init_task">>[i - (N + 1)]
  <2>1. /\ list \in Seq(Nodes) /\ Len(list) = N + 1 + 1
        /\ \A i \in 1 .. N + 1 + 1 : list[i] = IF i <= N + 1 THEN first[i] ELSE <<"init_task">>[i - (N + 1)]
    BY <1>2, <1>3, ConcatProperties
  <2>2. N + 1 + 1 = N + 2
    BY <1>1
  <2>. QED
    BY <2>1, <2>2
<1>. HIDE DEF list
<1>5. list[1] = "init_task"
  <2>1. 1 \in 1 .. N + 2 /\ 1 \in 1 .. N + 1 /\ 1 <= N + 1 /\ 1 <= 1
    BY <1>1
  <2>. QED
    BY <1>2, <1>3, <1>4, <2>1
<1>6. \A i \in 1 .. N : list[i + 1] = order[i]
  <2>1. ASSUME NEW i \in 1 .. N PROVE list[i + 1] = order[i]
    <3>1. i + 1 \in 1 .. N + 2 /\ i + 1 \in 1 .. N + 1 /\ i + 1 <= N + 1 /\ ~(i + 1 <= 1) /\ i + 1 - 1 = i
      BY <1>1
    <3>2. list[i + 1] = first[i + 1]
      BY <1>4, <3>1
    <3>3. first[i + 1] = order[i + 1 - 1]
      BY <1>3, <3>1
    <3>. QED
      BY <3>1, <3>2, <3>3
  <2>. QED
    BY <2>1
<1>7. list[N + 2] = "init_task"
  <2>1. ASSUME NEW i \in 1 .. N + 2, i = N + 2 PROVE list[i] = "init_task"
    <3>1. ~(i <= N + 1) /\ i - (N + 1) = 1
      BY <1>1, <2>1
    <3>2. list[i] = IF i <= N + 1 THEN first[i] ELSE <<"init_task">>[i - (N + 1)]
      BY <1>4
    <3>. QED
      BY <1>2, <3>1, <3>2
  <2>2. N + 2 \in 1 .. N + 2
    BY <1>1
  <2>. QED
    BY <2>1, <2>2
<1>8. \A i \in 1 .. N : order[i] # "init_task"
  BY ConstantsAssumption
<1>9. \A i, j \in 1 .. N + 1 : list[i] = list[j] => i = j
  <2>1. ASSUME NEW i \in 1 .. N + 1, NEW j \in 1 .. N + 1, list[i] = list[j] PROVE i = j
    <3>1. \A k \in 1 .. N + 1 : k # 1 => k - 1 \in 1 .. N /\ list[k] = order[k - 1]
      <4>1. ASSUME NEW k \in 1 .. N + 1, k # 1 PROVE k - 1 \in 1 .. N /\ list[k] = order[k - 1]
        <5>1. k - 1 \in 1 .. N /\ (k - 1) + 1 = k
          BY <1>1, <4>1
        <5>. QED
          BY <1>6, <5>1
      <4>. QED
        BY <4>1
    <3>2. CASE i = 1 \/ j = 1
      BY <1>5, <1>8, <2>1, <3>1, <3>2
    <3>3. CASE i # 1 /\ j # 1
      <4>1. order[i - 1] = order[j - 1] /\ i - 1 \in 1 .. N /\ j - 1 \in 1 .. N
        BY <2>1, <3>1, <3>3
      <4>2. i - 1 = j - 1
        BY <4>1 DEF IsInjective
      <4>. QED
        BY <1>1, <4>2
    <3>. QED
      BY <3>2, <3>3
  <2>. QED
    BY <2>1
<1>. DEFINE after == list[1 + CHOOSE i \in 1 .. Len(list) - 1 : list[i] = n]
<1>10. ASSUME NEW i \in 1 .. N + 1, list[i] = n PROVE after = list[i + 1]
  <2>1. Len(list) - 1 = N + 1
    BY <1>1, <1>4
  <2>2. (CHOOSE j \in 1 .. N + 1 : list[j] = n) = i
    BY <1>9, <1>10
  <2>3. 1 + i = i + 1
    BY <1>1
  <2>. QED
    BY <2>1, <2>2, <2>3
<1>. HIDE DEF after
<1>11. n = "init_task" => after = IF N = 0 THEN "init_task" ELSE order[1]
  <2>1. SUFFICES ASSUME n = "init_task" PROVE after = IF N = 0 THEN "init_task" ELSE order[1]
    OBVIOUS
  <2>2. 1 \in 1 .. N + 1 /\ 1 + 1 = 2
    BY <1>1
  <2>3. after = list[2]
    BY <1>5, <1>10, <2>1, <2>2
  <2>4. CASE N = 0
    BY <1>7, <2>3, <2>4
  <2>5. CASE N # 0
    <3>1. 1 \in 1 .. N
      BY <1>1, <2>5
    <3>. QED
      BY <1>6, <2>2, <2>3, <2>5, <3>1
  <2>. QED
    BY <2>4, <2>5
<1>12. ASSUME NEW i \in 1 .. N, n = order[i]
       PROVE  after = IF i = N THEN "init_task" ELSE order[i + 1]
  <2>1. i + 1 \in 1 .. N + 1 /\ i + 1 + 1 = i + 2
    BY <1>1
  <2>2. after = list[i + 2]
    BY <1>6, <1>10, <1>12, <2>1
  <2>3. CASE i = N
    BY <1>7, <2>2, <2>3
  <2>4. CASE i # N
    <3>1. i + 1 \in 1 .. N
      BY <1>1, <2>4
    <3>. QED
      BY <1>6, <2>1, <2>2, <2>4, <3>1
  <2>. QED
    BY <2>3, <2>4
<1>13. n \in Others => \E i \in 1 .. N : n = order[i]
  <2>1. order \in Injection(1 .. N, Others) /\ IsFiniteSet(Others)
    BY ConstantsAssumption DEF Injection
  <2>2. Cardinality(1 .. N) = N
    <3>1. Cardinality(1 .. N) = IF 1 > N THEN 0 ELSE N - 1 + 1
      BY <1>1, FS_Interval
    <3>. QED
      BY <1>1, <3>1
  <2>3. order \in Surjection(1 .. N, Others)
    BY <2>1, <2>2, FS_Injection
  <2>. QED
    BY <2>3 DEF Surjection
<1>14. after = After(order, n)
  BY DEF after, list, first, After
<1>. QED
  BY <1>11, <1>12, <1>13, <1>14 DEF InOrder

\* At the start the others are in the list, and nothing has happened.
LEMMA InitBase ==
    ASSUME Init
    PROVE  Base
<1>. USE Kinds, ConstantsAssumption DEF Init
<1>1. next \in [Nodes -> Nodes]
  <2>1. PICK order \in [1 .. Cardinality(Others) -> Others] :
          /\ IsInjective(order)
          /\ next = [n \in Nodes |-> IF n \in Callers THEN "init_task" ELSE After(order, n)]
    BY InitNext
  <2>2. ASSUME NEW n \in Others \cup {"init_task"} PROVE After(order, n) \in Nodes
    <3>1. Cardinality(Others) \in Nat /\ InOrder(order, n)
      BY <2>1, OthersCounted, InitList
    <3>2. \A i \in 1 .. Cardinality(Others) : order[i] \in Nodes
      BY DEF Nodes, Tasks
    <3>3. CASE n = "init_task"
      <4>1. Cardinality(Others) # 0 => 1 \in 1 .. Cardinality(Others)
        BY <3>1
      <4>. QED
        BY <3>1, <3>2, <3>3, <4>1 DEF InOrder, Nodes
    <3>4. CASE n \in Others
      <4>1. PICK i \in 1 .. Cardinality(Others) : n = order[i]
        BY <3>1, <3>4 DEF InOrder
      <4>2. i # Cardinality(Others) => i + 1 \in 1 .. Cardinality(Others)
        BY <3>1, <4>1
      <4>3. After(order, n) = IF i = Cardinality(Others) THEN "init_task" ELSE order[i + 1]
        BY <3>1, <4>1 DEF InOrder
      <4>4. CASE i = Cardinality(Others)
        BY <4>3, <4>4 DEF Nodes
      <4>5. CASE i # Cardinality(Others)
        BY <3>2, <4>2, <4>3, <4>5
      <4>. QED
        BY <4>4, <4>5
    <3>. QED
      BY <3>3, <3>4
  <2>. QED
    BY <2>1, <2>2 DEF Nodes, Tasks
<1>2. uid \in [Tasks -> Uids] /\ weight \in [Tasks -> {0, 1}] /\ preemptible \in BOOLEAN
      /\ call \in {"by_index", "by_pid", "census", "cpu_time"}
  <2>1. weight \in [Tasks -> {0, 1}]
    <3>1. CASE call = "cpu_time"
      BY <3>1
    <3>2. CASE call # "cpu_time"
      BY <3>2
    <3>. QED
      BY <3>1, <3>2
  <2>. QED
    BY <2>1
<1>3. state \in [Tasks -> {"unborn", "listed", "unlinked", "freed"}]
  OBVIOUS
<1>4. count \in [Entries -> Nat \cup {-1}]
  OBVIOUS
<1>5. Typed
  BY <1>1, <1>2, <1>3, <1>4 DEF Typed
<1>6. \A c \in Callers : at[c] = "idle" /\ state[c] = "unborn" /\ ~InCall(c) /\ ~Holding(c)
  BY DEF InCall, Holding, Tasks
<1>7. InTable = {}
  BY DEF InTable
<1>8. Guarding /\ Overlaps
  BY <1>6, <1>7 DEF Guarding, Overlaps
<1>9. \A c \in Callers : Placed(c) /\ InSection(c) /\ Kept(c)
  BY <1>6 DEF Placed, InSection, Kept
<1>. QED
  BY <1>5, <1>8, <1>9 DEF Base

\* They are ordered as the list has them.
LEMMA InitOrdered ==
    ASSUME Init, Base
    PROVE  \E rank \in [Nodes -> Nat], top \in Nat : Ordered(rank, top)
<1>. USE Kinds, ConstantsAssumption
<1>. DEFINE N == Cardinality(Others)
<1>1. PICK order \in [1 .. Cardinality(Others) -> Others] :
        /\ IsInjective(order)
        /\ next = [n \in Nodes |-> IF n \in Callers THEN "init_task" ELSE After(order, n)]
  BY InitNext
<1>2. /\ N \in Nat
      /\ next["init_task"] = IF N = 0 THEN "init_task" ELSE order[1]
      /\ \A i \in 1 .. N : next[order[i]] = IF i = N THEN "init_task" ELSE order[i + 1]
      /\ \A t \in Others : \E i \in 1 .. N : t = order[i]
      /\ \A c \in Callers : next[c] = "init_task"
  <2>1. N \in Nat /\ \A n \in Others \cup {"init_task"} : InOrder(order, n)
    BY <1>1, OthersCounted, InitList
  <2>2. \A n \in Others \cup {"init_task"} : next[n] = After(order, n)
    BY <1>1 DEF Nodes, Tasks
  <2>3. next["init_task"] = IF N = 0 THEN "init_task" ELSE order[1]
    BY <2>1, <2>2 DEF InOrder
  <2>4. \A i \in 1 .. N : next[order[i]] = IF i = N THEN "init_task" ELSE order[i + 1]
    BY <2>1, <2>2 DEF InOrder
  <2>5. \A t \in Others : \E i \in 1 .. N : t = order[i]
    BY <2>1 DEF InOrder
  <2>6. \A c \in Callers : next[c] = "init_task"
    BY <1>1 DEF Nodes, Tasks
  <2>. QED
    BY <2>1, <2>3, <2>4, <2>5, <2>6
<1>3. \A i, j \in 1 .. N : order[i] = order[j] => i = j
  BY <1>1 DEF IsInjective
<1>. DEFINE rank == [n \in Nodes |-> IF n \in Others THEN CHOOSE i \in 1 .. N : n = order[i] ELSE 0]
<1>. HIDE DEF N
<1>4. \A i \in 1 .. N : order[i] \in Others /\ rank[order[i]] = i
  BY <1>3 DEF Nodes, Tasks, N
<1>5. rank \in [Nodes -> Nat] /\ rank["init_task"] = 0 /\ \A c \in Callers : rank[c] = 0
  <2>1. \A n \in Others : (CHOOSE i \in 1 .. N : n = order[i]) \in Nat
    BY <1>2
  <2>. QED
    BY <2>1 DEF Nodes, Tasks
<1>. HIDE DEF rank
<1>6. /\ \A t \in Tasks : state[t] = IF t \in Others THEN "listed" ELSE "unborn"
      /\ Listed = Others /\ Ring = Others \cup {"init_task"}
      /\ \A t \in Others : rank[t] \in 1 .. N /\ t = order[rank[t]]
  <2>1. \A t \in Tasks : state[t] = IF t \in Others THEN "listed" ELSE "unborn"
    BY DEF Init
  <2>2. Listed = Others /\ Ring = Others \cup {"init_task"}
    BY <2>1 DEF Listed, Ring, Tasks
  <2>3. \A t \in Others : rank[t] \in 1 .. N /\ t = order[rank[t]]
    BY <1>2, <1>4
  <2>. QED
    BY <2>1, <2>2, <2>3
<1>7. ASSUME NEW n \in Ring
      PROVE  /\ rank[n] \in 0 .. N
             /\ rank[n] = N => next[n] = "init_task"
             /\ rank[n] # N => next[n] \in Others /\ rank[next[n]] = rank[n] + 1
  <2>1. CASE n = "init_task"
    <3>1. N # 0 => 1 \in 1 .. N
      BY <1>2
    <3>. QED
      BY <1>2, <1>4, <1>5, <2>1, <3>1
  <2>2. CASE n \in Others
    <3>1. rank[n] \in 1 .. N /\ n = order[rank[n]]
      BY <1>6, <2>2
    <3>2. rank[n] # N => rank[n] + 1 \in 1 .. N
      BY <1>2, <3>1
    <3>. QED
      BY <1>2, <1>4, <3>1, <3>2
  <2>. QED
    BY <1>6, <2>1, <2>2
<1>8. Order(rank, N)
  <2>1. \A t \in Tasks : rank[t] <= N
    BY <1>2, <1>5, <1>6 DEF Tasks
  <2>2. \A t \in Tasks : state[t] # "unborn" => t \in Others /\ rank[t] > 0
    BY <1>2, <1>6
  <2>3. \A s, t \in Tasks : state[s] # "unborn" /\ state[t] # "unborn" /\ rank[s] = rank[t] => s = t
    BY <1>6, <2>2
  <2>4. \A t \in Tasks : state[t] \in {"unborn", "freed"} => next[t] = "init_task"
    BY <1>2, <1>6 DEF Tasks
  <2>5. \A n \in Ring : next[n] \in Ring
    BY <1>6, <1>7
  <2>6. ASSUME NEW n \in Nodes, next[n] # "init_task" PROVE rank[n] < rank[next[n]]
    <3>1. n \in Ring
      BY <1>2, <1>6, <2>6 DEF Nodes, Tasks
    <3>. QED
      BY <1>2, <1>7, <2>6, <3>1
  <2>7. ASSUME NEW n \in Ring, NEW t \in Listed, rank[n] < rank[t]
        PROVE  next[n] # "init_task" /\ rank[next[n]] <= rank[t]
    <3>1. rank[n] \in 0 .. N /\ rank[t] \in 1 .. N
      BY <1>6, <1>7
    <3>2. rank[n] # N
      BY <1>2, <2>7, <3>1
    <3>3. next[n] \in Others /\ rank[next[n]] = rank[n] + 1
      BY <1>7, <3>2
    <3>. QED
      BY <1>2, <2>7, <3>1, <3>3
  <2>. QED
    BY <1>5, <2>1, <2>2, <2>3, <2>4, <2>5, <2>6, <2>7 DEF Order
<1>9. ASSUME NEW c \in Callers PROVE OfCaller(c, rank)
  <2>1. /\ at[c] = "idle" /\ reported[c] = {} /\ arg[c] = 0
        /\ ~InCall(c) /\ ~Holding(c)
        /\ \A t \in Tasks : c \notin guards[t]
    BY DEF Init, InCall, Holding
  <2>2. Chained(c) /\ Reaching(c, rank) /\ Standing(c) /\ Searching(c, rank)
    BY <2>1 DEF Chained, Reaching, Standing, Searching
  <2>3. CountingUp(c, rank) /\ Undisturbed(c, rank)
    BY <2>1 DEF CountingUp, Undisturbed
  <2>4. 0 < Cardinality(Ring)
    <3>1. {"init_task"} \subseteq Ring /\ Ring \in SUBSET Nodes /\ Cardinality({"init_task"}) = 1
      BY FS_Singleton DEF Ring, Listed, Nodes
    <3>2. 1 <= Cardinality(Ring) /\ Cardinality(Ring) \in Nat
      BY <3>1, NodeSets
    <3>. QED
      BY <3>2
  <2>5. Listing(c, rank)
    BY <2>1, <2>4, FS_EmptySet DEF Listing
  <2>. QED
    BY <2>2, <2>3, <2>5 DEF OfCaller
<1>. QED
  BY <1>2, <1>5, <1>8, <1>9 DEF Ordered

\* The invariant holds at the start,
LEMMA InitInvariant ==
    ASSUME Init
    PROVE  IInv
<1>1. LostOnlyBySleepOrOverlap
  BY DEF Init, LostOnlyBySleepOrOverlap
<1>. QED
  BY <1>1, InitBase, InitOrdered DEF IInv

\* and every step keeps it.
LEMMA NextInvariant ==
    ASSUME IInv, [Next]_vars
    PROVE  IInv'
<1>1. PICK rank \in [Nodes -> Nat], top \in Nat : Ordered(rank, top)
  BY DEF IInv
<1>2. ASSUME NEW t \in Tasks, Fork(t) \/ Exit(t) \/ Free(t) PROVE IInv'
  <2>1. Base' /\ \E later \in [Nodes -> Nat], newtop \in Nat : Ordered(later, newtop)'
    BY <1>1, <1>2, ListBase, ListOrdered DEF IInv
  <2>2. LostOnlyBySleepOrOverlap'
    <3>1. UNCHANGED <<lost, slept, overlapped, call>>
      BY <1>2 DEF Fork, Exit, Free, kernel, history
    <3>. QED
      BY <3>1 DEF IInv, LostOnlyBySleepOrOverlap, Counting
  <2>. QED
    BY <2>1, <2>2 DEF IInv
<1>3. ASSUME NEW c \in Callers, Program(c) PROVE IInv'
  <2>1. Local(c) /\ Base' /\ Ordered(rank, top)'
    BY <1>1, <1>3, ProgramOrdered DEF IInv
  <2>2. OfCaller(c, rank)
    BY <1>1 DEF Ordered
  <2>3. LostOnlyBySleepOrOverlap'
    BY <1>3, <2>1, <2>2, LostKept DEF IInv
  <2>4. \E later \in [Nodes -> Nat], newtop \in Nat : Ordered(later, newtop)'
    BY <2>1
  <2>. QED
    BY <2>1, <2>3, <2>4 DEF IInv
<1>4. CASE UNCHANGED vars
  <2>. USE <1>4 DEF vars, kernel, rcu, walk, table, history
  <2>1. Base'
    BY DEF IInv, Base, Typed, Guarding, Overlaps, Placed, InSection, Kept, Holding, InCall,
           InTable, Counting, Listed
  <2>2. Order(rank, top)'
    BY <1>1, OrderKept DEF Ordered
  <2>3. LostOnlyBySleepOrOverlap'
    BY DEF IInv, LostOnlyBySleepOrOverlap, Counting
  <2>4. ASSUME NEW c \in Callers PROVE OfCaller(c, rank)'
    <3>1. /\ Counting' = Counting /\ InCall(c)' = InCall(c) /\ Holding(c)' = Holding(c)
          /\ Listed' = Listed /\ Ring' = Ring /\ Known(c)' = Known(c) /\ InTable' = InTable
      BY DEF Counting, InCall, Holding, Listed, Ring, Known, InTable
    <3>2. Tallying(c, rank) => Tallying(c, rank)'
      BY TallyingKept
    <3>3. /\ \A u : Weight(stayed[c], u)' = Weight(stayed[c], u)
          /\ Weight(met[c], result[c])' = Weight(met[c], result[c])
      BY DEF Weight
    <3>4. OfCaller(c, rank)
      BY <1>1 DEF Ordered
    <3>5. Chained(c)' /\ Reaching(c, rank)' /\ Standing(c)'
      BY <3>1, <3>4 DEF OfCaller, Chained, Reaching, Standing
    <3>6. Searching(c, rank)' /\ CountingUp(c, rank)' /\ Listing(c, rank)'
      BY <3>1, <3>4 DEF OfCaller, Searching, CountingUp, Listing
    <3>7. Undisturbed(c, rank)'
      BY <3>1, <3>2, <3>3, <3>4 DEF OfCaller, Undisturbed
    <3>. QED
      BY <3>5, <3>6, <3>7 DEF OfCaller
  <2>5. Ordered(rank, top)'
    BY <2>2, <2>4 DEF Ordered
  <2>6. \E later \in [Nodes -> Nat], newtop \in Nat : Ordered(later, newtop)'
    BY <2>5
  <2>. QED
    BY <2>1, <2>3, <2>6 DEF IInv
<1>. QED
  BY <1>2, <1>3, <1>4 DEF Next

\* The inductive invariant of the task list and its calls: there is an order of
\* the tasks by age, which the list follows, and every call is where this order
\* says that it can be.
THEOREM Invariance == Spec => []IInv
<1>1. Init => IInv
  BY InitInvariant
<1>2. IInv /\ [Next]_vars => IInv'
  BY NextInvariant
<1>. QED
  BY <1>1, <1>2, PTL DEF Spec

\* Whatever is forked and exits during a call, lab04/4 finds every process that
\* stays, lab04/2 does not come to its end before it has told everybody, nor
\* names anybody twice while nobody exits, and a census that meets no other names
\* a user that nobody outnumbers.
THEOREM EveryAnswerHolds == Spec => []AnswersHold
<1>1. ASSUME IInv PROVE AnswersHold
  <2>1. PICK rank \in [Nodes -> Nat], top \in Nat : Ordered(rank, top)
    BY <1>1 DEF IInv
  <2>2. SUFFICES ASSUME NEW c \in Callers \ lost, at[c] = "returned"
                 PROVE  WalkOverlooksNobody(c) /\ CensusCounts(c)
    BY DEF AnswersHold
  <2>3. Searching(c, rank) /\ CountingUp(c, rank) /\ Listing(c, rank) /\ Undisturbed(c, rank)
    BY <2>1 DEF Ordered, OfCaller
  <2>4. WalkOverlooksNobody(c)
    BY <2>2, <2>3 DEF Searching, CountingUp, Listing, WalkOverlooksNobody
  <2>5. CensusCounts(c)
    BY <1>1, <2>2, <2>3 DEF Undisturbed, CensusCounts, IInv, Base, Overlaps
  <2>. QED
    BY <2>4, <2>5
<1>. QED
  BY <1>1, Invariance, PTL

\* No call uses a task or an entry that has been freed, unless it has slept in its
\* read section, or its census has overlapped with another.
THEOREM NoneIsLostOtherwise == Spec => []LostOnlyBySleepOrOverlap
<1>1. IInv => LostOnlyBySleepOrOverlap
  BY DEF IInv
<1>. QED
  BY <1>1, Invariance, PTL

\* Only calls under way, and programs that have been answered 3 by a preemptible
\* kernel, keep back the memory of tasks that have exited.
THEOREM NoneKeptOtherwise == Spec => []KeptOnlyByOpenSections
<1>1. ASSUME IInv PROVE KeptOnlyByOpenSections
  <2>1. SUFFICES ASSUME NEW t \in Tasks, NEW c \in guards[t]
                 PROVE  /\ state[t] = "unlinked"
                        /\ InCall(c) \/ (preemptible /\ result[c] = "3" /\ state[c] = "listed")
    BY DEF KeptOnlyByOpenSections
  <2>2. state[t] = "unlinked" /\ c \in sections /\ c \in Callers
    BY <1>1, <2>1 DEF IInv, Base, Guarding, Typed
  <2>3. InSection(c)
    BY <1>1, <2>2 DEF IInv, Base
  <2>. QED
    BY <2>2, <2>3 DEF InSection, Holding, InCall
<1>. QED
  BY <1>1, Invariance, PTL
==============================================================================
