------------------------------ MODULE TaskCalls ------------------------------
(***************************************************************************)
(* The system calls of lab04 that walk over the kernel's list of tasks,    *)
(* and their test programs: number 2 tells the name of the task with a     *)
(* given index, number 4 of the one with a given PID, number 1 the user    *)
(* with most tasks, number 5 the one whose tasks have used most CPU time.  *)
(* All have the system call number 317, so a kernel has one of them.       *)
(*                                                                         *)
(* The list is the kernel's, modelled from how the calls use it: circular  *)
(* from init_task, extended at its end, and read under RCU.  A task that   *)
(* exits is unlinked at once, keeps its own link, and is freed when every  *)
(* read section open at that moment has ended.  Where the kernel is        *)
(* preemptible a section lasts until rcu_read_unlock or the exit of its    *)
(* process; where it is not, it also ends when the process sleeps, as      *)
(* kmalloc(GFP_KERNEL) may, or returns to user space.                      *)
(*                                                                         *)
(* A process that touches memory that has been freed is lost and stays so. *)
(***************************************************************************)
EXTENDS Integers, FiniteSets, Sequences, SequencesExt

CONSTANTS Callers,  \* the processes that run a test program
          Others,   \* the other processes, which are older
          Uids      \* the users they belong to; user 0 is "root"

\* The shapes of the constants.
ASSUME ConstantsAssumption ==
    /\ IsFiniteSet(Callers)
    /\ IsFiniteSet(Others)
    /\ Callers \cap Others = {}
    /\ "init_task" \notin Callers \cup Others
    /\ "NULL" \notin Callers
    /\ "root" \in Uids

Tasks == Callers \cup Others
Nodes == Tasks \cup {"init_task"}
Entries == Callers \X Tasks   \* a user_hash, named by the call and the task it is made for
NULL == <<"NULL", "NULL">>

VARIABLES
    call,         \* which of the calls the kernel has
    preemptible,  \* whether the kernel is
    uid,          \* the user of each task
    weight,       \* what a task counts for: 1, or in lab04/5 its CPU time, 0 for a new one
    state,        \* of each task: "unborn", "listed", "unlinked" or "freed"
    next,         \* the links of the list
    sections,     \* the callers that are in a read section
    guards,       \* of an unlinked task: the sections that must end before it is freed
    at,           \* where each caller is
    arg,          \* the argument of its call: an index or a PID
    num,          \* the local num: how far the walk has come
    here,         \* the local task
    result,       \* what its call has returned: "3", a user, or "name" for a walk that succeeds
    existing,     \* the local existing
    count,        \* the hash table: the count of each entry, -1 for one that is not there
    lost,         \* the callers that are lost
    \* history
    stayed,       \* the tasks that have been listed during the whole call of a caller
    met,          \* the tasks that have been listed at some time during it
    there,        \* the tasks that have been listed since its program began
    shrunk,       \* whether a task has exited since then
    reported,     \* the tasks its calls have told it
    slept,        \* whether it has slept in a read section
    overlapped    \* whether its call has met another

rcu == <<sections, guards>>
walk == <<at, arg, num, here, result>>
table == <<existing, count>>
history == <<stayed, met, there, shrunk, reported, slept, overlapped>>
kernel == <<call, preemptible, uid, weight>>
vars == <<kernel, state, next, rcu, walk, table, lost, history>>

Counting == call \in {"census", "cpu_time"}

Init ==
    /\ call \in {"by_index", "by_pid", "census", "cpu_time"}
    /\ preemptible \in BOOLEAN
    /\ uid \in [Tasks -> Uids]
    /\ ~Counting => uid = [t \in Tasks |-> "root"]
    /\ weight \in IF call = "cpu_time"
                  THEN {[t \in Tasks |-> IF t \in busy THEN 1 ELSE 0] : busy \in SUBSET Others}
                  ELSE {[t \in Tasks |-> 1]}
    /\ state = [t \in Tasks |-> IF t \in Others THEN "listed" ELSE "unborn"]
    /\ \E order \in [1 .. Cardinality(Others) -> Others] :
        LET list == <<"init_task">> \o order \o <<"init_task">>
        IN  /\ IsInjective(order)
            /\ next = [n \in Nodes |->
                         IF n \in Callers THEN "init_task"
                         ELSE list[1 + CHOOSE i \in 1 .. Len(list) - 1 : list[i] = n]]
    /\ sections = {}
    /\ guards = [t \in Tasks |-> {}]
    /\ at = [c \in Callers |-> "idle"]
    /\ arg = [c \in Callers |-> 0]
    /\ num = [c \in Callers |-> 0]
    /\ here = [c \in Callers |-> "init_task"]
    /\ result = [c \in Callers |-> "none"]
    /\ existing = [c \in Callers |-> NULL]
    /\ count = [e \in Entries |-> -1]
    /\ lost = {}
    /\ stayed = [c \in Callers |-> {}]
    /\ met = [c \in Callers |-> {}]
    /\ there = [c \in Callers |-> {}]
    /\ shrunk = [c \in Callers |-> FALSE]
    /\ reported = [c \in Callers |-> {}]
    /\ slept = [c \in Callers |-> FALSE]
    /\ overlapped = [c \in Callers |-> FALSE]

Listed == {t \in Tasks : state[t] = "listed"}
InCall(c) == at[c] \notin {"idle", "returned", "over"}

------------------------------------------------------------------------------
(* The kernel's list                                                       *)

\* fork(): the task is added at the end of the list.
Fork(t) ==
    /\ state[t] = "unborn"
    /\ state' = [state EXCEPT ![t] = "listed"]
    /\ \E last \in Listed \cup {"init_task"} :
        /\ next[last] = "init_task"
        /\ next' = [next EXCEPT ![last] = t]
    /\ met' = [c \in Callers |-> IF Counting /\ InCall(c) /\ c \notin lost THEN met[c] \cup {t} ELSE met[c]]
    /\ there' = IF call = "by_index" /\ t \in Callers THEN [there EXCEPT ![t] = Listed \cup {t}] ELSE there
    /\ UNCHANGED <<kernel, rcu, walk, table, lost, stayed, shrunk, reported, slept, overlapped>>

\* The read section of c ends, and what waited for it waits no more.
EndSection(c) ==
    /\ sections' = sections \ {c}
    /\ guards' = [t \in Tasks |-> guards[t] \ {c}]

\* exit() of a process, that of a test program when it is through.
Exit(t) ==
    /\ state[t] = "listed"
    /\ t \in Callers => at[t] = "over"
    /\ state' = [state EXCEPT ![t] = "unlinked"]
    /\ \E previous \in Listed \cup {"init_task"} :
        /\ next[previous] = t
        /\ next' = [next EXCEPT ![previous] = next[t]]
    /\ sections' = sections \ {t}
    /\ guards' = [u \in Tasks |-> (IF u = t THEN sections ELSE guards[u]) \ {t}]
    /\ stayed' = [c \in Callers |-> stayed[c] \ {t}]
    /\ there' = [c \in Callers |-> there[c] \ {t}]
    /\ shrunk' = [c \in Callers |-> shrunk[c] \/ (call = "by_index" /\ state[c] = "listed")]
    /\ UNCHANGED <<kernel, walk, table, lost, met, reported, slept, overlapped>>

Free(t) ==
    /\ state[t] = "unlinked"
    /\ guards[t] = {}
    /\ state' = [state EXCEPT ![t] = "freed"]
    /\ next' = [next EXCEPT ![t] = "init_task"]
    /\ UNCHANGED <<kernel, rcu, walk, table, lost, history>>

------------------------------------------------------------------------------
(* Any call                                                                *)

Goto(c, from, to) ==
    /\ c \notin lost
    /\ at[c] = from
    /\ at' = [at EXCEPT ![c] = to]

\* The task c is at has not been freed.
Valid(c) == here[c] \notin {t \in Tasks : state[t] = "freed"}

\* Mutation: the list is read outside a read section.
NoLock(c) == UNCHANGED sections

rcu_read_lock(c) == sections' = sections \cup {c}

\* Mutation: the read section is never ended.
NoUnlock(c) == UNCHANGED rcu

rcu_read_unlock(c) == EndSection(c)

\* The walk begins.
Begin(c, a) ==
    /\ state[c] = "listed"
    /\ Goto(c, "idle", IF Counting THEN "visit" ELSE "walk")
    /\ arg' = [arg EXCEPT ![c] = a]
    /\ num' = [num EXCEPT ![c] = 0]
    /\ here' = [here EXCEPT ![c] = IF Counting THEN next["init_task"] ELSE "init_task"]
    /\ rcu_read_lock(c)
    /\ stayed' = [stayed EXCEPT ![c] = Listed]
    /\ met' = IF Counting THEN [met EXCEPT ![c] = Listed] ELSE met
    /\ overlapped' = [d \in Callers |-> overlapped[d] \/
                        IF d = c THEN \E e \in Callers : InCall(e) ELSE InCall(d)]
    /\ UNCHANGED <<kernel, state, next, guards, result, table, lost, there, shrunk, reported, slept>>

\* kmalloc(GFP_KERNEL) sleeps until there is memory.
Sleep(c) ==
    /\ at[c] \in {"answer", "visit"}
    /\ c \in sections \ lost
    /\ ~preemptible
    /\ EndSection(c)
    /\ slept' = [slept EXCEPT ![c] = TRUE]
    /\ UNCHANGED <<kernel, state, next, walk, table, lost, stayed, met, there, shrunk,
                   reported, overlapped>>

Lose(c) ==
    /\ lost' = lost \cup {c}
    /\ at' = [at EXCEPT ![c] = "lost"]
    /\ here' = [here EXCEPT ![c] = "init_task"]
    /\ existing' = [existing EXCEPT ![c] = NULL]
    /\ stayed' = [stayed EXCEPT ![c] = {}]
    /\ met' = [met EXCEPT ![c] = {}]
    /\ UNCHANGED <<kernel, state, next, rcu, arg, num, result, count, there, shrunk,
                   reported, slept, overlapped>>

\* c goes on from a task that is no longer there.
Dangle(c) ==
    /\ at[c] \in {"walk", "step", "end", "answer", "visit", "tally"}
    /\ ~Valid(c)
    /\ Lose(c)

------------------------------------------------------------------------------
(* sys_mysyscall() of lab04/2 and lab04/4                                  *)

\* Mutation: the walk by index stops one task early.
StopsShort(c) ==
    /\ next[here[c]] # "init_task"
    /\ IF call = "by_index" THEN num[c] + 1 < arg[c] ELSE here[c] # arg[c]

\* The loop has not come to its end.  which is arg in the one, pid in the other.
GoesOn(c) ==
    /\ next[here[c]] # "init_task"
    /\ IF call = "by_index" THEN num[c] < arg[c] ELSE here[c] # arg[c]

\* The loop is tested.  Nothing keeps the list as it is until the link is loaded
\* again, to follow it or to see whether the task is an answer.
Test(c) ==
    /\ Goto(c, "walk", IF GoesOn(c) THEN "step" ELSE "end")
    /\ Valid(c)
    /\ UNCHANGED <<kernel, state, next, rcu, arg, num, here, result, table, lost, history>>

\* The walk follows the link, to init_task if the tasks behind have exited.
Advance(c) ==
    /\ Goto(c, "step", "walk")
    /\ Valid(c)
    /\ here' = [here EXCEPT ![c] = next[here[c]]]
    /\ num' = IF call = "by_index" THEN [num EXCEPT ![c] = @ + 1] ELSE num
    /\ UNCHANGED <<kernel, state, next, rcu, arg, result, table, lost, history>>

\* The task that the walk has come to is the answer, as it seems now.
IsAnswer(c) ==
    IF call = "by_index" THEN next[here[c]] # "init_task" \/ arg[c] = 0
                         ELSE here[c] = arg[c]

Found(c) ==
    /\ Goto(c, "end", "answer")
    /\ Valid(c)
    /\ IsAnswer(c)
    /\ UNCHANGED <<kernel, state, next, rcu, arg, num, here, result, table, lost, history>>

\* return 3, without rcu_read_unlock().
NotFound(c) ==
    /\ Goto(c, "end", "returned")
    /\ Valid(c)
    /\ ~IsAnswer(c)
    /\ result' = [result EXCEPT ![c] = "3"]
    /\ IF preemptible THEN UNCHANGED rcu ELSE EndSection(c)
    /\ UNCHANGED <<kernel, state, next, arg, num, here, table, lost, history>>

\* The name is copied, first to the buffer and from there to the user, and the
\* section is ended.
Answer(c) ==
    /\ Goto(c, "answer", "returned")
    /\ Valid(c)
    /\ result' = [result EXCEPT ![c] = "name"]
    /\ reported' = [reported EXCEPT ![c] = @ \cup {here[c]}]
    /\ rcu_read_unlock(c)
    /\ UNCHANGED <<kernel, state, next, arg, num, here, table, lost, stayed, met, there,
                   shrunk, slept, overlapped>>

Walk(c) == Test(c) \/ Advance(c) \/ Found(c) \/ NotFound(c) \/ Answer(c)

------------------------------------------------------------------------------
(* sys_mysyscall() of lab04/1 and lab04/5                                  *)

InTable == {e \in Entries : count[e] >= 0}

\* Another call is deleting entries: what c follows may be freed under it.
Disturbed(c) == \E d \in Callers \ {c} : at[d] \in {"cleanup", "deleting"}

\* An entry is allocated for the task, and get() looks for one of its user.
Visit(c) ==
    LET same == {e \in InTable : uid[e[2]] = uid[here[c]]}
    IN  /\ here[c] # "init_task"
        /\ Valid(c)
        /\ Goto(c, "visit", "tally")
        /\ existing' \in {[existing EXCEPT ![c] = e] : e \in IF same = {} THEN {NULL} ELSE same}
        /\ UNCHANGED <<kernel, state, next, rcu, arg, num, here, result, count, lost, history>>

\* The entry found is counted up and the new one forgotten, or the new one is
\* added to the table; the walk goes to the next task.
Tally(c) ==
    LET entry == IF existing[c] = NULL THEN <<c, here[c]>> ELSE existing[c]
    IN  /\ Valid(c)
        /\ existing[c] = NULL \/ existing[c] \in InTable
        /\ Goto(c, "tally", "visit")
        /\ count' = [count EXCEPT ![entry] = (IF existing[c] = NULL THEN 0 ELSE @) + weight[here[c]]]
        /\ here' = [here EXCEPT ![c] = next[here[c]]]
        /\ existing' = [existing EXCEPT ![c] = NULL]
        /\ UNCHANGED <<kernel, state, next, rcu, arg, num, result, lost, history>>

\* The walk is back at init_task.
EndWalk(c) ==
    /\ here[c] = "init_task"
    /\ Goto(c, "visit", "scan")
    /\ rcu_read_unlock(c)
    /\ UNCHANGED <<kernel, state, next, arg, num, here, result, table, lost, history>>

\* The scan for the largest count above 0.
Scan(c) ==
    /\ Goto(c, "scan", "cleanup")
    /\ \/ \E e \in InTable :
            /\ count[e] > 0
            /\ \A f \in InTable : count[f] <= count[e]
            /\ result' = [result EXCEPT ![c] = uid[e[2]]]
       \/ /\ \A e \in InTable : count[e] = 0
          /\ result' = [result EXCEPT ![c] = IF call = "census" THEN "EPERM" ELSE "root"]
    /\ UNCHANGED <<kernel, state, next, rcu, arg, num, here, table, lost, history>>

\* The loop that deletes and frees every entry, and its end.
Delete(c) ==
    /\ Goto(c, "cleanup", "deleting") \/ Goto(c, "deleting", "deleting")
    /\ \E e \in InTable : count' = [count EXCEPT ![e] = -1]
    /\ UNCHANGED <<kernel, state, next, rcu, arg, num, here, result, existing, lost, history>>

EndCall(c) ==
    /\ InTable = {}
    /\ Goto(c, "deleting", "returned")
    /\ UNCHANGED <<kernel, state, next, rcu, arg, num, here, result, table, lost, history>>

\* existing has been freed, hash_del(prev) is called with NULL, or c follows a
\* link that another call is deleting.
Spoilt(c) ==
    /\ \/ at[c] = "tally" /\ existing[c] # NULL /\ existing[c] \notin InTable
       \/ at[c] = "cleanup" /\ InTable = {}
       \/ at[c] \in {"visit", "tally", "scan", "cleanup", "deleting"} /\ Disturbed(c)
    /\ Counting
    /\ Lose(c)

Census(c) ==
    Visit(c) \/ Tally(c) \/ EndWalk(c) \/ Scan(c) \/ Delete(c) \/ EndCall(c) \/ Spoilt(c)

------------------------------------------------------------------------------
(* main() of the test programs                                             *)

\* lab04/2 counts the index up from 0 while the call returns 0; the others make
\* one call, lab04/4 with the PID that it has been given.
Call(c) ==
    \E a \in CASE call = "by_index" -> {arg[c]} [] call = "by_pid" -> Tasks [] OTHER -> {0} :
        Begin(c, a)

Continue(c) ==
    LET again == call = "by_index" /\ result[c] = "name"
    IN  /\ Goto(c, "returned", IF again THEN "idle" ELSE "over")
        /\ arg' = [arg EXCEPT ![c] = IF again THEN @ + 1 ELSE 0]
        /\ num' = [num EXCEPT ![c] = 0]
        /\ here' = [here EXCEPT ![c] = "init_task"]
        /\ result' = [result EXCEPT ![c] = IF @ = "3" THEN "3" ELSE "none"]
        /\ stayed' = [stayed EXCEPT ![c] = {}]
        /\ met' = [met EXCEPT ![c] = {}]
        /\ overlapped' = [overlapped EXCEPT ![c] = FALSE]
        /\ slept' = [slept EXCEPT ![c] = FALSE]
        /\ UNCHANGED <<kernel, state, next, rcu, table, lost, there, shrunk, reported>>

Program(c) == Call(c) \/ Sleep(c) \/ Dangle(c) \/ Walk(c) \/ Census(c) \/ Continue(c)

Next ==
    \/ \E t \in Tasks : Fork(t) \/ Exit(t) \/ Free(t)
    \/ \E c \in Callers : Program(c)

Spec == Init /\ [][Next]_vars

------------------------------------------------------------------------------
(* Properties                                                              *)

Weight(tasks, u) == Cardinality({t \in tasks : uid[t] = u /\ weight[t] = 1})

\* Whatever is forked and exits during a call, lab04/4 answers 3 only if the
\* process has not been there all the time, and lab04/2 only if there have not
\* been enough tasks.  As long as nobody exits, its test program lists nobody
\* twice and, when it ends, everybody that was there since it began, the one that
\* is last excepted.
WalkOverlooksNobody(c) ==
    /\ result[c] = "3" =>
          /\ call = "by_pid" => arg[c] \notin stayed[c]
          /\ call = "by_index" => /\ Cardinality(stayed[c]) <= arg[c]
                                  /\ shrunk[c] \/ there[c] \subseteq reported[c] \cup {here[c]}
    /\ call = "by_index" /\ result[c] = "name" =>
          shrunk[c] \/ Cardinality(reported[c]) = arg[c] + 1

\* A call of lab04/1 or lab04/5 that meets no other names a user whom nobody
\* outnumbers, or has outspent, as far as that can be told of tasks that come and
\* go; and it leaves an empty table.
CensusCounts(c) ==
    Counting /\ ~overlapped[c] =>
        /\ \A u \in Uids : Weight(stayed[c], u) <= Weight(met[c], result[c])
        /\ (\A d \in Callers : ~InCall(d)) => InTable = {}

AnswersHold ==
    \A c \in Callers \ lost : at[c] = "returned" => WalkOverlooksNobody(c) /\ CensusCounts(c)

\* No call uses a task or an entry that has been freed, unless it has slept
\* inside its read section or its census has overlapped with another.
LostOnlyBySleepOrOverlap ==
    \A c \in lost : slept[c] \/ (Counting /\ overlapped[c])

\* The memory of a task that has exited is kept back only by calls that are
\* under way, and by those that have left their read section open by returning
\* 3; these hold it back until their process exits.
KeptOnlyByOpenSections ==
    \A t \in Tasks : \A c \in guards[t] :
        /\ state[t] = "unlinked"
        /\ InCall(c) \/ (preemptible /\ result[c] = "3" /\ state[c] = "listed")
=============================================================================
