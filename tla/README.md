# Formal model of prog-sys

`prog-sys` is a set of systems-programming assignments: six pthread programs
(`lab01`), character devices and other kernel modules (`lab02`, `lab03`),
system calls (`lab04`), and a kernel module that hooks the kernel's
`random_read` to keep statistics about `/dev/random` (`project`).  This
directory holds TLA+ modules translated from that code, TLC configurations
that check them on small instances, and TLAPS proofs of the main results for
every value of the constants.

Run in this directory: `tlc -config FillDrain.cfg FillDrain` model-checks a
module, `tlapm FillDrainProofs.tla` checks a proof module.  `PROJECT.json`
lists the runs, the source lines of every definition, the hazards and the
theorems.

## 1. Inventory

### 1.1 Components

| Component | State it keeps | Operations | Hard part |
|---|---|---|---|
| `lab01/ex1.c` first readers-writers | `readersCount`, two mutexes | `reader`, `writer` loops | first reader blocks on one mutex while holding the other; `writerMutex` is unlocked by another thread than the one that locked it |
| `lab01/ex2.c` shared circular buffer | `written`, two indices, `buffer[]`, two condition variables | `reader`, `writer` loops | test and update of `written` in different critical sections; slots accessed unlocked |
| `lab01/ex3.c` slot exchange | per object: mutex, `full`, value | `reader`, `writer` walks | `pthread_mutex_trylock` only: progress without waiting, no value read twice or overwritten unread |
| `lab01/ex4.c` readers, writers, critic | ex1's state, `wroteSomething[]`, `writerCount`, `criticAway` | `reader`, `writer`, `critic` | three kinds of threads on one mutex and one condition variable |
| `lab01/ex5.c` objects with limited readers | per object: two mutexes, `full`, `readerCount`, `limits`, value | `reader`, `writer` walks | a writer's test is out of date when it gets the second mutex; flag cleared by every leaving reader |
| `lab01/ex6.c` fill-and-drain buffer | `written`, `toRead`, two indices, `buffer[]`, two condition variables | `reader`, `writer` loops | conditional broadcasts, indices reset by the other side, slots accessed unlocked |
| `lab01/common.h` wrappers | none | `lock`, `unlock`, `handleError` | - |
| `project/module.c`, `random_read` | hash table of records, `all_bytes`, `reader_count` | one call of the hooked function | no lock anywhere; state of earlier calls decides what a call does |
| `project/module.c`, `/proc/random` handlers | global `eof` | two read handlers | one toggle shared by all readers of both files |
| `project/module.c` init and exit, `project/hijacks.c` | first bytes of `random_read`, page protection, trampoline, symbol, `/proc` entries | `init`, `symbol_hijack`, `symbol_restore`, `exit` | running code is patched in several stores; failures half-way; callers inside while the module goes |
| `project/symbols.c`, `kernfunc.c` | addresses found | lookups | the size of a symbol is the distance to whatever comes next in the table; ignored result of one lookup |
| `project/hijacks.c`, `copy_and_fixup_insn` | none | copy of one instruction with its offset adjusted | sign extension, offsets at the edge of 32 bits, targets inside and outside the function |
| `lab02` character devices: `simple_module`, `ex1` - `ex5` | up to five resources, `copied`, module references | init, exit, `open`, `release`, `read`, `write`, `/proc` read | init fails half-way, opened before it is ready, removed under its users, shared end-of-file toggle |
| - `ex1` append buffer | `mybuf`, `mybuf_count` | as above | concurrent appends without a lock |
| - `ex2`, `ex4` names | a pointer to the name of a task, of a mount | as above | the name outlives, or has to keep, what it belongs to |
| - `ex3` file owner | the owner, as a number | as above | - |
| `lab03` modules to be debugged | as `lab02` | as `lab02` | `/proc` entry never removed; exit function called by a read |
| `lab04/1`, `/5` census calls | a static hash table | one system call each | table without a lock; allocation that sleeps inside an RCU section |
| `lab04/2`, `/4` task list calls | none | one system call each | list changes under the walk; RCU section left open on the error return |
| `lab04/3` free blocks call | none | one system call | - |

### 1.2 How they interact

* The threads of a `lab01` program share its globals, guarded - or not - by
  its mutexes; `main` starts them and joins them all, so a thread that does
  not return hangs the program.
* The hook of `project` runs in every process that reads `/dev/random`; the
  module loader changes that function's bytes, the symbol and the trampoline
  under them; the `/proc` handlers read the counters and the records.
* A `lab02` device is called by any number of processes; its `/proc` handler
  shares the globals of the device.  The name kept by ex2 or ex4 belongs to a
  task or a mount that comes and goes on its own.
* A `lab04` call runs in many processes, and walks over a list that `fork` and
  `exit` change; RCU decides when what it may still see is freed.

### 1.3 What makes each part correct

* ex1, ex4, ex5: readers exclude writers, a writer is alone; readers are
  preferred (ex1); the critic comes last and is never forgotten (ex4); no
  published value is hidden, the limit holds (ex5); all threads return.
* ex2, ex6: no lost wakeup, no deadlock, only stored slots are loaded, all
  threads return; in ex6 also: no two threads at a slot, whole batches.
* ex3: a value is read once and never overwritten unread; nobody waits.
* `random_read`: what the counters still guarantee in spite of the races, and
  that they are exact without overlap.
* lifecycle: a process is harmed only if the loader acts under it; at rest
  function, page, trampoline, symbol and `/proc` agree; the jump stays within
  the function and the copy leads where the function leads.
* `/proc` handlers, `lab02`, `lab03`: one reader gets the text once and then the
  end of the file; a process whose `open` has run before the removal begins is safe, if
  init succeeds and the module takes references; a failed init leaves nothing registered
  (with named exceptions); appends that do not overlap are kept.
* `lab04`: an answer is right about the tasks that were there all the time; no
  call uses freed memory unless it sleeps in its section or overlaps another
  census; memory is kept back only by calls under way and by sections left open.

The hazards behind these, each at its line, are in `PROJECT.json`.

## 2. The modules

A module's comments say which C function each action translates; the line map
is in `PROJECT.json` under `map`.  Definitions keep the C names.

| Module | Models | Built on |
|---|---|---|
| `ReadersWriters` | abstract: what a readers-writers object promises | - |
| `BatchBuffer` | abstract: fill, seal, empty, reopen | - |
| `FirstReadersWriters` | `lab01/ex1.c` | implements `ReadersWriters` |
| `WritersCritic` | `lab01/ex4.c` | composes `FirstReadersWriters` (as `RW`) with the critic; implements `ReadersWriters` |
| `LimitedReaders` | `lab01/ex5.c` | implements one `ReadersWriters` per object |
| `FillDrain` | `lab01/ex6.c` | implements `BatchBuffer` |
| `SharedBuffer` | `lab01/ex2.c` | - |
| `SlotExchange`, `MCSlotExchange` | `lab01/ex3.c` | - |
| `RandomStats`, `MCRandomStats` | `project/module.c`, `random_read` | - |
| `FunctionHook` | `project/module.c` init and exit, `project/hijacks.c`: steps, memory, callers | - |
| `CodeCopy` | pure: the lookup in `project/symbols.c`, the address arithmetic and `copy_and_fixup_insn` of `project/hijacks.c` | - |
| `HijackedCode`, `MCHijackedCode` | the hook together with the table of symbols and the code it copies | extends `FunctionHook` and `CodeCopy`; implements `FunctionHook` |
| `ProcText` | the handlers of `/proc/random` and of `lab02`'s `/proc/simple` | - |
| `AppendBuffer` | `simple_write` of `lab02/ex1` | - |
| `SimpleModule`, `MCSimpleModule` | `lab02/simple_module`, `lab02/ex1` - `ex5`, `lab03/zad1` - `zad4` | composes `ProcText` (as `Proc`) and `AppendBuffer` (as `Buffer`) with the life of a module and the users of its device |
| `TaskCalls`, `MCTaskCalls` | `lab04/1`, `/2`, `/4`, `/5` and their test programs | - |
| `FillDrainProofs`, `FirstReadersWritersProofs`, `SharedBufferProofs`, `WritersCriticProofs`, `TaskCallsProofs`, `SimpleModuleProofs` | the proofs | their module |
| `HijackedCodeProofs` | the proofs about `FunctionHook`, about `HijackedCode` and, in its last part, about `RandomStats` | extends `HijackedCode`; takes `RandomStats` as `Stats` |
| `LimitedReadersProofs` | the proofs about ex5 and, in its last part, about ex3 | extends `LimitedReaders`; takes `SlotExchange` as `Slots` |

An operator whose comment begins with "Mutation:" is a plausible bug in the
definition below it; no specification uses it.  Substituting it must violate
the property named in `PROJECT.json` under `mutants`, which shows that the
property depends on the code.

### 2.1 Grain of atomicity

* **A critical section in which nothing can block is one action**, since every
  access to the variables it touches is made under the same mutex.
  `pthread_cond_wait` ends one action (the thread is `"asleep"`, the mutex is
  free) and its return begins another.  Where mutexes nest (ex1, ex4, ex5), or
  where a failed `trylock` makes the holding visible (ex3, ex5), locking is an
  action of its own and the mutex a variable.
* **Accesses outside any lock are actions of their own**: `buffer[j]` in ex2
  and ex6, each load and each store in `random_read`, each cell of the patched
  bytes in `FunctionHook`, the test and the setting of `eof` in `ProcText`, the
  three uses of `mybuf_count` in `AppendBuffer`, each load of a link of the
  task list by a walk (for the test of the loop, for the step, for the answer) and each
  of the two halves of an entry's update in `TaskCalls`.
* **Each call into the kernel is an action of its own** in `FunctionHook` and
  `SimpleModule`: other processes go on between any two of them.
* **Spurious wakeups** are actions of every module with a condition variable.
* The default mutex of glibc is assumed: `pthread_mutex_unlock` by a thread
  that is not the owner frees it.  ex1, ex4 and ex5 rely on that, POSIX leaves
  it undefined; a platform that refuses is not modelled.
* `main` is the action `Terminating`: it returns when all threads have.

### 2.2 What the data are reduced to

* Buffer values become the set of slots stored (`stored`), or stored and not
  loaded (`unread`), or a value state (`buffer` in ex5).
* `RandomStats`: a record is its two fields that decide anything; a bucket, as
  seen by whoever has loaded its head, is a sequence of nodes, because links of
  published nodes never change.  Counters count modulo `WORD`.
* `FunctionHook`: the five patched bytes are two cells (opcode, offset).  They
  are written separately by the code (`hijacks.c` 240-241) and copied back in
  any order by `memcpy`.  A processor that fetches a mixture, returns to freed
  memory or unmapped code, or calls through null is `"lost"`.  `since` says
  which insertion's code a process runs; that code is mapped as long as that
  insertion lasts.
* `HijackedCode`: the function is its address, its size and any instructions in
  it.  An instruction is its place, its length, one of four kinds of opcode
  and the distance to its target; a step of `FunctionHook` is allowed if the
  table of symbols allows it.  Addresses wrap around at `ADDRESSES`, distances
  reach `REACH` to both sides, as 2^64 and 2^31 do.
* `SimpleModule`: a module is a recipe, a record of what it acquires in which
  order, what it releases after which failure and at the end, and traits of its
  handlers (`"reference"`, `"flag"`, `"appends"`, `"names"`, `"pins"`, `"exits"`,
  `"shows"`).  `"shows"` is `lab03/zad3`, whose `/proc` file prints the buffer whether it
  is there or not: `freed` says that it is gone, in which case the reader is lost.  ex1 has such
  a text only while `mybuf_count` is above 0 (`TextPresent`).
  What it has acquired is the set `held`, what it has still to acquire or to
  release the sequence `todo`; resources that outlive their module go to
  `stale`.  A process that executes or touches what is gone, or not yet
  there, is in `lost`.  A name is reduced to whether it is kept (`named`) and
  whether its task or mount is still there (`alive`).  The contents of the
  buffers, that of ex1 excepted, and the counters of calls are left out.
  `ProcText` leaves out what the text says and how much of it fits the reader's
  buffer.
* `AppendBuffer`: a byte is the process that wrote it.  The buffer is modelled
  together with the memory beyond its end, which overlapping writes reach.
* `TaskCalls`: a task has a user and, in `lab04/5`, a CPU time of 0 or 1; its
  name is the task itself.  The 16 buckets of the hash table count as one.  A
  freed task has no contents: who follows its link is lost.  `kmalloc` in a
  read section may sleep; what that does depends on `preemptible`.
* The kernel's side (references, `proc_remove` waiting for its readers, files
  that stay open after `unregister_chrdev`) is marked external in the map.
* `delivered`, `failed`, `overlapped` and `used` in `RandomStats`, `overlapped` and
  `bootWritable` in `FunctionHook`, `texts`, `endings` and `clean` in `ProcText`,
  `refused`, `complete` and `late` in `SimpleModule`, `appended` and `serial` in
  `AppendBuffer`, and those named so in `TaskCalls` are history variables: no action that
  translates code depends on them.

## 3. The runs

| Run | Instance | States | Shows |
|---|---|---|---|
| `first_readers_writers` | 3 readers, 2 writers, 3 rounds | 49,000 | writer alone; no reader waits while one is inside; never a deadlock; all return with count and mutexes clean; implements `ReadersWriters` |
| `shared_buffer` | 2 + 2 threads, 2 slots, 3 rounds | 122,000 | sleepers are on their side of the range although `written` leaves it; never all asleep; only stored slots loaded; all return |
| `slot_exchange` | 2 + 2 threads, 2 objects, 2 rounds | 32,000 | each value read at most once and never overwritten unread; a thread returns even if all others stop for ever |
| `writers_critic` | 2 readers, 3 writers, critic, 2 rounds | 8,600 | critic after every writer; never a deadlock; all return, the critic too; implements `ReadersWriters` |
| `limited_readers` | 3 readers, 2 writers, 2 objects, limits 1 or 2 | 702,000 | limit holds; a published value stays announced; never a deadlock, although the two mutexes of an object are taken in either order; all return; implements `ReadersWriters` per object |
| `fill_drain` | 3 + 3 threads, 3 slots, 2 rounds | 211,000 | no data race, no lost wakeup, never all asleep, all return with every batch read; implements `BatchBuffer` |
| `stats_concurrent` | 3 PIDs, two in one bucket, 2 calls each, any of which may fail | 3,600,000 | `all_bytes` never exceeds the truth unless a call has failed; a record is only lost to a PID of its bucket; all exact while calls do not overlap, but for the bytes once a call has failed |
| `stats_lost_update` | 2 PIDs, 1 call each | violation | `all_bytes` loses an update (finding 1) |
| `stats_reopen` | 1 PID, 2 calls | violation | a new open does not reset the counter (finding 2) |
| `simple_module` | 10 modules, 2 device users, 2 readers with an opening each, 2 insertions, a buffer of 2 bytes | 2,200,000 | where open takes a reference, whoever has run it before the removal begins is safe if init succeeds; a `/proc` reader is harmed only by an entry left behind or by the freed buffer of `zad3`; each failure of init releases all (but the `/proc` entry where the code forgets it); text once and then the end for undisturbed readers, and no repeat without another reader's end; appends kept |
| `function_hook` | 2 processes, 2 insertions, 7 tables of symbols, 64 addresses | 326,000 | a process is lost only if the loader acts during its call; at rest everything agrees; the patch stays inside the function; the copy leads where the function leads |
| `task_calls` | the 4 calls, 2 callers, 1 older process, 2 users | 1,900,000 | answers are right about whoever stayed; freed memory is used only after sleeping in a section or in overlapping censuses; memory is kept back only by calls under way and sections left open |

Every run but the two with a violation finishes within minutes on two workers.
The type invariants of ex1, ex2, ex6 and `SimpleModule` are theorems (`TypeCorrect`)
and not repeated in the runs.

### 3.1 Why these bounds

* **ex1.** Three readers give a first, a middle and a last one at once, and a
  new first one while the previous group leaves.  The program starts a single
  writer; two make exclusion among writers a question.  Three rounds let every
  thread meet a state left behind by the others' earlier rounds.
* **ex2.** With two readers past the test on `written = 1`, `written` becomes
  -1; with two writers past theirs, `BUFFER_SIZE + 1`.  Three rounds of two
  writers wrap `writeIndex` around three times on two slots.
* **ex3, ex5.** Two objects make threads pass each other; a further object adds
  another copy of the same protocol.  In ex5 three readers against limits of 1
  and 2 meet the limit with and without a group; its single round keeps the
  run within minutes, and a reader may still follow a writer that follows a
  reader at the same object.
* **ex4.** The last writer to write may be any of three, and writes again
  afterwards, before and after the critic's wait.
* **ex6.** Three threads a side on three slots: a batch with all of its threads
  between their critical sections at once; two rounds make two batches, so each
  index is reset twice.
* **`random_read`.** Two PIDs collide in a bucket and a third does not, which
  tells the two halves of `LossNeedsCollision` apart.  The second call of each
  finds a record, lost or kept.  A call returns a byte, nothing, or an error,
  which is negative: the last two make the next call count as a new reader.  An
  error takes bytes off an unsigned counter (3.4), so what is said of sums
  ends with the first call that fails; what is said of the number of readers and
  of the records does not.  `WORD = 8` is above what the calls
  can deliver, as 2^64 is.  `VIEW Live` drops locals that the code writes again
  before it reads them, the history `used`, which no invariant of that run
  mentions, and, once a call has failed, the counts of bytes: they decide nothing,
  and no invariant speaks of them any more.  `SYMMETRY` permutes the two PIDs of the shared bucket; the run has
  no temporal property.
* **Lifecycle.** One process inside while another enters, and a second
  insertion while a process of the first is still inside.  Deadlock is not
  checked there: a kernel whose processes are all lost has stopped, and the
  insertions are bounded.  The seven tables have the function in the middle, at
  the end of the kernel with a module's symbol behind it (a size that wraps
  around), too short for the jump, with a second name, with its name used twice,
  last in the table, and absent.  Of 64 addresses the last 16 are the kernel's;
  `REACH` covers them, as 2 GB cover the kernel's text, and every distance,
  length and place of an instruction is tried, so both signs and both edges of
  the fix-up occur.
* **`lab02`, `lab03`.** Two users: one inside a call while the other opens or
  closes, so that a reference of either must hold the module, and two writers of
  ex1 that overlap.  Two bytes are enough for a write that fits in part.  Two
  readers in every interleaving of their tests and settings of the flag, and over
  two insertions.  The second insertion meets files, entries and readers left by
  the first.  `SYMMETRY` permutes users among themselves and readers among
  themselves; the run has no temporal property.  As with the hook, deadlock is
  not checked: openings and insertions are bounded.
* **`lab04`.** Two callers overlap in every way, exit and are themselves tasks
  of the list; with the older process the list has up to three tasks, one to be
  in front of, at and behind the place where a walk is; enough for the last one to
  exit between the test of the loop and the step, which leads the walk back to
  `init_task`, and for a fork between the test and the answer.  Forks and exits are
  bounded by the tasks: each is born and dies once.  Two users are enough for a
  winner and a loser.  Kernels with and without preemption are both tried.
  Deadlock is not checked: when all have exited, nothing happens any more.

`MAX_CALLS`, `MAX_OPENINGS`, `MAX_INSERTIONS` and, in `TaskCalls`, the sets of
tasks are the only bounds that are not constants of
the code.  `TURNS` and `ACTION_COUNT` are the code's own.

### 3.2 What the exemptions mean

Several properties exempt the very case in which the code does harm, and say
that nothing else does.  They bound the harm; they do not claim its absence.

* `LostOnlyUnkept` (`lab02`, `lab03`): a user that opened before an init which then
  failed, or during the removal, whose reference was refused without `open` saying so;
  any user of a module whose `open` takes no reference; a `/proc` reader of an entry that
  was left behind; a reader of `zad3` after `broken_exit` has freed `buf1`, with the
  `/proc` entry still registered; and ex2 once the task it was asked for has exited.
  A reference counts only for the insertion it was taken of: the kernel frees a module
  whose init has failed whatever the references.
* `LostOnlyByOverlap` (`project`): calls that meet a step of the patch or the removal.
* `LostOnlyBySleepOrOverlap` (`lab04`): calls that have slept in their read section on a
  kernel without preemption, and censuses that overlap.
* `WalkOverlooksNobody` (`lab04/2`): what a whole listing tells, once somebody has exited.

### 3.3 Fairness

Each thread of `lab01` is weakly fair: a thread that can run is eventually
scheduled, as any preemptive scheduler provides.  Nothing is assumed about
spurious wakeups.  Weak fairness says little about a thread that waits for a
mutex others keep taking; but each of them has finitely many rounds, after
which nobody takes the mutex any more, so strong fairness is not needed.  In
`slot_exchange` only one reader and one writer are fair, and the others may stop
while holding mutexes: that is the point of `trylock`.  `RandomStats`,
`HijackedCode`, `SimpleModule` and `TaskCalls` are checked for safety only:
nothing in that code waits for another process (what waits is the kernel's, or
a walk along a list that others may extend for ever), and a reader of a `/proc` file may indeed go on for ever
while others keep opening and ending it (`RepeatsNeedEndings` is what remains).

### 3.4 Findings

1. **`stats_lost_update`.** `project/README.md:15` calls the counter "How many
   bytes were read from `/dev/random` (since the module was inserted)".
   `all_bytes += bytes_read` (`module.c:169`) is a load and a store that two
   processes may interleave; one of the additions is then lost.  What does hold
   is in `stats_concurrent`: as long as no call fails, bytes are lost, never
   invented.
2. **`stats_reopen`.** `project/README.md:18-19` says that a new open-read-close
   resets the counter.  The module resets it only when the previous call
   of that PID returned less than 1 (`module.c:158`); it does not see `open`.

The same counter is wrong without any concurrency, too, though no run is spent on it:
the result of the kernel's function is added before it is looked at (`module.c:169`,
`174`), and an error, such as `-EAGAIN` for a device opened with `O_NONBLOCK`, is
negative.  One such call leaves an unsigned counter near 2^64.  That is why
`NeverOvercounts` and the counts of bytes in `ExactWhileSerial` end with the first
call that fails: without that condition TLC refutes both with a single call.

## 4. The proofs

The theorems hold for every value of the constants that satisfies the
assumptions of the module.  `ConstantsAssumption` gives the shapes (finite
disjoint sets of threads, positive numbers); `BoundAssumption` makes the
bound on insertions positive; `CodeAssumption` and `TablesAssumption` say that
distances reach over the kernel's addresses and that the tables list such
addresses.  `BalanceAssumption` is a fact about the program,
not a convenience: ex2 and ex6 start as many readers as writers, and in ex6
the slots divide the number of writes.  Without it the programs do hang.  In the
proofs only the two theorems `NeverAllAsleep` use it.  `StatsConstants` repeats the shapes that
`RandomStats` assumes, as a hypothesis of each theorem about it.

**Freedom from deadlock** is `NoDeadlock` of ex1, ex2, ex4, ex5 and ex6: until all
threads have returned one of them can go on, and when they have, what they leave
is clean.  "Can go on" is written without `ENABLED`, which the prover does not
know: not asleep and not in front of a mutex that is held (`Waiting`).  Where a
thread has returned or not is all that `NoDeadlock` leaves open of `Termination`;
that each thread gets there needs fairness.

### 4.1 `FirstReadersWritersProofs`

`TypeCorrect`, `WriterAlone`, `ReadersPreferred`, `NeverAllWait`, `ObjectRefinement`.
Mutual exclusion is not inductive.  The strengthening says that the count is
exactly the number of readers that have counted themselves in (`CountExact`),
that `readerMutex` is held across actions only by a first reader waiting for
`writerMutex`, when nobody else is counted (`GateHeld`), and that `writerMutex`
belongs to the writer at the object or to the readers inside (`ObjectHeld`).
"The last reader out" is then the one that leaves the count at zero.  For
`NeverAllWait` (`SomebodyGoesOn`): a writer that has `writerMutex` waits for nothing;
a reader that is inside can leave, since with readers inside nobody waits behind
the gate; and with `writerMutex` free its first taker goes on.

### 4.2 `FillDrainProofs`

`TypeCorrect`, `SlotsExclusive`, `WakeupsComplete`, `NeverAllAsleep`, `BatchRefinement`.
The invariant splits on the phase.  While `toRead = 0` no reader is between its
critical sections and `written = writeIndex` minus the writers that are;
while `toRead > 0` the same with sides exchanged.  A claimed slot is
always below the running index, so a new claim is of another slot; an index is
reset only in the step in which the last busy thread of its phase leaves.  The
phases also say which slots are unread, which is the refinement mapping.

That the threads are never all asleep is a matter of counting, not of wakeups: each
sleeper may be right to sleep.  `InBatches` says that the rounds completed by the writers
are those of a whole number of batches and of the slots written since, and
those of the readers the same batches but for the slots still to be read.  If
all threads slept or had returned, then in the fill phase the writers would
have returned (`NoLostWakeup`), so their rounds, a multiple of `BUFFER_SIZE`, would leave no
batch begun (`WholeBatches`), and the readers would have done as many; in the
drain phase the readers would have returned, with more rounds still to be read.

### 4.3 `SharedBufferProofs`

`TypeCorrect`, `SleepJustified`, `LoadsAreStored`, `NeverAllAsleep`.
`written` is unbounded on both sides; what it keeps to is the number of
rounds completed by writers minus those of readers (`Balance`).  If every thread
slept or had returned, the sleepers could not be on both sides
(`SleepersJustified`, since `BUFFER_SIZE > 0`); the other side would have done
all its rounds, as many as the sleepers' side has in all, so `written` would be
positive for sleeping readers, or not positive for sleeping writers: a
contradiction.  When all have returned, both sides have done as many
(`EvenInTheEnd`).  That a reader
loads only stored slots needs that `readIndex` names a stored slot as soon as
anything has been counted (`LastStored`).

### 4.4 `HijackedCodeProofs`, the hook

`TypeCorrect`, `OnlyOverlapLoses`, `RestIsClean`.  The invariant says where a
call that has met no step of a patch, free or unload can be (`Calls`): in the
module's code only while the jump is in place, with its record still there.
The jump is in place only while the symbol is hijacked or the loader is about
to protect the page (`Bytes`), and then `run` points to the allocated copy
(`Symbol`).  `Page` ties the page's protection to the loader's local `pte_ro`,
`Left` says what a removal has cleaned up by each of its steps.

### 4.5 `HijackedCodeProofs`, the code

`HookRefinement`, `SymbolInvariance`, `PatchFits`, `CopyFaithful`.  The first
says that adding the table of symbols takes behaviours away and adds none, so
the theorems about `FunctionHook` hold of `HijackedSpec` as well.  The
invariant `HijackedInv` says that from the copy on, as long as the jump is in
place, `sym` holds a symbol of the table, its size and a place for the copy.
The arithmetic is the point: a size that comes out of a difference that wraps
around is too large to be allocated, so function and copy both end within the
address space (`SymbolBounds`), and a target in the kernel has been reached
without wrapping around (`NoWrap`); a difference of less than half the modulus survives the cast to 32 bits and back
(`SignedOfDifference`); so a distance computed anew arrives (`FixupArrives`), and
one left as it is leads to the same place of the copy.  The jump fits because
`LongEnough` compares its length with the distance to the next symbol.

### 4.6 `WritersCriticProofs`

`Invariance`, `CriticWaitsForAll`, `CriticIsWoken`, `NeverAllWait`, `ObjectRefinement`.  Towards
the readers the critic is one more writer, so `writerMutex` is shared as in
ex1; `GateHeld` and `ObjectHeld` say so again, with the critic among the threads
that are alone at the object.  What the critic waits for needs
`writerCount = Cardinality(Written)` (`WritersExact`): a writer is counted in the
step in which its byte of `wroteSomething` is first set, and then never again.  A
complete count is then the set of all writers, because these are finitely many
(`WriterSets`).  `NoLostWakeup`, that an asleep critic still has to wait, is part
of the invariant, and a result of its own: the one writer that completes the count
broadcasts in that very step.  `NeverAllWait` rests on it: at the mutexes the argument is
ex1's, and a critic asleep waits for a writer that has not returned, since a writer that has
returned has been counted (`ReturnedWrote`).

### 4.7 `LimitedReadersProofs`

`LimitKept`, `ValueNotLost`, `NeverAllWait`, `ObjectRefinement` for ex5, `SlotReadOnce` for ex3.
The invariant is ex1's, object by object, with two mutexes in place of the gate:
`MutexHeld` says who holds an object's mutex between its actions, `CountExact` that
`readerCount` counts the readers of the object and is within its limit, `FirstAlone`
that nobody else is counted while the first of them waits for the deep mutex, and
`DeepHeld` that the deep mutex belongs to a writer at the value or to the readers
inside.  That a leaving reader clears `full` for no newer value than its own needs
`Seen`: what it has loaded is still there when it leaves, since the group keeps
writers out until its last member is gone.

A first reader takes the object's mutex and then the deep one; a reader that leaves
has the deep one, with its group, and takes the object's again.  What keeps these two orders
apart is `FirstAlone`: while a group is inside, nobody waits for the deep mutex behind the
object's closed one, so whoever holds that can go on (`DeepIsGivenBack`).

ex3 is the same walk with one mutex and no groups.  Its invariant, `SlotInv`, ties
`full` and `unread` of each object: they agree unless a thread is about to give
the mutex back, and then they differ.  `SlotReadOnce` states `EachValueReadOnce`
of `SlotExchange` under its name there, `Slots!EachValueReadOnce`.

### 4.8 `TaskCallsProofs`

`Invariance`, `EveryAnswerHolds`, `NoneIsLostOtherwise`, `NoneKeptOtherwise`, for any
processes and users and all four calls.

None of the properties is inductive, and nothing in the program's state says why
they hold: a walk may stand at a task that has exited, whose link was last set when
it left, and go on from there to another such task.  What makes this right is **an
order of the tasks by age**, which no variable holds.  The invariant says that there
is one, `\E rank, top : Ordered(rank, top)`.  `fork` gives the new task a rank above
`top`, and `exit` leaves all ranks alone, so the witness for the next state is the
old one or an extension of it (`Forked`, `Left`).  Of the order it says:

* `Order`: every link leads to a higher rank or back to `init_task`, also the link
  of a task that has exited; along the listed tasks no link leads past a listed
  task.  So the list is exactly the listed tasks, by age.
* `Chained`, `Standing`: from a task that a read section guards the link leads to a
  task that is listed or guarded by the same section.  A task that a section guards
  is not freed, so a walk never comes to freed memory; the exception is a walk that
  has slept where that ends its section.
* `Reaching`: from wherever a walk can have come (`Known`), no link leads past a task
  that has been listed during the whole call.  An exit redirects the link in front of
  the task that leaves, to the next one behind it, and so passes only that task.
* `Searching` (by PID): the task looked for has not been passed.  `CountingUp` (by
  index): at most `num` of those that stayed have been passed, also when the walk is back at
  `init_task` with `num` still counting.  `Listing`: while nobody exits, the tasks reported
  are the oldest ones, one for each index so far, and an answer is given at the index asked
  for.  Once somebody has exited it may be given earlier: the loop has ended because
  nothing was behind, and by the time the link is loaded again a task has been forked.  `Tallying`
  (census): for each user, the table counts at least everybody passed that has stayed,
  and at most everybody passed that has been met; so the user with the highest count has
  at least as many met as anybody has stayed.

The rest (`Base`) says where calls can be, who is in a read section (`InSection`)
and that the sections that keep a task back are open (`Guarding`), from which
`NoneKeptOtherwise` follows.  An order as a function that is chosen anew in each
step, instead of a variable, leaves the module that is checked as it is.

### 4.9 `SimpleModuleProofs`

`Invariance`, `TypeCorrect`, `OnlyUnkeptAreLost`, `AllIsReleased`, `TextIsServed`,
`AppendsAreKept`, for any number of users, readers, openings and insertions, and any
size of the buffer of ex1.

The recipes are data, so what the proofs use of them is proved of each of the ten
first (`RecipesComplete`): whichever acquisition fails, its undo list has all that was
acquired before it, and the exit list has everything; the `/proc` file is in
each, but for `register_chrdev` and for `lab03`.  The invariant has seven parts:

* `Lifecycle`: during init what is held are the resources in front of `todo`
  (`Acquiring`), afterwards all of them (`Running`), and once init has failed or exit
  has begun whatever is held is still to be released (`Releasing`).
* `Naming`: ex4 keeps its mount, and only ex2 can have a name whose task is gone.
* `Using`: a user that ran `open` before a removal began holds a reference, which, once
  init has succeeded, keeps the module inserted, and so everything its calls touch is
  there (`Secured`).
* `Reading`: whoever is in the `/proc` handler keeps `"proc"` held.
* `Backed`: as long as the `/proc` file of ex1 is held and has bytes to show, so is its
  buffer, because exit and undo remove the file first (`Unwound`).
* `Serving`: a reader with one text more than the ends others have taken from it finds
  the flag set (`Expecting`), and while readings follow each other the flag says
  whether the one reader at the file has had its text (`Orderly`).
* `Appending`: for writes without overlap, the count and the contents are exact
  (`InSeries`).  With overlap what remains is a potential: the count, and also the
  value of it that any write has loaded, leaves room below what has been appended for
  all bytes copied and not yet counted (`Counted`).  A load passes this bound from
  the count to the loaded value, a store passes it back and takes its own bytes
  out, however many other stores it undoes.

### 4.10 `HijackedCodeProofs`, the statistics

`LossNeedsOtherInBucket`, `BytesNeverInvented`, `SerialCallsExact`, each with an
invariant of its own on top of the types.

* `Lonely`: a process whose bucket nobody shares is the only one to store its head, so
  the bucket is empty until its first call has published `<<p, 1>>`, and is that
  one node ever after; `get` therefore finds the record in every later call.  This
  holds for calls that fail, too.
* `BytesBounded`: what was said of `Appending` in 4.9, with the bytes read in place
  of the bytes written.  It holds until a call fails: an error is
  negative, it is added to the unsigned counter all the same (3.4), and
  the counter then shows a number next to `WORD`.
* `Serial`, while no call has overlapped another: one process at most is in a call
  (`OneInside`), what it has loaded is still current, `reader_count` is the number of
  processes with an active record (`ActiveReaders`), the table holds of each
  process what its place in the call says (`TidyAt`) and, until a call fails,
  `all_bytes` is what was handed out but for the result still to be added
  (`BytesTold`).

Nothing is assumed of what the kernel's function returns; the history variable `failed`
says where the counts of bytes stop being promised.

### 4.11 What stays with TLC

* `Termination` and `ReturnsAlone`: liveness under fairness is out of this
  prover's reach.
* `CounterOfThisUse` and `AllBytesExact` of `RandomStats` are violated; the runs show it.

## 5. Not modelled

* **Outside the abstraction.** Printing, `rand`, `sleep`; failing pthread calls
  (`handleError` exits the program); out-of-memory in `random_read`, whose
  `kmalloc` result is used unchecked.
* **Undefined behaviour.** Unlocking another thread's mutex on a platform that
  refuses.  The value a reader of ex2 sees when a writer has come round to
  the slot: the model says which slots are stored, not which value.  ex4
  indexes one byte past `wroteSomething[]`: modelled as the byte of padding
  that the compiler leaves there, for the program's seven writers.
  `reader_name` may point into a task that has exited; the name is not modelled.
* **What the hooks do not follow.** A conditional jump out of the function is
  copied with its distance unchanged and leads elsewhere; `CopyKeepsTargets`
  leaves it out and says so.  The decoder of instructions is the kernel's.
  `set_addr_rw` unprotects the page of the function's first byte; the model takes it for
  granted that the five patched bytes lie in that one page, as they do where the kernel's
  functions are aligned to 16 bytes.
  `find_address_symbol` is not called by the module, and the branch of
  `symbols.c` for kernels before 2.6.30 is never built with it.
* **Handlers of `lab02` and `lab03`.** Parsing of what is written, the owner
  kept by ex3, and what `zad1` - `zad4` compute.  `simple_read` of ex1, ex2 and ex4
  copies from the beginning of its text whatever the position, so a text read in
  pieces repeats its first piece: a fact of each single read, and no property here
  speaks of what a read returns.
* **Test programs of `lab04`.** Their wrappers of `syscall` have no return
  statement; built as their Makefile does, without optimisation, the value of
  `syscall` is what they return, and that is what the model takes.
* **`lab04/3`** is one chain of kernel calls without state, and
  **`lab03/broken_example`** dereferences a null pointer on purpose.
* **The remaining components** are listed with their reason in `PROJECT.json`
  under `components`.

## 6. Plan

Done: all of `lab01`; the hook, its code and the statistics of `project`; the
devices of `lab02` and `lab03`; the system calls of `lab04`; the safety
properties, the freedom from deadlock and the refinements of all of them are proved.
What could be added are parts that are listed as not modelled, and liveness, should the
prover learn it: for each of the programs of `lab01` the number of rounds left, with the
threads' places in their rounds, is a measure that every step but a spurious wakeup lowers.
