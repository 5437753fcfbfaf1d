---------------------------- MODULE SimpleModule ----------------------------
(***************************************************************************)
(* The modules of lab02 and lab03.  Each provides a device and a file in   *)
(* /proc; its insertion acquires resources and may fail at each of them,   *)
(* its removal releases them.  What sets them apart is a recipe: what they *)
(* acquire after the /proc file, what they release when an acquisition     *)
(* fails and in which order at the end, and what their handlers do.        *)
(* Meanwhile processes open, use and close the device, and others read the *)
(* /proc file (module ProcText).  lab02/ex1 appends to a buffer (module    *)
(* AppendBuffer); lab02/ex2 keeps a pointer to the name of a task, and     *)
(* lab02/ex4 to that of a mount.                                           *)
(*                                                                         *)
(* The kernel, modelled from how the code uses it: it inserts or removes   *)
(* the module one at a time and removes it only while nobody holds a       *)
(* reference, but it frees a module whose init has failed whatever the     *)
(* references.  A reference is granted unless a removal is under way.      *)
(* proc_remove waits for the reads that are in the handler and makes later *)
(* ones fail; unregister_chrdev waits for nobody.                          *)
(*                                                                         *)
(* What the other buffers hold and what is counted is left out.  A process *)
(* that executes or touches what is not there is lost and stays so.        *)
(***************************************************************************)
EXTENDS Integers, FiniteSets, Sequences, Functions

CONSTANTS Users,           \* the processes that open the device
          Readers,         \* the processes that read the /proc file
          mybuf_size,      \* the room of the buffer of lab02/ex1
          MAX_OPENINGS,    \* bound of the model: openings of the /proc file
          MAX_INSERTIONS   \* bound of the model: calls of simple_init

ASSUME ConstantsAssumption ==
    /\ IsFiniteSet(Users)
    /\ Users \cap Readers = {}
    /\ mybuf_size \in Nat
    /\ MAX_OPENINGS \in Nat
    /\ MAX_INSERTIONS \in Nat \ {0}

Resources == {"proc", "chrdev", "class", "device", "mybuf"}

------------------------------------------------------------------------------
(* The recipes                                                             *)

\* acquires: what init acquires after the /proc file, in its order; undo: what
\* it releases when one of these fails; exit: what the exit function releases;
\* traits: "reference" if open takes one, "flag" if the /proc file is served by
\* the flag copied and not by the position, "exits" if a read calls the exit
\* function, "appends" for the write of ex1, "names" for those of ex2 and ex4,
\* which keep a name, "pins" if that keeps its owner, too, and "shows" if the
\* /proc file shows the buffer whatever it is: NULL prints, what is freed does not.
Recipe(acquires, undo, exit, traits) ==
    [acquires |-> acquires, undo |-> undo, exit |-> exit, traits |-> traits]

lab02_simple_module ==
    Recipe(<<"chrdev", "mybuf">>,
           [chrdev |-> <<>>, mybuf |-> <<"chrdev", "proc", "mybuf">>],
           <<"chrdev", "proc", "mybuf">>, {"flag"})

lab02_ex1 ==
    Recipe(<<"chrdev", "mybuf">>,
           [chrdev |-> <<>>, mybuf |-> <<"chrdev", "proc", "mybuf">>],
           <<"chrdev", "proc", "mybuf">>, {"reference", "appends"})

lab02_ex2 ==
    Recipe(<<"chrdev">>, [chrdev |-> <<"proc">>], <<"chrdev", "proc">>, {"reference", "names"})

lab02_ex3 ==
    Recipe(<<"chrdev">>, [chrdev |-> <<"proc">>], <<"chrdev", "proc">>, {"reference", "flag"})

lab02_ex4 ==
    Recipe(<<"chrdev">>, [chrdev |-> <<"proc">>], <<"chrdev", "proc">>, {"reference", "names", "pins"})

\* Mutation: a failure of device_create is handled like one of class_create.
lab02_ex5_forgetful ==
    LET exit == <<"device", "class", "chrdev", "proc", "mybuf">>
    IN  Recipe(<<"chrdev", "class", "device", "mybuf">>,
               [chrdev |-> <<>>, class |-> <<"proc", "chrdev">>,
                device |-> <<"proc", "chrdev">>, mybuf |-> exit],
               exit, {"reference", "flag"})

lab02_ex5 ==
    LET exit == <<"device", "class", "chrdev", "proc", "mybuf">>
    IN  Recipe(<<"chrdev", "class", "device", "mybuf">>,
               [chrdev |-> <<>>, class |-> <<"proc", "chrdev">>,
                device |-> <<"proc", "class", "chrdev">>, mybuf |-> exit],
               exit, {"reference", "flag"})

lab03_zad1 == Recipe(<<"chrdev">>, [chrdev |-> <<>>], <<"chrdev">>, {"exits"})

\* zad2 and zad4 keep and release what zad1 does.
lab03_zad2 == lab03_zad1
lab03_zad4 == lab03_zad1

\* Both buffers of zad3 count as one: it allocates both before it tests them.
lab03_zad3 ==
    Recipe(<<"chrdev", "mybuf">>, [chrdev |-> <<>>, mybuf |-> <<"chrdev", "mybuf">>],
           <<"chrdev", "mybuf">>, {"shows"})

lab03 == {lab03_zad1, lab03_zad2, lab03_zad3, lab03_zad4}
Recipes ==
    {lab02_simple_module, lab02_ex1, lab02_ex2, lab02_ex3, lab02_ex4, lab02_ex5} \cup lab03

VARIABLES
    recipe,     \* the module that is inserted, again and again
    loader,     \* where its init or exit is
    todo,       \* the resources it still has to acquire or to release
    insertion,  \* how often the module has been inserted
    held,       \* the resources held by the present insertion
    freed,      \* whether it has freed its buffer
    stale,      \* the resources left behind by insertions that are over
    refused,    \* history: whether register_chrdev has ever failed
    complete,   \* history: the insertions whose init has succeeded
    at,         \* where each user of the device is
    since,      \* the insertion whose code its open file refers to
    referenced, \* whether it holds a reference to the module
    late,       \* history: whether it ran simple_open after the removal had begun
    lost        \* the processes that are lost

VARIABLES eof, pc, opened, texts, endings, clean

\* The readers of the /proc file.
Proc == INSTANCE ProcText

VARIABLES mybuf_count, mybuf, write, appended, serial

\* The buffer of lab02/ex1.
Buffer == INSTANCE AppendBuffer

VARIABLES
    alive,   \* whether the task that ex2, or the mount that ex4 looks up is there
    pinned,  \* whether it has to stay
    named    \* whether task_name or mountpoint points to its name

module == <<recipe, loader, todo, insertion, held, freed, stale, refused, complete>>
reading == <<eof, pc, opened, texts, endings, clean>>
buffer == <<mybuf_count, mybuf, write, appended, serial>>
name == <<alive, pinned, named>>
users == <<at, since, referenced, late>>
handlers == <<reading, buffer, name>>
vars == <<module, users, lost, handlers>>

Has(trait) == trait \in recipe.traits

Init ==
    /\ recipe \in Recipes
    /\ loader = "out"
    /\ todo = <<>>
    /\ insertion = 0
    /\ held = {}
    /\ freed = FALSE
    /\ stale = {}
    /\ refused = FALSE
    /\ complete = {}
    /\ at = [u \in Users |-> "closed"]
    /\ since = [u \in Users |-> 0]
    /\ referenced = [u \in Users |-> FALSE]
    /\ late = [u \in Users |-> FALSE]
    /\ lost = {}
    /\ Proc!Init
    /\ Buffer!Init
    /\ alive = TRUE
    /\ pinned = FALSE
    /\ named = FALSE

------------------------------------------------------------------------------
(* init()                                                                  *)

\* insmod loads a fresh copy of the module's data; init begins with
\* proc_create, and does not look whether it has succeeded.
Insert ==
    /\ loader = "out"
    /\ insertion < MAX_INSERTIONS
    /\ loader' = "init"
    /\ todo' = recipe.acquires
    /\ insertion' = insertion + 1
    /\ held' \in {{}, {"proc"}}
    /\ Proc!Load
    /\ named' = FALSE
    /\ UNCHANGED <<recipe, freed, stale, refused, complete, users, lost, buffer, alive, pinned>>

\* The insertion or the removal is over and the module is freed, with its buffer
\* and the readers that are still in its handler.
Free ==
    /\ loader' = "out"
    /\ stale' = stale \cup held
    /\ held' = {}
    /\ freed' = FALSE
    /\ lost' = lost \cup {r \in Readers : pc[r] \in {"text", "end"}}
    /\ Buffer!Load

\* The next acquisition succeeds...
Acquire ==
    /\ loader = "init"
    /\ todo # <<>>
    /\ held' = held \cup {Head(todo)}
    /\ todo' = Tail(todo)
    /\ UNCHANGED <<recipe, loader, insertion, freed, stale, refused, complete, users, lost, handlers>>

\* ... or fails, and init begins to release what the recipe says, often
\* nothing when it is register_chrdev.
Fail ==
    /\ loader = "init"
    /\ todo # <<>>
    /\ loader' = "fail"
    /\ todo' = recipe.undo[Head(todo)]
    /\ refused' = (refused \/ Head(todo) = "chrdev")
    /\ UNCHANGED <<recipe, insertion, held, freed, stale, complete, users, lost, handlers>>

Inserted ==
    /\ loader = "init"
    /\ todo = <<>>
    /\ loader' = "in"
    /\ complete' = complete \cup {insertion}
    /\ UNCHANGED <<recipe, todo, insertion, held, freed, stale, refused, users, lost, handlers>>

------------------------------------------------------------------------------
(* exit() and the failures of init()                                       *)

\* rmmod: nobody holds a reference to this insertion, and from now on nobody
\* gets one.
Remove ==
    /\ loader = "in"
    /\ \A u \in Users : ~(referenced[u] /\ since[u] = insertion)
    /\ loader' = "exit"
    /\ todo' = recipe.exit
    /\ UNCHANGED <<recipe, insertion, held, freed, stale, refused, complete, users, lost, handlers>>

\* The next release.  What is not held (no /proc entry, no buffer) is passed
\* over.  proc_remove waits for the handler to be empty, and the files that
\* are open can be read no more.  When one of the two buffers of zad3 could not
\* be allocated, the other may have been and is freed.
Release ==
    /\ loader \in {"fail", "exit"}
    /\ todo # <<>>
    /\ todo' = Tail(todo)
    /\ held' = held \ {Head(todo)}
    /\ IF Head(todo) = "proc"
       THEN /\ \A r \in Readers \ lost : pc[r] \notin {"text", "end"}
            /\ pc' = [r \in Readers |-> "closed"]
       ELSE UNCHANGED pc
    /\ IF Head(todo) = "mybuf"
       THEN freed' \in {"mybuf" \in held, "mybuf" \in held \/ Has("shows")}
       ELSE UNCHANGED freed
    /\ UNCHANGED <<recipe, loader, insertion, stale, refused, complete, users, lost,
                   eof, clean, opened, texts, endings, buffer, name>>

\* init or exit returns.
Return ==
    /\ loader \in {"fail", "exit"}
    /\ todo = <<>>
    /\ Free
    /\ UNCHANGED <<recipe, todo, insertion, refused, complete, users, reading, name>>

Loader == Insert \/ Acquire \/ Fail \/ Inserted \/ Remove \/ Release \/ Return

------------------------------------------------------------------------------
(* The users of the device                                                 *)

\* The code that the open file of u refers to is still there.
CodePresent(u) == loader # "out" /\ since[u] = insertion

\* u goes on, if everything it needs is there.
Step(u, from, ok, to) ==
    /\ u \notin lost
    /\ at[u] = from
    /\ at' = [at EXCEPT ![u] = IF ok THEN to ELSE @]
    /\ lost' = IF ok THEN lost ELSE lost \cup {u}

\* open() finds the device number and with it simple_open...
Find(u) ==
    /\ "chrdev" \in held
    /\ Step(u, "closed", TRUE, "opening")
    /\ since' = [since EXCEPT ![u] = insertion]
    /\ UNCHANGED <<referenced, late, module, handlers>>

\* Mutation: nobody takes a reference.
simple_open_bare(u) ==
    /\ Step(u, "opening", CodePresent(u), "open")
    /\ late' = [late EXCEPT ![u] = ~CodePresent(u) \/ loader = "exit"]
    /\ UNCHANGED <<since, referenced, module, handlers>>

\* ... which tries to take a reference, if it does that at all, and returns 0
\* whether it got one or not.
simple_open(u) ==
    /\ Step(u, "opening", CodePresent(u), "open")
    /\ referenced' = [referenced EXCEPT ![u] = Has("reference") /\ CodePresent(u) /\ loader # "exit"]
    /\ late' = [late EXCEPT ![u] = ~CodePresent(u) \/ loader = "exit"]
    /\ UNCHANGED <<since, module, handlers>>

\* A call of simple_read or simple_write begins...
Enter(u) ==
    /\ Step(u, "open", CodePresent(u), "inside")
    /\ UNCHANGED <<since, referenced, late, module, handlers>>

\* The name is there that the handlers of ex2 and ex4 read, if there is one.
NamePresent == named => alive

\* What the handlers touch is there.
DataPresent(u) ==
    /\ CodePresent(u)
    /\ "mybuf" \in Range(recipe.acquires) => "mybuf" \in held
    /\ NamePresent

\* ... accesses its data, perhaps after a page fault of the user's memory, and
\* returns.  (The device of ex3 is read by the handler of its /proc file: here
\* are its writes.)
Access(u) ==
    /\ Step(u, "inside", DataPresent(u), "open")
    /\ DataPresent(u) => write[u].at = "idle"
    /\ UNCHANGED <<since, referenced, late, module, handlers>>

\* A call need not touch the buffer: ex1 has nothing to read at the end of the
\* text and no room at the end of the buffer, and broken_write of zad3 uses one
\* of the two buffers, the other of which may have failed.
Skip(u) ==
    /\ Step(u, "inside", TRUE, "open")
    /\ CodePresent(u)
    /\ write[u].at = "idle"
    /\ Has("appends") \/ (Has("shows") /\ loader = "fail" /\ ~freed)
    /\ UNCHANGED <<since, referenced, late, module, handlers>>

\* simple_write of ex1.
AppendStep(u) ==
    /\ Has("appends")
    /\ DataPresent(u)
    /\ \/ Step(u, "inside", TRUE, "inside") /\ \E count \in 1 .. mybuf_size : Buffer!BeginWrite(u, count)
       \/ Step(u, "inside", TRUE, "inside") /\ (Buffer!CopyIn(u) \/ Buffer!LoadCount(u))
       \/ Step(u, "inside", TRUE, "open") /\ Buffer!StoreCount(u)
    /\ UNCHANGED <<since, referenced, late, module, reading, name>>

\* simple_write of ex2 and of ex4.  pid_task takes no reference to the task,
\* kern_path takes one to the mount, and nothing ever gives it back.
KeepName(u) ==
    /\ Has("names")
    /\ CodePresent(u)
    /\ alive
    /\ Step(u, "inside", TRUE, "open")
    /\ pinned' = Has("pins")
    /\ named' = TRUE
    /\ UNCHANGED <<since, referenced, late, module, reading, buffer, alive>>

\* The task exits, or the file system is unmounted.
Vanish ==
    /\ Has("names")
    /\ alive
    /\ ~pinned
    /\ alive' = FALSE
    /\ UNCHANGED <<module, users, lost, reading, buffer, pinned, named>>

\* broken_read without memory calls broken_exit, and the module stays inserted.
ReadWithoutMemory(u) ==
    /\ Has("exits")
    /\ CodePresent(u)
    /\ Step(u, "inside", TRUE, "open")
    /\ held' = held \ Range(recipe.exit)
    /\ UNCHANGED <<since, referenced, late, recipe, loader, todo, insertion, freed, stale, refused,
                   complete, handlers>>

simple_release(u) ==
    /\ Step(u, "open", CodePresent(u), "closed")
    /\ referenced' = [referenced EXCEPT ![u] = FALSE]
    /\ IF CodePresent(u)
       THEN since' = [since EXCEPT ![u] = 0] /\ late' = [late EXCEPT ![u] = FALSE]
       ELSE UNCHANGED <<since, late>>
    /\ UNCHANGED <<module, handlers>>

User(u) ==
    \/ Find(u) \/ simple_open(u) \/ Enter(u) \/ Access(u) \/ Skip(u) \/ simple_release(u)
    \/ AppendStep(u) \/ KeepName(u) \/ ReadWithoutMemory(u)

------------------------------------------------------------------------------
(* The readers of the /proc file                                           *)

\* What the handler reads is there: a name, the bytes of ex1 if there are any,
\* the buffer of zad3 unless it is NULL.
TextPresent ==
    /\ NamePresent
    /\ Has("appends") /\ mybuf_count > 0 => "mybuf" \in held
    /\ Has("shows") => ~freed

\* simple_read_proc, and open() and close() around it.  A handler that serves
\* by the position has no flag to set: it is entered and left.
ReadProc(r) ==
    /\ r \notin lost
    /\ \/ "proc" \in held /\ (Proc!Open(r) \/ Proc!TestFlag(r))
       \/ Has("flag") /\ (Proc!CopyText(r) \/ Proc!ReportEnd(r))
       \/ TextPresent /\ Proc!CopyFails(r)
       \/ Proc!GiveUp(r)
    /\ UNCHANGED <<module, users, lost, buffer, name>>

ReadTextGone(r) ==
    /\ ~TextPresent
    /\ pc[r] = "text"
    /\ r \notin lost
    /\ lost' = lost \cup {r}
    /\ UNCHANGED <<module, users, handlers>>

\* An entry left behind leads to the handler of a module that is gone.
ReadStale(r) ==
    /\ "proc" \in stale
    /\ r \notin lost
    /\ lost' = lost \cup {r}
    /\ UNCHANGED <<module, users, handlers>>

Next ==
    \/ Loader \/ Vanish
    \/ \E u \in Users : User(u)
    \/ \E r \in Readers : ReadProc(r) \/ ReadTextGone(r) \/ ReadStale(r)

Spec == Init /\ [][Next]_vars

------------------------------------------------------------------------------
(* Properties                                                              *)

TypeOK ==
    /\ recipe \in Recipes
    /\ loader \in {"out", "init", "in", "fail", "exit"}
    /\ todo \in Seq(Resources)
    /\ insertion \in 0 .. MAX_INSERTIONS
    /\ held \in SUBSET Resources
    /\ loader = "in" /\ ~Has("exits") => Range(recipe.acquires) \subseteq held
    /\ freed \in BOOLEAN
    /\ stale \in SUBSET Resources
    /\ refused \in BOOLEAN
    /\ complete \in SUBSET (1 .. insertion)
    /\ at \in [Users -> {"closed", "opening", "open", "inside"}]
    /\ since \in [Users -> 0 .. insertion]
    /\ referenced \in [Users -> BOOLEAN]
    /\ late \in [Users -> BOOLEAN]
    /\ lost \in SUBSET (Users \cup Readers)
    /\ Proc!TypeOK

\* If open takes a reference, a process that got it before the removal began
\* comes to no harm until it has closed the device, unless it belongs to an
\* init that has failed.  A reader of the /proc file comes to harm by an entry
\* that has been left behind, and with lab03/zad3 by the buffer that is freed
\* while the file still shows it.  Both hold for ex2 as long as no task exits
\* whose name has been asked for, and for ex4 whatever is unmounted.
LostOnlyUnkept ==
    [][~(recipe = lab02_ex2 /\ ~alive) =>
           /\ \A u \in Users \cap (lost' \ lost) :
                  Has("reference") => late'[u] \/ since[u] \notin complete
           /\ \A r \in Readers \cap (lost' \ lost) :
                  "proc" \in stale' \/ (recipe = lab03_zad3 /\ freed)]_vars

\* A module that is out, removed or not successfully inserted, has released
\* everything.  The exceptions are the /proc entry of lab03, which is never
\* removed, and in lab02 the return of init after register_chrdev.
FailureReleasesAll ==
    loader = "out" => /\ held = {}
                      /\ stale # {} => stale = {"proc"} /\ (refused \/ recipe \in lab03)

\* What the readers of the /proc file can rely on, over all insertions.
TextServed == Proc!OneTextEach /\ Proc!RepeatsNeedEndings

\* What the writers of lab02/ex1 can rely on.
AppendsKept == Buffer!AppendsKept
=============================================================================
