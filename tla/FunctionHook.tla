---------------------------- MODULE FunctionHook ----------------------------
(***************************************************************************)
(* project/module.c and project/hijacks.c: the module is inserted, copies  *)
(* the kernel's random_read to a trampoline and writes a jump to its own   *)
(* function over the first bytes of the original; when it is removed it    *)
(* writes the bytes back and frees the trampoline and its records.  All    *)
(* the while processes call random_read, and nothing makes them wait.      *)
(*                                                                         *)
(* The kernel runs at most one insertion or removal of a module at a time, *)
(* so the loader is one thread.  The five bytes are two cells, the opcode  *)
(* and the offset of the jump; the code of the function and of its copy,   *)
(* and what the calls count (module RandomStats), are left out.  A process *)
(* that executes or writes what it should not is "lost" and stays so.      *)
(***************************************************************************)
EXTENDS Integers, FiniteSets

CONSTANTS Callers,         \* the processes that call random_read
          MAX_INSERTIONS   \* bound of the model: how often insmod succeeds

ASSUME BoundAssumption == MAX_INSERTIONS \in Nat \ {0}

Cells == {"opcode", "offset"}
Own == [c \in Cells |-> "own"]
Hooked == [c \in Cells |-> IF c = "opcode" THEN "jump" ELSE "hook"]
ProcEntries == {"parent_dir", "bytes_read_proc", "readers_proc"}

VARIABLES
    \* The machine
    text,          \* the first bytes of random_read
    writable,      \* _PAGE_RW of their page
    bootWritable,  \* what _PAGE_RW was before any insertion
    proc,          \* the /proc entries that exist
    trampoline,    \* whether sym->new_addr is allocated
    \* The module and its sym_random_read
    loader,        \* where the insertion or removal is
    insertion,     \* how often the module has been inserted
    ripFound,      \* whether kernfunc_init has found insn_rip_relative
    run, hijacked, \* the fields of the symbol
    saved,         \* sym->orig_start_bytes
    pte_ro,        \* the local of symbol_hijack and symbol_restore
    \* The processes
    at,            \* where each of them is
    since,         \* the insertion whose code it runs
    record,        \* its record in the hash table
    overlapped     \* whether a patch, a free or an unload met its present call

machine == <<text, writable, bootWritable, proc, trampoline>>
module == <<loader, insertion, ripFound, run, hijacked, saved, pte_ro>>
processes == <<at, since, record, overlapped>>
vars == <<machine, module, processes>>

Init ==
    /\ text = Own
    /\ writable \in BOOLEAN
    /\ bootWritable = writable
    /\ proc = {}
    /\ trampoline = FALSE
    /\ loader = "out"
    /\ insertion = 0
    /\ ripFound = FALSE
    /\ run = "nothing"
    /\ hijacked = FALSE
    /\ saved = Own
    /\ pte_ro = FALSE
    /\ at = [c \in Callers |-> "outside"]
    /\ since = [c \in Callers |-> 0]
    /\ record = [c \in Callers |-> "none"]
    /\ overlapped = [c \in Callers |-> FALSE]

------------------------------------------------------------------------------
(* stats_of_random_init() and symbol_hijack()                              *)

Goto(from, to) == loader = from /\ loader' = to

\* The calls under way when the loader changes something they depend on.
MeetsCalls ==
    overlapped' = [c \in Callers |-> overlapped[c] \/ at[c] # "outside"]

\* insmod: the module's data are fresh and kernfunc_init finds what it needs.
\* It ignores whether the last of its symbols is found.  An insertion that it
\* refuses changes nothing.
Insert ==
    /\ insertion < MAX_INSERTIONS
    /\ Goto("out", "register")
    /\ insertion' = insertion + 1
    /\ ripFound' \in BOOLEAN
    /\ run' = "nothing"
    /\ hijacked' = FALSE
    /\ record' = [c \in Callers |-> "none"]
    /\ UNCHANGED <<machine, saved, pte_ro, at, since, overlapped>>

\* proc_mkdir and proc_create: each may fail, and the results are not tested.
Register ==
    /\ Goto("register", "find")
    /\ proc' \in SUBSET ProcEntries
    /\ UNCHANGED <<text, writable, bootWritable, trampoline, insertion, ripFound,
                   run, hijacked, saved, pte_ro, processes>>

\* symbol_hijack returns early: there is no such symbol, it already begins
\* with a jump, or there is no memory for the copy.  init returns 0 all the
\* same.
HijackRefused ==
    /\ Goto("find", "in")
    /\ run' \in {"nothing", "function"}
    /\ UNCHANGED <<machine, insertion, ripFound, hijacked, saved, pte_ro, processes>>

\* find_symbol_address makes run point to the function itself; the memory for
\* the copy is allocated.
FindSymbol ==
    /\ Goto("find", "copy")
    /\ run' = "function"
    /\ trampoline' = TRUE
    /\ UNCHANGED <<text, writable, bootWritable, proc, insertion, ripFound,
                   hijacked, saved, pte_ro, processes>>

\* The label out_error: the symbol is too short for a jump, or empty, or one
\* of its instructions cannot be decoded.
HijackAborted ==
    /\ Goto("copy", "in")
    /\ trampoline' = FALSE
    /\ UNCHANGED <<text, writable, bootWritable, proc, insertion, ripFound, run,
                   hijacked, saved, pte_ro, processes>>

\* An instruction that is neither a call nor a jump is copied, and
\* tpe_insn_rip_relative calls the function that was not found: init dies.
CopyDies ==
    /\ ~ripFound
    /\ Goto("copy", "dead")
    /\ UNCHANGED <<machine, insertion, ripFound, run, hijacked, saved, pte_ro, processes>>

\* Mutation: sym->run is left as find_symbol_address has set it.
CopyCodeOnly ==
    /\ Goto("copy", "patch")
    /\ UNCHANGED <<machine, insertion, ripFound, run, hijacked, saved, pte_ro, processes>>

\* All instructions are copied.  Without insn_rip_relative this happens only
\* to a function made of calls and jumps.
CopyCode ==
    /\ Goto("copy", "patch")
    /\ run' = "trampoline"
    /\ UNCHANGED <<machine, insertion, ripFound, hijacked, saved, pte_ro, processes>>

\* set_addr_rw, in symbol_hijack and in symbol_restore.
SetAddrRW(from, to) ==
    /\ Goto(from, to)
    /\ pte_ro' = ~writable
    /\ writable' = TRUE
    /\ UNCHANGED <<text, bootWritable, proc, trampoline, insertion, ripFound, run,
                   hijacked, saved, processes>>

\* Mutation: the page is made read-only whatever it was.
ProtectedAlways == FALSE

\* The effect of set_addr_ro on the page.
Protected == IF pte_ro THEN FALSE ELSE writable

\* Mutation: the bytes are saved when the opcode is already there.
StoreOpcodeFirst ==
    /\ Goto("opcode", "offset")
    /\ text' = [text EXCEPT !["opcode"] = "jump"]
    /\ saved' = text'
    /\ MeetsCalls
    /\ UNCHANGED <<writable, bootWritable, proc, trampoline, insertion, ripFound,
                   run, hijacked, pte_ro, at, since, record>>

\* The original bytes are saved and the first of them overwritten.
StoreOpcode ==
    /\ Goto("opcode", "offset")
    /\ saved' = text
    /\ text' = [text EXCEPT !["opcode"] = "jump"]
    /\ MeetsCalls
    /\ UNCHANGED <<writable, bootWritable, proc, trampoline, insertion, ripFound,
                   run, hijacked, pte_ro, at, since, record>>

StoreOffset ==
    /\ Goto("offset", "protect")
    /\ text' = [text EXCEPT !["offset"] = "hook"]
    /\ MeetsCalls
    /\ UNCHANGED <<writable, bootWritable, proc, trampoline, insertion, ripFound,
                   run, hijacked, saved, pte_ro, at, since, record>>

\* set_addr_ro and the end of symbol_hijack.
HijackDone ==
    /\ Goto("protect", "in")
    /\ writable' = Protected
    /\ hijacked' = TRUE
    /\ UNCHANGED <<text, bootWritable, proc, trampoline, insertion, ripFound, run,
                   saved, pte_ro, processes>>

------------------------------------------------------------------------------
(* stats_of_random_exit() and symbol_restore()                             *)

\* rmmod: the /proc entries go first.
Remove ==
    /\ Goto("in", IF hijacked THEN "unpatch" ELSE "forget")
    /\ proc' = {}
    /\ UNCHANGED <<text, writable, bootWritable, trampoline, insertion, ripFound,
                   run, hijacked, saved, pte_ro, processes>>

\* memcpy writes the saved bytes back, in the order the compiler has chosen.
RestoreCell(cell) ==
    /\ loader = "restore"
    /\ text[cell] # saved[cell]
    /\ text' = [text EXCEPT ![cell] = saved[cell]]
    /\ loader' = IF text' = saved THEN "unprotect" ELSE "restore"
    /\ MeetsCalls
    /\ UNCHANGED <<writable, bootWritable, proc, trampoline, insertion, ripFound,
                   run, hijacked, saved, pte_ro, at, since, record>>

\* set_addr_ro in symbol_restore.
RestoreDone ==
    /\ Goto("unprotect", "release")
    /\ writable' = Protected
    /\ hijacked' = FALSE
    /\ UNCHANGED <<text, bootWritable, proc, trampoline, insertion, ripFound, run,
                   saved, pte_ro, processes>>

FreeTrampoline ==
    /\ Goto("release", "forget")
    /\ trampoline' = FALSE
    /\ MeetsCalls
    /\ UNCHANGED <<text, writable, bootWritable, proc, insertion, ripFound, run,
                   hijacked, saved, pte_ro, at, since, record>>

\* The loop that unlinks and frees every record.
FreeRecords ==
    /\ Goto("forget", "unload")
    /\ record' = [c \in Callers |-> "none"]
    /\ MeetsCalls
    /\ UNCHANGED <<machine, insertion, ripFound, run, hijacked, saved, pte_ro, at, since>>

\* The kernel frees the code of the module.
Unload ==
    /\ Goto("unload", "out")
    /\ MeetsCalls
    /\ UNCHANGED <<machine, insertion, ripFound, run, hijacked, saved, pte_ro,
                   at, since, record>>

Loader ==
    \/ Insert \/ Register
    \/ HijackRefused \/ FindSymbol \/ HijackAborted \/ CopyDies \/ CopyCode
    \/ SetAddrRW("patch", "opcode") \/ StoreOpcode \/ StoreOffset \/ HijackDone
    \/ Remove
    \/ SetAddrRW("unpatch", "restore") \/ (\E cell \in Cells : RestoreCell(cell))
    \/ RestoreDone \/ FreeTrampoline \/ FreeRecords \/ Unload

------------------------------------------------------------------------------
(* A call of random_read                                                   *)

\* c is in the code of the module: it is still there.
CodePresent(c) == loader # "out" /\ since[c] = insertion

Move(c, from, ok, to) ==
    /\ at[c] = from
    /\ at' = [at EXCEPT ![c] = IF ok THEN to ELSE "lost"]

\* The processor fetches the first bytes.  A mixture of old and new leads it
\* anywhere.
EnterFunction(c) ==
    /\ \E next \in {"start", "body"} : Move(c, "outside", TRUE, next)
    /\ text = Own
    /\ UNCHANGED <<machine, module, since, record, overlapped>>

EnterHook(c) ==
    /\ text = Hooked
    /\ since' = [since EXCEPT ![c] = insertion]
    /\ Move(c, "outside", loader # "out", "hook")
    /\ UNCHANGED <<machine, module, record, overlapped>>

EnterTorn(c) ==
    /\ text \notin {Own, Hooked}
    /\ Move(c, "outside", FALSE, "lost")
    /\ overlapped' = [overlapped EXCEPT ![c] = TRUE]
    /\ UNCHANGED <<machine, module, since, record>>

\* The next instruction is still among the bytes that a jump overwrites.
LeaveStart(c) ==
    /\ Move(c, "start", text = Own, "body")
    /\ UNCHANGED <<machine, module, since, record, overlapped>>

LeaveFunction(c) ==
    /\ Move(c, "body", TRUE, "outside")
    /\ overlapped' = [overlapped EXCEPT ![c] = FALSE]
    /\ UNCHANGED <<machine, module, since, record>>

\* random_read of the module up to the call of run: its record is found or
\* made.  Calling the patched function would come back here without end.
CallRun(c) ==
    /\ Move(c, "hook", CodePresent(c) /\ run = "trampoline", "copy")
    /\ record' = [record EXCEPT ![c] = IF CodePresent(c) THEN "kept" ELSE @]
    /\ UNCHANGED <<machine, module, since, overlapped>>

\* The copy is executed to its end, perhaps after a long wait for entropy.
ReturnFromRun(c) ==
    /\ Move(c, "copy", CodePresent(c) /\ trampoline, "counting")
    /\ UNCHANGED <<machine, module, since, record, overlapped>>

\* The record is updated and random_read returns.
LeaveHook(c) ==
    /\ Move(c, "counting", CodePresent(c) /\ record[c] = "kept", "outside")
    /\ overlapped' = [overlapped EXCEPT ![c] = @ /\ at'[c] = "lost"]
    /\ UNCHANGED <<machine, module, since, record>>

Caller(c) ==
    \/ EnterFunction(c) \/ EnterHook(c) \/ EnterTorn(c)
    \/ LeaveStart(c) \/ LeaveFunction(c)
    \/ CallRun(c) \/ ReturnFromRun(c) \/ LeaveHook(c)

Next == Loader \/ \E c \in Callers : Caller(c)

Spec == Init /\ [][Next]_vars

------------------------------------------------------------------------------
(* Properties                                                              *)

TypeOK ==
    /\ text \in [Cells -> {"own", "jump", "hook"}]
    /\ writable \in BOOLEAN
    /\ bootWritable \in BOOLEAN
    /\ proc \in SUBSET ProcEntries
    /\ trampoline \in BOOLEAN
    /\ loader \in {"out", "register", "find", "copy", "dead", "patch", "opcode",
                   "offset", "protect", "in", "unpatch", "restore", "unprotect",
                   "release", "forget", "unload"}
    /\ insertion \in 0 .. MAX_INSERTIONS
    /\ ripFound \in BOOLEAN
    /\ run \in {"nothing", "function", "trampoline"}
    /\ hijacked \in BOOLEAN
    /\ saved = Own
    /\ pte_ro \in BOOLEAN
    /\ at \in [Callers -> {"outside", "start", "body", "hook", "copy", "counting", "lost"}]
    /\ since \in [Callers -> 0 .. insertion]
    /\ record \in [Callers -> {"none", "kept"}]
    /\ overlapped \in [Callers -> BOOLEAN]

\* A call that meets no patch, free or unload is safe, whatever other calls
\* and earlier insertions have done: a caller gets lost only if the loader
\* acts while it is inside, or if it enters between the stores of a patch.
LostOnlyByOverlap == \A c \in Callers : at[c] = "lost" => overlapped[c]

\* Between insertions and removals the symbol, the machine and the module
\* agree.  The function begins with the jump, and the copy is allocated,
\* exactly while the symbol is marked hijacked; the page is as writable as it
\* was ("only set back to readonly if it was readonly before", hijacks.c line
\* 147); and a module that is gone leaves nothing behind but the records made
\* by calls that its removal has met.
RestingStateClean ==
    loader \in {"out", "in"} =>
        /\ text = IF hijacked THEN Hooked ELSE Own
        /\ trampoline = hijacked
        /\ writable = bootWritable
        /\ loader = "out" =>
              /\ ~hijacked
              /\ proc = {}
              /\ \A c \in Callers : record[c] = "kept" => overlapped[c]
==============================================================================
