-------------------------- MODULE HijackedCodeProofs --------------------------
(***************************************************************************)
(* Proofs about project/: the function it hooks and the statistics it      *)
(* keeps of the calls.  The first part is about the insertion and removal  *)
(* of project/module.c (module FunctionHook), for any number of processes  *)
(* and of insertions.  That a call is safe unless a patch or a removal     *)
(* meets it depends on where such a call can be: in the module's code only *)
(* while the jump is in place (Calls), which in turn is so only while run  *)
(* points to the copy and the copy is allocated (Bytes and Symbol).        *)
(*                                                                         *)
(* The second part is about the code that is hooked (module HijackedCode), *)
(* for every table of symbols, every place of the copy, every width of     *)
(* addresses and distances, and whatever the function consists of.  The    *)
(* computations need that function and copy end within the address space.  *)
(* The copy does because it was allocated; the function does since a size  *)
(* computed from two addresses that wrap around would be too large to      *)
(* allocate.                                                               *)
(*                                                                         *)
(* The third part is about random_read (module RandomStats), for any       *)
(* processes, buckets and numbers of calls.                                *)
(***************************************************************************)
EXTENDS HijackedCode, FiniteSetTheorems, SequenceTheorems, WellFoundedInduction, TLAPS

------------------------------------------------------------------------------
(* The steps of the loader and of the callers.                             *)

\* What the fields of the symbol say about where the loader is.
Symbol ==
    /\ hijacked => loader \in {"in", "unpatch", "restore", "unprotect"}
    /\ loader \in {"unpatch", "restore", "unprotect"} => hijacked
    /\ \/ hijacked
       \/ loader \in {"patch", "opcode", "offset", "protect", "release"}
       => run = "trampoline"
    /\ trampoline <=> \/ hijacked
                      \/ loader \in {"copy", "dead", "patch", "opcode", "offset",
                                     "protect", "release"}

HookInPlace == loader \in {"protect", "unpatch"} \/ (loader = "in" /\ hijacked)

Bytes ==
    /\ HookInPlace => text = Hooked
    /\ loader = "offset" => text = [Own EXCEPT !["opcode"] = "jump"]
    /\ loader = "restore" => text # Own
    /\ ~HookInPlace /\ loader \notin {"offset", "restore"} => text = Own

Page ==
    IF loader \in {"opcode", "offset", "protect", "restore", "unprotect"}
    THEN writable /\ pte_ro = ~bootWritable
    ELSE writable = bootWritable

\* What a removal has cleaned up, and the records that escape it.
Left ==
    /\ loader \in {"out", "register", "unpatch", "restore", "unprotect", "release",
                   "forget", "unload"} => proc = {}
    /\ loader \in {"unload", "out"} =>
          \A c \in Callers :
              record[c] = "kept" => overlapped[c] /\ at[c] \in {"copy", "lost"}

\* Where a call that has met no patch, free or unload can be.
Calls ==
    \A c \in Callers : ~overlapped[c] =>
        /\ at[c] # "lost"
        /\ at[c] = "start" => text = Own
        /\ at[c] \in {"hook", "copy", "counting"} => text = Hooked /\ since[c] = insertion
        /\ at[c] \in {"copy", "counting"} => record[c] = "kept"

IInv == TypeOK /\ Symbol /\ Bytes /\ Page /\ Left /\ Calls

------------------------------------------------------------------------------

\* The function's own bytes, the jump, and a half-written jump all differ.
LEMMA BytesDiffer ==
    /\ Own # Hooked
    /\ [Own EXCEPT !["opcode"] = "jump"] \notin {Own, Hooked}
    /\ [[Own EXCEPT !["opcode"] = "jump"] EXCEPT !["offset"] = "hook"] = Hooked
<1>. /\ Own["opcode"] = "own" /\ Own["offset"] = "own"
     /\ Hooked["opcode"] = "jump" /\ Hooked["offset"] = "hook"
  BY DEF Own, Hooked, Cells
<1>1. [Own EXCEPT !["opcode"] = "jump"]["opcode"] = "jump"
  BY DEF Own, Cells
<1>2. [Own EXCEPT !["opcode"] = "jump"]["offset"] = "own"
  BY DEF Own, Cells
<1>. QED
  BY <1>1, <1>2 DEF Own, Hooked, Cells

\* While the jump is in place run points to the copy, and the module, its copy
\* and its symbol are there.
LEMMA HookedMeans ==
    ASSUME IInv, text = Hooked
    PROVE  run = "trampoline" /\ trampoline = TRUE /\ loader \notin {"out", "unload"}
<1>1. HookInPlace \/ loader = "restore"
  BY BytesDiffer DEF IInv, Bytes
<1>. QED
  BY <1>1 DEF IInv, TypeOK, Symbol, HookInPlace

LEMMA InitInvariant == Init => IInv
<1>. SUFFICES ASSUME Init PROVE IInv
  OBVIOUS
<1>. USE BoundAssumption DEF Init
<1>1. TypeOK
  <2>1. 0 \in 0 .. MAX_INSERTIONS /\ 0 \in 0 .. 0
    OBVIOUS
  <2>2. Own \in [Cells -> {"own", "jump", "hook"}]
    BY DEF Own
  <2>. QED
    BY <2>1, <2>2 DEF TypeOK
<1>2. Symbol /\ Bytes /\ Page /\ Left /\ Calls
  BY DEF Symbol, Bytes, HookInPlace, Page, Left, Calls
<1>. QED
  BY <1>1, <1>2 DEF IInv

------------------------------------------------------------------------------
(* Steps of the insertion and the removal.                                 *)

LEMMA InsertInvariant ==
    ASSUME IInv, Insert
    PROVE  IInv'
<1>. USE BoundAssumption DEF IInv, Insert, Goto, machine, processes
<1>1. TypeOK'
  <2>1. insertion \in Nat /\ insertion' = insertion + 1 /\ insertion < MAX_INSERTIONS
    BY DEF TypeOK
  <2>2. insertion' \in 0 .. MAX_INSERTIONS /\ since' \in [Callers -> 0 .. insertion']
    BY <2>1 DEF TypeOK
  <2>. QED
    BY <2>2 DEF TypeOK
<1>2. Symbol'
  BY DEF Symbol
<1>3. Bytes'
  BY BytesDiffer DEF Bytes, HookInPlace, Symbol, TypeOK
<1>4. Page'
  BY DEF Page, TypeOK
<1>5. Left'
  BY DEF Left, Symbol, TypeOK
<1>6. Calls'
  BY BytesDiffer DEF Calls, Bytes, HookInPlace, Symbol, TypeOK
<1>. QED
  BY <1>1, <1>2, <1>3, <1>4, <1>5, <1>6

LEMMA RegisterInvariant ==
    ASSUME IInv, Register
    PROVE  IInv'
<1>. USE BoundAssumption DEF IInv, Register, Goto, machine, processes
<1>1. TypeOK'
  BY DEF TypeOK, Own, Cells
<1>2. Symbol'
  BY DEF Symbol
<1>3. Bytes'
  BY BytesDiffer DEF Bytes, HookInPlace, Symbol, TypeOK
<1>4. Page'
  BY DEF Page, TypeOK
<1>5. Left'
  BY DEF Left, Symbol, TypeOK
<1>6. Calls'
  BY BytesDiffer DEF Calls, Bytes, HookInPlace, Symbol, TypeOK
<1>. QED
  BY <1>1, <1>2, <1>3, <1>4, <1>5, <1>6

LEMMA HijackRefusedInvariant ==
    ASSUME IInv, HijackRefused
    PROVE  IInv'
<1>. USE BoundAssumption DEF IInv, HijackRefused, Goto, machine, processes
<1>1. TypeOK'
  BY DEF TypeOK, Own, Cells
<1>2. Symbol'
  BY DEF Symbol
<1>3. Bytes'
  BY BytesDiffer DEF Bytes, HookInPlace, Symbol, TypeOK
<1>4. Page'
  BY DEF Page, TypeOK
<1>5. Left'
  BY DEF Left, Symbol, TypeOK
<1>6. Calls'
  BY BytesDiffer DEF Calls, Bytes, HookInPlace, Symbol, TypeOK
<1>. QED
  BY <1>1, <1>2, <1>3, <1>4, <1>5, <1>6

LEMMA FindSymbolInvariant ==
    ASSUME IInv, FindSymbol
    PROVE  IInv'
<1>. USE BoundAssumption DEF IInv, FindSymbol, Goto, machine, processes
<1>1. TypeOK'
  BY DEF TypeOK, Own, Cells
<1>2. Symbol'
  BY DEF Symbol
<1>3. Bytes'
  BY BytesDiffer DEF Bytes, HookInPlace, Symbol, TypeOK
<1>4. Page'
  BY DEF Page, TypeOK
<1>5. Left'
  BY DEF Left, Symbol, TypeOK
<1>6. Calls'
  BY BytesDiffer DEF Calls, Bytes, HookInPlace, Symbol, TypeOK
<1>. QED
  BY <1>1, <1>2, <1>3, <1>4, <1>5, <1>6

LEMMA HijackAbortedInvariant ==
    ASSUME IInv, HijackAborted
    PROVE  IInv'
<1>. USE BoundAssumption DEF IInv, HijackAborted, Goto, machine, processes
<1>1. TypeOK'
  BY DEF TypeOK, Own, Cells
<1>2. Symbol'
  BY DEF Symbol
<1>3. Bytes'
  BY BytesDiffer DEF Bytes, HookInPlace, Symbol, TypeOK
<1>4. Page'
  BY DEF Page, TypeOK
<1>5. Left'
  BY DEF Left, Symbol, TypeOK
<1>6. Calls'
  BY BytesDiffer DEF Calls, Bytes, HookInPlace, Symbol, TypeOK
<1>. QED
  BY <1>1, <1>2, <1>3, <1>4, <1>5, <1>6

LEMMA CopyDiesInvariant ==
    ASSUME IInv, CopyDies
    PROVE  IInv'
<1>. USE BoundAssumption DEF IInv, CopyDies, Goto, machine, processes
<1>1. TypeOK'
  BY DEF TypeOK, Own, Cells
<1>2. Symbol'
  BY DEF Symbol
<1>3. Bytes'
  BY BytesDiffer DEF Bytes, HookInPlace, Symbol, TypeOK
<1>4. Page'
  BY DEF Page, TypeOK
<1>5. Left'
  BY DEF Left, Symbol, TypeOK
<1>6. Calls'
  BY BytesDiffer DEF Calls, Bytes, HookInPlace, Symbol, TypeOK
<1>. QED
  BY <1>1, <1>2, <1>3, <1>4, <1>5, <1>6

LEMMA CopyCodeInvariant ==
    ASSUME IInv, CopyCode
    PROVE  IInv'
<1>. USE BoundAssumption DEF IInv, CopyCode, Goto, machine, processes
<1>1. TypeOK'
  BY DEF TypeOK, Own, Cells
<1>2. Symbol'
  BY DEF Symbol
<1>3. Bytes'
  BY BytesDiffer DEF Bytes, HookInPlace, Symbol, TypeOK
<1>4. Page'
  BY DEF Page, TypeOK
<1>5. Left'
  BY DEF Left, Symbol, TypeOK
<1>6. Calls'
  BY BytesDiffer DEF Calls, Bytes, HookInPlace, Symbol, TypeOK
<1>. QED
  BY <1>1, <1>2, <1>3, <1>4, <1>5, <1>6

LEMMA SetAddrRWPatchInvariant ==
    ASSUME IInv, SetAddrRW("patch", "opcode")
    PROVE  IInv'
<1>. USE BoundAssumption DEF IInv, SetAddrRW, Goto, machine, processes
<1>1. TypeOK'
  BY DEF TypeOK, Own, Cells
<1>2. Symbol'
  BY DEF Symbol
<1>3. Bytes'
  BY BytesDiffer DEF Bytes, HookInPlace, Symbol, TypeOK
<1>4. Page'
  BY DEF Page, TypeOK
<1>5. Left'
  BY DEF Left, Symbol, TypeOK
<1>6. Calls'
  BY BytesDiffer DEF Calls, Bytes, HookInPlace, Symbol, TypeOK
<1>. QED
  BY <1>1, <1>2, <1>3, <1>4, <1>5, <1>6

LEMMA StoreOpcodeInvariant ==
    ASSUME IInv, StoreOpcode
    PROVE  IInv'
<1>. USE BoundAssumption DEF IInv, StoreOpcode, MeetsCalls, Goto, machine, processes
<1>1. TypeOK'
  <2>1. text = Own
    BY DEF Bytes, HookInPlace
  <2>. QED
    BY <2>1 DEF TypeOK, Own, Cells
<1>2. Symbol'
  BY DEF Symbol
<1>3. Bytes'
  BY BytesDiffer DEF Bytes, HookInPlace, Symbol, TypeOK
<1>4. Page'
  BY DEF Page, TypeOK
<1>5. Left'
  BY DEF Left, Symbol, TypeOK
<1>6. Calls'
  BY BytesDiffer DEF Calls, Bytes, HookInPlace, Symbol, TypeOK
<1>. QED
  BY <1>1, <1>2, <1>3, <1>4, <1>5, <1>6

LEMMA StoreOffsetInvariant ==
    ASSUME IInv, StoreOffset
    PROVE  IInv'
<1>. USE BoundAssumption DEF IInv, StoreOffset, MeetsCalls, Goto, machine, processes
<1>1. TypeOK'
  BY DEF TypeOK, Own, Cells
<1>2. Symbol'
  BY DEF Symbol
<1>3. Bytes'
  BY BytesDiffer DEF Bytes, HookInPlace, Symbol, TypeOK
<1>4. Page'
  BY DEF Page, TypeOK
<1>5. Left'
  BY DEF Left, Symbol, TypeOK
<1>6. Calls'
  BY BytesDiffer DEF Calls, Bytes, HookInPlace, Symbol, TypeOK
<1>. QED
  BY <1>1, <1>2, <1>3, <1>4, <1>5, <1>6

LEMMA HijackDoneInvariant ==
    ASSUME IInv, HijackDone
    PROVE  IInv'
<1>. USE BoundAssumption DEF IInv, HijackDone, Protected, Goto, machine, processes
<1>1. TypeOK'
  BY DEF TypeOK, Own, Cells
<1>2. Symbol'
  BY DEF Symbol
<1>3. Bytes'
  BY BytesDiffer DEF Bytes, HookInPlace, Symbol, TypeOK
<1>4. Page'
  BY DEF Page, TypeOK
<1>5. Left'
  BY DEF Left, Symbol, TypeOK
<1>6. Calls'
  BY BytesDiffer DEF Calls, Bytes, HookInPlace, Symbol, TypeOK
<1>. QED
  BY <1>1, <1>2, <1>3, <1>4, <1>5, <1>6

LEMMA RemoveInvariant ==
    ASSUME IInv, Remove
    PROVE  IInv'
<1>. USE BoundAssumption DEF IInv, Remove, Goto, machine, processes
<1>1. TypeOK'
  BY DEF TypeOK, Own, Cells
<1>2. Symbol'
  BY DEF Symbol
<1>3. Bytes'
  BY BytesDiffer DEF Bytes, HookInPlace, Symbol, TypeOK
<1>4. Page'
  BY DEF Page, TypeOK
<1>5. Left'
  BY DEF Left, Symbol, TypeOK
<1>6. Calls'
  BY BytesDiffer DEF Calls, Bytes, HookInPlace, Symbol, TypeOK
<1>. QED
  BY <1>1, <1>2, <1>3, <1>4, <1>5, <1>6

LEMMA SetAddrRWRestoreInvariant ==
    ASSUME IInv, SetAddrRW("unpatch", "restore")
    PROVE  IInv'
<1>. USE BoundAssumption DEF IInv, SetAddrRW, Goto, machine, processes
<1>1. TypeOK'
  BY DEF TypeOK, Own, Cells
<1>2. Symbol'
  BY DEF Symbol
<1>3. Bytes'
  BY BytesDiffer DEF Bytes, HookInPlace, Symbol, TypeOK
<1>4. Page'
  BY DEF Page, TypeOK
<1>5. Left'
  BY DEF Left, Symbol, TypeOK
<1>6. Calls'
  BY BytesDiffer DEF Calls, Bytes, HookInPlace, Symbol, TypeOK
<1>. QED
  BY <1>1, <1>2, <1>3, <1>4, <1>5, <1>6

LEMMA RestoreDoneInvariant ==
    ASSUME IInv, RestoreDone
    PROVE  IInv'
<1>. USE BoundAssumption DEF IInv, RestoreDone, Protected, Goto, machine, processes
<1>1. TypeOK'
  BY DEF TypeOK, Own, Cells
<1>2. Symbol'
  BY DEF Symbol
<1>3. Bytes'
  BY BytesDiffer DEF Bytes, HookInPlace, Symbol, TypeOK
<1>4. Page'
  BY DEF Page, TypeOK
<1>5. Left'
  BY DEF Left, Symbol, TypeOK
<1>6. Calls'
  BY BytesDiffer DEF Calls, Bytes, HookInPlace, Symbol, TypeOK
<1>. QED
  BY <1>1, <1>2, <1>3, <1>4, <1>5, <1>6

LEMMA FreeTrampolineInvariant ==
    ASSUME IInv, FreeTrampoline
    PROVE  IInv'
<1>. USE BoundAssumption DEF IInv, FreeTrampoline, MeetsCalls, Goto, machine, processes
<1>1. TypeOK'
  BY DEF TypeOK, Own, Cells
<1>2. Symbol'
  BY DEF Symbol
<1>3. Bytes'
  BY BytesDiffer DEF Bytes, HookInPlace, Symbol, TypeOK
<1>4. Page'
  BY DEF Page, TypeOK
<1>5. Left'
  BY DEF Left, Symbol, TypeOK
<1>6. Calls'
  BY BytesDiffer DEF Calls, Bytes, HookInPlace, Symbol, TypeOK
<1>. QED
  BY <1>1, <1>2, <1>3, <1>4, <1>5, <1>6

LEMMA FreeRecordsInvariant ==
    ASSUME IInv, FreeRecords
    PROVE  IInv'
<1>. USE BoundAssumption DEF IInv, FreeRecords, MeetsCalls, Goto, machine, processes
<1>1. TypeOK'
  BY DEF TypeOK, Own, Cells
<1>2. Symbol'
  BY DEF Symbol
<1>3. Bytes'
  BY BytesDiffer DEF Bytes, HookInPlace, Symbol, TypeOK
<1>4. Page'
  BY DEF Page, TypeOK
<1>5. Left'
  BY DEF Left, Symbol, TypeOK
<1>6. Calls'
  BY BytesDiffer DEF Calls, Bytes, HookInPlace, Symbol, TypeOK
<1>. QED
  BY <1>1, <1>2, <1>3, <1>4, <1>5, <1>6

LEMMA UnloadInvariant ==
    ASSUME IInv, Unload
    PROVE  IInv'
<1>. USE BoundAssumption DEF IInv, Unload, MeetsCalls, Goto, machine, processes
<1>1. TypeOK'
  BY DEF TypeOK, Own, Cells
<1>2. Symbol'
  BY DEF Symbol
<1>3. Bytes'
  BY BytesDiffer DEF Bytes, HookInPlace, Symbol, TypeOK
<1>4. Page'
  BY DEF Page, TypeOK
<1>5. Left'
  BY DEF Left, Symbol, TypeOK
<1>6. Calls'
  BY BytesDiffer DEF Calls, Bytes, HookInPlace, Symbol, TypeOK
<1>. QED
  BY <1>1, <1>2, <1>3, <1>4, <1>5, <1>6

LEMMA RestoreCellInvariant ==
    ASSUME IInv, NEW cell \in Cells, RestoreCell(cell)
    PROVE  IInv'
<1>. USE BoundAssumption DEF IInv, RestoreCell, MeetsCalls, Goto, machine, processes
<1>1. TypeOK'
  BY DEF TypeOK, Own, Cells
<1>2. Symbol'
  BY DEF Symbol
<1>3. Bytes'
  BY BytesDiffer DEF Bytes, HookInPlace, Symbol, TypeOK
<1>4. Page'
  BY DEF Page, TypeOK
<1>5. Left'
  BY DEF Left, Symbol, TypeOK
<1>6. Calls'
  BY BytesDiffer DEF Calls, Bytes, HookInPlace, Symbol, TypeOK
<1>. QED
  BY <1>1, <1>2, <1>3, <1>4, <1>5, <1>6

------------------------------------------------------------------------------
(* Steps of a call.                                                         *)

LEMMA EnterFunctionInvariant ==
    ASSUME IInv, NEW c \in Callers, EnterFunction(c)
    PROVE  IInv'
<1>. USE DEF IInv, EnterFunction, Move, CodePresent, machine, module
<1>1. TypeOK'
  BY DEF TypeOK
<1>2. Symbol' /\ Bytes' /\ Page'
  BY DEF Symbol, Bytes, HookInPlace, Page
<1>3. Left'
  BY HookedMeans DEF Left, Symbol, TypeOK
<1>4. Calls'
  BY HookedMeans, BytesDiffer DEF Calls, TypeOK
<1>. QED
  BY <1>1, <1>2, <1>3, <1>4

LEMMA EnterHookInvariant ==
    ASSUME IInv, NEW c \in Callers, EnterHook(c)
    PROVE  IInv'
<1>. USE DEF IInv, EnterHook, Move, CodePresent, machine, module
<1>1. TypeOK'
  BY DEF TypeOK
<1>2. Symbol' /\ Bytes' /\ Page'
  BY DEF Symbol, Bytes, HookInPlace, Page
<1>3. Left'
  BY HookedMeans DEF Left, Symbol, TypeOK
<1>4. Calls'
  BY HookedMeans, BytesDiffer DEF Calls, TypeOK
<1>. QED
  BY <1>1, <1>2, <1>3, <1>4

LEMMA EnterTornInvariant ==
    ASSUME IInv, NEW c \in Callers, EnterTorn(c)
    PROVE  IInv'
<1>. USE DEF IInv, EnterTorn, Move, CodePresent, machine, module
<1>1. TypeOK'
  BY DEF TypeOK
<1>2. Symbol' /\ Bytes' /\ Page'
  BY DEF Symbol, Bytes, HookInPlace, Page
<1>3. Left'
  BY HookedMeans DEF Left, Symbol, TypeOK
<1>4. Calls'
  BY HookedMeans, BytesDiffer DEF Calls, TypeOK
<1>. QED
  BY <1>1, <1>2, <1>3, <1>4

LEMMA LeaveStartInvariant ==
    ASSUME IInv, NEW c \in Callers, LeaveStart(c)
    PROVE  IInv'
<1>. USE DEF IInv, LeaveStart, Move, CodePresent, machine, module
<1>1. TypeOK'
  BY DEF TypeOK
<1>2. Symbol' /\ Bytes' /\ Page'
  BY DEF Symbol, Bytes, HookInPlace, Page
<1>3. Left'
  BY HookedMeans DEF Left, Symbol, TypeOK
<1>4. Calls'
  BY HookedMeans, BytesDiffer DEF Calls, TypeOK
<1>. QED
  BY <1>1, <1>2, <1>3, <1>4

LEMMA LeaveFunctionInvariant ==
    ASSUME IInv, NEW c \in Callers, LeaveFunction(c)
    PROVE  IInv'
<1>. USE DEF IInv, LeaveFunction, Move, CodePresent, machine, module
<1>1. TypeOK'
  BY DEF TypeOK
<1>2. Symbol' /\ Bytes' /\ Page'
  BY DEF Symbol, Bytes, HookInPlace, Page
<1>3. Left'
  BY HookedMeans DEF Left, Symbol, TypeOK
<1>4. Calls'
  BY HookedMeans, BytesDiffer DEF Calls, TypeOK
<1>. QED
  BY <1>1, <1>2, <1>3, <1>4

LEMMA CallRunInvariant ==
    ASSUME IInv, NEW c \in Callers, CallRun(c)
    PROVE  IInv'
<1>. USE DEF IInv, CallRun, Move, CodePresent, machine, module
<1>1. TypeOK'
  BY DEF TypeOK
<1>2. Symbol' /\ Bytes' /\ Page'
  BY DEF Symbol, Bytes, HookInPlace, Page
<1>3. Left'
  <2>1. loader \in {"unload", "out"} => overlapped[c]
    BY HookedMeans DEF Calls
  <2>2. \A d \in Callers \ {c} : at'[d] = at[d] /\ record'[d] = record[d]
    BY DEF TypeOK
  <2>3. at'[c] \in {"copy", "lost"}
    BY DEF TypeOK
  <2>. QED
    BY <2>1, <2>2, <2>3 DEF Left
<1>4. Calls'
  BY HookedMeans, BytesDiffer DEF Calls, TypeOK
<1>. QED
  BY <1>1, <1>2, <1>3, <1>4

LEMMA ReturnFromRunInvariant ==
    ASSUME IInv, NEW c \in Callers, ReturnFromRun(c)
    PROVE  IInv'
<1>. USE DEF IInv, ReturnFromRun, Move, CodePresent, machine, module
<1>1. TypeOK'
  BY DEF TypeOK
<1>2. Symbol' /\ Bytes' /\ Page'
  BY DEF Symbol, Bytes, HookInPlace, Page
<1>3. Left'
  BY HookedMeans DEF Left, Symbol, TypeOK
<1>4. Calls'
  BY HookedMeans, BytesDiffer DEF Calls, TypeOK
<1>. QED
  BY <1>1, <1>2, <1>3, <1>4

LEMMA LeaveHookInvariant ==
    ASSUME IInv, NEW c \in Callers, LeaveHook(c)
    PROVE  IInv'
<1>. USE DEF IInv, LeaveHook, Move, CodePresent, machine, module
<1>1. TypeOK'
  BY DEF TypeOK
<1>2. Symbol' /\ Bytes' /\ Page'
  BY DEF Symbol, Bytes, HookInPlace, Page
<1>3. Left'
  BY HookedMeans DEF Left, Symbol, TypeOK
<1>4. Calls'
  BY HookedMeans, BytesDiffer DEF Calls, TypeOK
<1>. QED
  BY <1>1, <1>2, <1>3, <1>4

LEMMA NextInvariant == IInv /\ [Next]_vars => IInv'
<1>. SUFFICES ASSUME IInv, [Next]_vars PROVE IInv'
  OBVIOUS
<1>1. CASE UNCHANGED vars
  BY <1>1 DEF vars, machine, module, processes, IInv, TypeOK, Symbol, Bytes, HookInPlace,
              Page, Left, Calls
<1>2. CASE Loader
  BY <1>2, InsertInvariant, RegisterInvariant, HijackRefusedInvariant, FindSymbolInvariant,
     HijackAbortedInvariant, CopyDiesInvariant, CopyCodeInvariant, SetAddrRWPatchInvariant,
     StoreOpcodeInvariant, StoreOffsetInvariant, HijackDoneInvariant, RemoveInvariant,
     SetAddrRWRestoreInvariant, RestoreCellInvariant, RestoreDoneInvariant,
     FreeTrampolineInvariant, FreeRecordsInvariant, UnloadInvariant
     DEF Loader
<1>3. CASE \E c \in Callers : Caller(c)
  BY <1>3, EnterFunctionInvariant, EnterHookInvariant, EnterTornInvariant,
     LeaveStartInvariant, LeaveFunctionInvariant, CallRunInvariant,
     ReturnFromRunInvariant, LeaveHookInvariant
     DEF Caller
<1>. QED
  BY <1>1, <1>2, <1>3 DEF Next

------------------------------------------------------------------------------
(* The theorems.                                                           *)

\* The inductive invariant holds throughout every behaviour.
THEOREM Invariance == Spec => []IInv
BY InitInvariant, NextInvariant, PTL DEF Spec

\* The saved bytes are always the function's own, and the loader and the
\* callers are where their code can be.
THEOREM TypeCorrect == Spec => []TypeOK
BY Invariance, PTL DEF IInv

\* Inserting and removing the module is safe for every call that meets no step
\* of a patch or of a removal.
THEOREM OnlyOverlapLoses == Spec => []LostOnlyByOverlap
<1>1. IInv => LostOnlyByOverlap
  BY DEF IInv, Calls, LostOnlyByOverlap
<1>. QED
  BY <1>1, Invariance, PTL

\* Between insertions and removals function, page, memory and /proc are as the
\* symbol says, however insertions have failed.
THEOREM RestIsClean == Spec => []RestingStateClean
<1>1. IInv => RestingStateClean
  BY DEF IInv, TypeOK, Symbol, Bytes, HookInPlace, Page, Left, RestingStateClean
<1>. QED
  BY <1>1, Invariance, PTL

------------------------------------------------------------------------------
(* Arithmetic                                                              *)

\* A difference of less than half the modulus survives the cast to 32 bits and
\* back.
LEMMA SignedOfDifference ==
    ASSUME NEW d \in Int, -REACH <= d, d < REACH
    PROVE  Signed(d % (2 * REACH)) = d
<1>1. REACH \in Int /\ REACH > 0
  BY CodeAssumption
<1>2. CASE d >= 0
  <2>1. d % (2 * REACH) = d
    BY <1>1, <1>2, SMT
  <2>. QED
    BY <2>1 DEF Signed
<1>3. CASE d < 0
  <2>1. d % (2 * REACH) = d + 2 * REACH
    BY <1>1, <1>3, SMT
  <2>. QED
    BY <1>1, <1>3, <2>1 DEF Signed
<1>. QED
  BY <1>2, <1>3

\* An address of the address space is its own remainder.
LEMMA InSpace ==
    ASSUME NEW t \in Int, 0 <= t, t < ADDRESSES
    PROVE  t % ADDRESSES = t
<1>1. ADDRESSES \in Int
  BY CodeAssumption
<1>. QED
  BY <1>1, SMT

\* A distance computed anew leads to the target it was computed for.
LEMMA FixupArrives ==
    ASSUME NEW a \in Int, NEW length \in Int, NEW t \in KernelSpace,
           ADDRESSES - REACH < a + length, a + length <= ADDRESSES
    PROVE  CODE_ADDR_FROM_OFFSET(a, length, CODE_OFFSET_FROM_ADDR(a, length, t)) = t
<1>. DEFINE d == t - (a + length)
<1>1. REACH \in Int /\ REACH > 0 /\ ADDRESSES \in Int /\ 2 * REACH <= ADDRESSES
  BY CodeAssumption
<1>2. t \in Int /\ ADDRESSES - REACH <= t /\ t < ADDRESSES
  BY <1>1 DEF KernelSpace
<1>3. d \in Int /\ -REACH <= d /\ d < REACH
  BY <1>1, <1>2
<1>4. Signed(d % (2 * REACH)) = d
  BY <1>3, SignedOfDifference
<1>5. a + length + d = t
  BY <1>2
<1>6. t % ADDRESSES = t
  BY <1>1, <1>2, InSpace
<1>. QED
  BY <1>4, <1>5, <1>6 DEF CODE_ADDR_FROM_OFFSET, CODE_OFFSET_FROM_ADDR

\* A target in the kernel's part of the address space has been reached without
\* wrapping around.
LEMMA NoWrap ==
    ASSUME NEW e \in Int, ADDRESSES - REACH < e, e <= ADDRESSES,
           NEW offset \in 0 .. 2 * REACH - 1,
           (e + Signed(offset)) % ADDRESSES \in KernelSpace
    PROVE  /\ Signed(offset) \in Int
           /\ (e + Signed(offset)) % ADDRESSES = e + Signed(offset)
<1>1. REACH \in Int /\ REACH > 0 /\ ADDRESSES \in Int /\ 2 * REACH <= ADDRESSES
  BY CodeAssumption
<1>2. /\ Signed(offset) \in Int
      /\ -REACH <= Signed(offset)
      /\ Signed(offset) < REACH
  BY <1>1 DEF Signed
<1>. DEFINE s == e + Signed(offset)
<1>3. s \in Int /\ 0 < s /\ s < ADDRESSES + REACH
  BY <1>1, <1>2
<1>4. CASE s < ADDRESSES
  BY <1>2, <1>3, <1>4, InSpace
<1>5. CASE s >= ADDRESSES
  <2>1. s % ADDRESSES = s - ADDRESSES
    <3>. HIDE DEF s
    <3>. QED
      BY <1>1, <1>3, <1>5, SMT
  <2>2. s % ADDRESSES \in KernelSpace
    OBVIOUS
  <2>. HIDE DEF s
  <2>. QED
    BY <1>1, <1>3, <2>1, <2>2 DEF KernelSpace
<1>. QED
  BY <1>1, <1>3, <1>4, <1>5

------------------------------------------------------------------------------
(* The symbol                                                              *)

\* The symbol is the one of the table, and there is room for it at new_addr.
SymbolAsFound ==
    \E i \in 1 .. Len(kallsyms) - 1 :
        /\ kallsyms[i].name = "random_read"
        /\ sym.addr = kallsyms[i].addr
        /\ sym.size = (kallsyms[i + 1].addr - kallsyms[i].addr) % ADDRESSES
        /\ sym.new_addr \in KernelSpace
        /\ sym.new_addr + sym.size <= ADDRESSES

\* The function is being patched, or is.
Patched ==
    \/ loader \in {"patch", "opcode", "offset", "protect", "unpatch", "restore", "unprotect"}
    \/ loader = "in" /\ hijacked

HijackedInv ==
    /\ kallsyms \in Tables
    /\ loader = "copy" => SymbolAsFound
    /\ Patched => SymbolAsFound /\ LongEnough

\* An element of a sequence is of its kind.
LEMMA ElementOf ==
    ASSUME NEW S, NEW s \in Seq(S), NEW i \in 1 .. Len(s)
    PROVE  s[i] \in S
OBVIOUS

\* What the entries of the table are.
LEMMA Entries ==
    ASSUME kallsyms \in Tables, NEW i \in 1 .. Len(kallsyms) - 1
    PROVE  /\ i + 1 \in 1 .. Len(kallsyms)
           /\ kallsyms[i].addr \in KernelSpace
           /\ kallsyms[i + 1].addr \in KernelSpace
<1>1. kallsyms \in Seq([name : STRING, addr : KernelSpace])
  BY TablesAssumption
<1>2. i \in 1 .. Len(kallsyms) /\ i + 1 \in 1 .. Len(kallsyms)
  BY <1>1
<1>3. /\ kallsyms[i] \in [name : STRING, addr : KernelSpace]
      /\ kallsyms[i + 1] \in [name : STRING, addr : KernelSpace]
  BY <1>1, <1>2, ElementOf
<1>. QED
  BY <1>2, <1>3

\* A function for whose copy there is room ends where the next symbol begins.
LEMMA SizeIsDistance ==
    ASSUME NEW addr \in KernelSpace, NEW end \in KernelSpace, NEW new_addr \in KernelSpace,
           new_addr + ((end - addr) % ADDRESSES) <= ADDRESSES
    PROVE  addr <= end /\ (end - addr) % ADDRESSES = end - addr
<1>1. REACH \in Int /\ REACH > 0 /\ ADDRESSES \in Int /\ 2 * REACH <= ADDRESSES
  BY CodeAssumption
<1>2. /\ addr \in Int /\ ADDRESSES - REACH <= addr /\ addr < ADDRESSES
      /\ end \in Int /\ ADDRESSES - REACH <= end /\ end < ADDRESSES
      /\ new_addr \in Int /\ ADDRESSES - REACH <= new_addr
  BY <1>1 DEF KernelSpace
<1>. DEFINE d == end - addr
<1>3. d \in Int /\ -REACH < d /\ d < REACH
  BY <1>1, <1>2
<1>4. CASE d >= 0
  <2>1. d % ADDRESSES = d
    BY <1>1, <1>3, <1>4, InSpace
  <2>. QED
    BY <1>2, <1>4, <2>1
<1>5. CASE d < 0
  <2>1. ADDRESSES + d > 0
    BY <1>1, <1>3
  <2>2. d % ADDRESSES = ADDRESSES + d
    <3>. HIDE DEF d
    <3>. QED
      BY <1>1, <1>3, <1>5, <2>1, SMT
  <2>3. new_addr + (d % ADDRESSES) <= ADDRESSES
    OBVIOUS
  <2>4. new_addr + (ADDRESSES + d) <= ADDRESSES
    <3>. HIDE DEF d
    <3>. QED
      BY <1>1, <1>2, <1>3, <2>2, <2>3
  <2>. QED
    BY <1>1, <1>2, <1>3, <2>4
<1>. QED
  BY <1>3, <1>4, <1>5

\* Where function and copy lie.
LEMMA SymbolBounds ==
    ASSUME kallsyms \in Tables, SymbolAsFound
    PROVE  /\ sym.addr \in KernelSpace
           /\ sym.size \in Nat
           /\ sym.addr + sym.size < ADDRESSES
           /\ sym.new_addr \in KernelSpace
           /\ sym.new_addr + sym.size <= ADDRESSES
           /\ \E i \in 1 .. Len(kallsyms) - 1 :
                 /\ kallsyms[i].name = "random_read"
                 /\ kallsyms[i].addr = sym.addr
                 /\ kallsyms[i + 1].addr = sym.addr + sym.size
<1>1. PICK i \in 1 .. Len(kallsyms) - 1 :
        /\ kallsyms[i].name = "random_read"
        /\ sym.addr = kallsyms[i].addr
        /\ sym.size = (kallsyms[i + 1].addr - kallsyms[i].addr) % ADDRESSES
        /\ sym.new_addr \in KernelSpace
        /\ sym.new_addr + sym.size <= ADDRESSES
  BY DEF SymbolAsFound
<1>2. kallsyms[i].addr \in KernelSpace /\ kallsyms[i + 1].addr \in KernelSpace
  BY Entries
<1>3. /\ sym.addr <= kallsyms[i + 1].addr
      /\ sym.size = kallsyms[i + 1].addr - sym.addr
  <2>1. sym.new_addr + ((kallsyms[i + 1].addr - kallsyms[i].addr) % ADDRESSES) <= ADDRESSES
    BY <1>1
  <2>2. /\ kallsyms[i].addr <= kallsyms[i + 1].addr
        /\ (kallsyms[i + 1].addr - kallsyms[i].addr) % ADDRESSES
             = kallsyms[i + 1].addr - kallsyms[i].addr
    BY <1>1, <1>2, <2>1, SizeIsDistance
  <2>. QED
    BY <1>1, <2>2
<1>4. sym.size \in Nat /\ kallsyms[i + 1].addr = sym.addr + sym.size
  BY <1>1, <1>2, <1>3, CodeAssumption DEF KernelSpace
<1>5. sym.addr + sym.size < ADDRESSES
  BY <1>2, <1>4, CodeAssumption DEF KernelSpace
<1>. QED
  BY <1>1, <1>2, <1>4, <1>5

------------------------------------------------------------------------------
(* The invariant                                                           *)

\* At first nothing is patched.
LEMMA HijackedInitInvariant ==
    ASSUME HijackedInit
    PROVE  HijackedInv
BY DEF HijackedInit, Init, HijackedInv, Patched

\* A step after which the function is patched was so before, or is the end of
\* the copying.
LEMMA PatchedAfterCopy ==
    ASSUME IInv, Next, Patched'
    PROVE  Patched \/ (loader = "copy" /\ loader' = "patch")
<1>1. CASE Loader
  <2>1. CASE Insert \/ Register \/ HijackRefused \/ FindSymbol \/ HijackAborted \/ CopyDies
    BY <2>1 DEF IInv, Symbol, Patched, Insert, Register, HijackRefused, FindSymbol,
                HijackAborted, CopyDies, Goto
  <2>2. CASE CopyCode
    BY <2>2 DEF CopyCode, Goto
  <2>3. CASE \/ SetAddrRW("patch", "opcode") \/ StoreOpcode \/ StoreOffset \/ HijackDone
    BY <2>3 DEF Patched, SetAddrRW, StoreOpcode, StoreOffset, HijackDone, Goto
  <2>4. CASE Remove \/ SetAddrRW("unpatch", "restore") \/ (\E cell \in Cells : RestoreCell(cell))
    BY <2>4 DEF Patched, Remove, SetAddrRW, RestoreCell, Goto
  <2>5. CASE RestoreDone \/ FreeTrampoline \/ FreeRecords \/ Unload
    BY <2>5 DEF Patched, RestoreDone, FreeTrampoline, FreeRecords, Unload, Goto
  <2>. QED
    BY <1>1, <2>1, <2>2, <2>3, <2>4, <2>5 DEF Loader
<1>2. CASE \E c \in Callers : Caller(c)
  <2>1. UNCHANGED module
    BY <1>2 DEF Caller, EnterFunction, EnterHook, EnterTorn, LeaveStart, LeaveFunction,
                CallRun, ReturnFromRun, LeaveHook
  <2>. QED
    BY <2>1 DEF module, Patched
<1>. QED
  BY <1>1, <1>2 DEF Next

\* Nobody changes a symbol that is in use.
LEMMA SymbolKept ==
    ASSUME HijackedNext, loader = "copy" \/ Patched
    PROVE  UNCHANGED <<kallsyms, sym>>
BY DEF HijackedNext, SymbolStep, Patched

\* A successful lookup leaves the symbol as HijackedInv says.
LEMMA LookupFinds ==
    ASSUME HijackedInv, HijackedNext, loader' = "copy", loader # "copy"
    PROVE  SymbolAsFound'
<1>1. loader = "find" /\ Lookup
  <2>1. Next => loader = "find"
    BY DEF Next, Loader, Insert, Register, HijackRefused, FindSymbol, HijackAborted,
           CopyDies, CopyCode, SetAddrRW, StoreOpcode, StoreOffset, HijackDone, Remove,
           RestoreCell, RestoreDone, FreeTrampoline, FreeRecords, Unload, Goto,
           Caller, EnterFunction, EnterHook, EnterTorn, LeaveStart, LeaveFunction,
           CallRun, ReturnFromRun, LeaveHook, module
  <2>. QED
    BY <2>1 DEF HijackedNext, SymbolStep
<1>2. PICK i \in DOMAIN kallsyms :
        /\ IsSymbol(kallsyms, "random_read", i)
        /\ \E a \in Room(SymbolAt(kallsyms, i)) : SetSymbol(i, a)
  BY <1>1 DEF Lookup
<1>3. PICK a \in Room(SymbolAt(kallsyms, i)) : SetSymbol(i, a)
  BY <1>2
<1>4. /\ sym'.addr = kallsyms[i].addr
      /\ sym'.size = (kallsyms[i + 1].addr - kallsyms[i].addr) % ADDRESSES
      /\ sym'.new_addr = a
  BY <1>3 DEF SetSymbol, SymbolAt
<1>5. a \in KernelSpace /\ a + sym'.size <= ADDRESSES
  BY <1>3, <1>4, TablesAssumption DEF Room, SymbolAt
<1>6. i \in 1 .. Len(kallsyms) - 1 /\ kallsyms[i].name = "random_read"
  BY <1>2 DEF IsSymbol
<1>7. kallsyms' = kallsyms
  BY DEF HijackedNext
<1>. QED
  BY <1>4, <1>5, <1>6, <1>7 DEF SymbolAsFound

\* Every step keeps the invariant.
LEMMA HijackedNextInvariant ==
    ASSUME IInv, HijackedInv, [HijackedNext]_hijackedVars
    PROVE  HijackedInv'
<1>1. CASE HijackedNext
  <2>1. (kallsyms \in Tables)'
    BY <1>1 DEF HijackedInv, HijackedNext
  <2>2. loader = "copy" => (loader' = "copy" => SymbolAsFound')
    BY <1>1, SymbolKept DEF HijackedInv, SymbolAsFound
  <2>3. loader # "copy" => (loader' = "copy" => SymbolAsFound')
    BY <1>1, LookupFinds
  <2>4. CASE Patched
    BY <2>1, <2>2, <2>3, <2>4, <1>1, SymbolKept DEF HijackedInv, SymbolAsFound, LongEnough
  <2>5. CASE loader = "copy" /\ loader' = "patch"
    <3>1. LongEnough /\ UNCHANGED <<kallsyms, sym>>
      BY <1>1, <2>5 DEF HijackedNext, SymbolStep
    <3>. QED
      BY <2>1, <2>5, <3>1 DEF HijackedInv, SymbolAsFound, LongEnough
  <2>6. CASE ~Patched'
    BY <2>1, <2>2, <2>3, <2>6 DEF HijackedInv
  <2>. QED
    BY <1>1, <2>4, <2>5, <2>6, PatchedAfterCopy DEF HijackedNext
<1>2. CASE UNCHANGED hijackedVars
  BY <1>2 DEF hijackedVars, vars, module, HijackedInv, Patched, SymbolAsFound, LongEnough
<1>. QED
  BY <1>1, <1>2

------------------------------------------------------------------------------
(* The theorems.                                                           *)

\* Saying more about the function restricts the steps of FunctionHook and adds
\* none: whatever is proved of these holds here.
THEOREM HookRefinement == HijackedSpec => Spec
<1>1. HijackedInit => Init
  BY DEF HijackedInit
<1>2. [HijackedNext]_hijackedVars => [Next]_vars
  BY DEF HijackedNext, hijackedVars
<1>. QED
  BY <1>1, <1>2, PTL DEF HijackedSpec, Spec

\* The symbol in use is the one of the table, is long enough, and its copy has
\* room.
THEOREM SymbolInvariance == HijackedSpec => [](IInv /\ HijackedInv)
<1>1. HijackedSpec => []IInv
  BY HookRefinement, Invariance, PTL
<1>. QED
  BY <1>1, HijackedInitInvariant, HijackedNextInvariant, PTL DEF HijackedSpec

\* The patch never reaches the next function.
THEOREM PatchFits == HijackedSpec => []PatchInsideFunction
<1>1. IInv /\ HijackedInv => PatchInsideFunction
  <2>. SUFFICES ASSUME IInv, HijackedInv, text # Own
                PROVE  \E i \in 1 .. Len(kallsyms) - 1 :
                         /\ kallsyms[i].name = "random_read"
                         /\ kallsyms[i].addr = sym.addr
                         /\ kallsyms[i + 1].addr \notin sym.addr .. sym.addr + OP_JMP_SIZE - 1
    BY DEF PatchInsideFunction
  <2>1. Patched
    BY DEF IInv, Bytes, HookInPlace, Patched
  <2>2. SymbolAsFound /\ sym.size >= OP_JMP_SIZE /\ kallsyms \in Tables
    BY <2>1 DEF HijackedInv, LongEnough
  <2>3. PICK i \in 1 .. Len(kallsyms) - 1 :
          /\ kallsyms[i].name = "random_read"
          /\ kallsyms[i].addr = sym.addr
          /\ kallsyms[i + 1].addr = sym.addr + sym.size
    BY <2>2, SymbolBounds
  <2>4. sym.addr + sym.size \notin sym.addr .. sym.addr + OP_JMP_SIZE - 1
    BY <2>2, SymbolBounds, CodeAssumption DEF KernelSpace
  <2>. QED
    BY <2>3, <2>4
<1>. QED
  BY <1>1, SymbolInvariance, PTL

\* An instruction with a distance inside the function leads, from the copy, to
\* the same place of the copy; outside, to the same address.
LEMMA CopyLeads ==
    ASSUME kallsyms \in Tables, SymbolAsFound,
           NEW insn \in Instructions(sym), Target(insn) \in KernelSpace
    PROVE  IF Target(insn) \in Inside(sym)
           THEN CopyTarget(insn) = Target(insn) - sym.addr + sym.new_addr
           ELSE insn.opcode \in FixedUp => CopyTarget(insn) = Target(insn)
<1>. DEFINE dest == insn.addr - sym.addr + sym.new_addr
            copy == copy_and_fixup_insn(insn, dest, sym)
            t == Target(insn)
<1>1. /\ REACH \in Int /\ REACH > 0
      /\ ADDRESSES \in Int /\ 2 * REACH <= ADDRESSES
  BY CodeAssumption
<1>2. /\ sym.addr \in Int /\ sym.addr \in KernelSpace /\ ADDRESSES - REACH <= sym.addr
      /\ sym.size \in Nat
      /\ sym.addr + sym.size < ADDRESSES
      /\ sym.new_addr \in Int /\ ADDRESSES - REACH <= sym.new_addr
      /\ sym.new_addr + sym.size <= ADDRESSES
  BY <1>1, SymbolBounds DEF KernelSpace
<1>3. /\ insn \in [addr : Inside(sym), length : 1 .. sym.size, opcode : Opcodes,
                    offset : 0 .. 2 * REACH - 1]
      /\ insn.addr + insn.length <= sym.addr + sym.size
  BY DEF Instructions
<1>4. /\ insn.addr \in Int /\ sym.addr <= insn.addr
      /\ insn.length \in Int /\ insn.length >= 1
      /\ insn.offset \in 0 .. 2 * REACH - 1
  BY <1>2, <1>3 DEF Inside
<1>5. /\ dest \in Int
      /\ ADDRESSES - REACH < insn.addr + insn.length
      /\ insn.addr + insn.length <= ADDRESSES
      /\ ADDRESSES - REACH < dest + insn.length
      /\ dest + insn.length <= ADDRESSES
  BY <1>1, <1>2, <1>3, <1>4
<1>6. /\ copy.addr = dest
      /\ copy.length = insn.length
      /\ copy.offset = IF insn.opcode \notin FixedUp \/ t \in Inside(sym) THEN insn.offset
                       ELSE CODE_OFFSET_FROM_ADDR(dest, insn.length, t)
  BY <1>3 DEF copy_and_fixup_insn
<1>7. CopyTarget(insn) = CODE_ADDR_FROM_OFFSET(dest, insn.length, copy.offset)
  BY <1>6 DEF CopyTarget, Target
<1>8. CASE t \in Inside(sym)
  <2>1. /\ Signed(insn.offset) \in Int
        /\ t = insn.addr + insn.length + Signed(insn.offset)
    BY <1>4, <1>5, NoWrap DEF Target, CODE_ADDR_FROM_OFFSET
  <2>2. dest + insn.length + Signed(insn.offset) = t - sym.addr + sym.new_addr
    BY <1>2, <1>4, <2>1
  <2>3. /\ t - sym.addr + sym.new_addr \in Int
        /\ 0 <= t - sym.addr + sym.new_addr
        /\ t - sym.addr + sym.new_addr < ADDRESSES
    BY <1>1, <1>2, <1>8 DEF Inside
  <2>4. CopyTarget(insn) = (t - sym.addr + sym.new_addr) % ADDRESSES
    BY <1>6, <1>7, <1>8, <2>2 DEF CODE_ADDR_FROM_OFFSET
  <2>. QED
    BY <1>8, <2>3, <2>4, InSpace
<1>9. CASE t \notin Inside(sym) /\ insn.opcode \in FixedUp
  BY <1>4, <1>5, <1>6, <1>7, <1>9, FixupArrives
<1>. QED
  BY <1>8, <1>9

\* Whatever the function consists of and wherever its copy lies, the copy leads
\* where the function leads, and the jump to the hook.
THEOREM CopyFaithful == HijackedSpec => []CopyKeepsTargets
<1>1. HijackedInv => CopyKeepsTargets
  <2>. SUFFICES ASSUME HijackedInv, loader = "patch"
                PROVE  CopyKeepsTargets
    BY DEF CopyKeepsTargets
  <2>1. /\ kallsyms \in Tables
        /\ SymbolAsFound
        /\ sym.size >= OP_JMP_SIZE
    BY DEF HijackedInv, Patched, LongEnough
  <2>2. CODE_ADDR_FROM_OFFSET(sym.addr, OP_JMP_SIZE,
            CODE_OFFSET_FROM_ADDR(sym.addr, OP_JMP_SIZE, hook)) = hook
    <3>1. /\ sym.addr \in Int /\ OP_JMP_SIZE \in Int
          /\ ADDRESSES - REACH < sym.addr + OP_JMP_SIZE
          /\ sym.addr + OP_JMP_SIZE <= ADDRESSES
      BY <2>1, SymbolBounds, CodeAssumption DEF KernelSpace
    <3>. QED
      BY <3>1, FixupArrives, TablesAssumption
  <2>. QED
    BY <2>1, <2>2, CopyLeads DEF CopyKeepsTargets
<1>. QED
  BY <1>1, SymbolInvariance, PTL

------------------------------------------------------------------------------
(* The statistics: constants and variables of RandomStats, whose history   *)
(* overlapped is called overlap here.                                      *)

CONSTANTS PIDs, Bucket, Results, WORD, MAX_CALLS

VARIABLES all_bytes, reader_count, records, hashmap, pc, existing, head, loaded,
          bytes_read, calls, delivered, failed, overlap, used

Stats == INSTANCE RandomStats WITH overlapped <- overlap

\* What RandomStats assumes of its constants.
StatsConstants ==
    /\ IsFiniteSet(PIDs)
    /\ DOMAIN Bucket = PIDs
    /\ Results \subseteq Int
    /\ WORD \in Nat \ {0}
    /\ MAX_CALLS \in Nat

StatsLabels ==
    {"outside", "loadUp", "storeUp", "loadHead", "storeHead",
     "run", "loadBytes", "storeBytes", "loadDown", "storeDown"}

UserHash == [bytes_read : Nat, finished : BOOLEAN]
NodeList == Seq(PIDs \X (Nat \ {0}))

StatsTyped ==
    /\ all_bytes \in Nat /\ reader_count \in Nat /\ delivered \in Nat
    /\ failed \in BOOLEAN /\ overlap \in BOOLEAN
    /\ records \in [PIDs -> Seq(UserHash)]
    /\ hashmap \in [Stats!Buckets -> NodeList]
    /\ pc \in [PIDs -> StatsLabels]
    /\ existing \in [PIDs -> Nat]
    /\ head \in [PIDs -> NodeList]
    /\ loaded \in [PIDs -> Nat]
    /\ bytes_read \in [PIDs -> Int]
    /\ calls \in [PIDs -> Nat]
    /\ \A p \in PIDs : pc[p] \in {"loadHead", "storeHead"} => existing[p] # 0

\* A multiple of w and a smaller rest.
LEMMA Multiples ==
    ASSUME NEW w \in Nat \ {0}, NEW k \in Int, NEW s \in Int, 0 <= s, s < w
    PROVE  (w * k + s) % w = s
<1>. DEFINE x == w * k + s
            d == k - (x \div w)
<1>1. x \in Int /\ x \div w \in Int /\ x % w \in Int
  OBVIOUS
<1>2. x = w * (x \div w) + (x % w) /\ 0 <= x % w /\ x % w < w
  BY <1>1
<1>3. w * d = (x % w) - s /\ d \in Int
  BY <1>1, <1>2
<1>. HIDE DEF d, x
<1>4. d = 0
  <2>1. CASE d >= 1
    <3>1. w * d >= w
      BY <2>1, <1>3
    <3>. QED
      BY <1>2, <1>3, <3>1, <1>1
  <2>2. CASE d <= -1
    <3>1. w * d <= -w
      BY <2>2, <1>3
    <3>. QED
      BY <1>2, <1>3, <3>1, <1>1
  <2>. QED
    BY <1>3, <2>1, <2>2
<1>5. w * d = 0
  BY <1>4
<1>6. x % w = s
  BY <1>1, <1>3, <1>5
<1>. QED
  BY <1>6 DEF x

\* Addition and the remainder.
LEMMA ModAdds ==
    ASSUME NEW w \in Nat \ {0}, NEW a \in Int, NEW n \in Int
    PROVE  ((a % w) + n) % w = (a + n) % w
<1>. DEFINE q == a \div w
            r == a % w
            b == r + n
<1>1. q \in Int /\ r \in Int /\ a = w * q + r
  OBVIOUS
<1>2. b \in Int /\ b \div w \in Int /\ b % w \in Int /\ b = w * (b \div w) + (b % w)
      /\ 0 <= b % w /\ b % w < w
  BY <1>1
<1>. HIDE DEF q, r, b
<1>. DEFINE k == q + (b \div w)
<1>3. k \in Int /\ a + n = w * k + (b % w)
  <2>1. a + n = w * q + b
    BY <1>1 DEF b
  <2>2. w * k = w * q + w * (b \div w) /\ k \in Int /\ w * q \in Int /\ w * (b \div w) \in Int
    BY <1>1, <1>2
  <2>. HIDE DEF k
  <2>. QED
    BY <2>1, <2>2, <1>2
<1>. HIDE DEF k
<1>4. (a + n) % w = b % w
  BY <1>2, <1>3, Multiples
<1>. QED
  BY <1>4 DEF b, r

\* The least element of a set of numbers.
LEMMA Smallest == ASSUME NEW S \in SUBSET Nat, S # {} PROVE Stats!Min(S) \in S /\ \A i \in S : Stats!Min(S) <= i
<1>. DEFINE R == {ss \in Nat \X Nat : ss[1] < ss[2]}
<1>1. IsWellFoundedOn(R, Nat)
  <2>1. IsWellFoundedOn(OpToRel(<, Nat), Nat)
    BY NatLessThanWellFounded
  <2>. QED
    BY <2>1, Zenon DEF OpToRel
<1>2. PICK i \in S : \A j \in S : ~(<<j, i>> \in R)
  <2>. HIDE DEF R
  <2>. QED
    BY <1>1, WFMin
<1>3. ASSUME NEW j \in S PROVE i <= j
  <2>1. <<j, i>> \in Nat \X Nat /\ <<j, i>>[1] = j /\ <<j, i>>[2] = i
    OBVIOUS
  <2>2. ~(<<j, i>>[1] < <<j, i>>[2])
    BY <1>2, <2>1, Zenon
  <2>. QED
    BY <2>1, <2>2
<1>. QED
  BY <1>3 DEF Stats!Min

\* A counter counts modulo WORD.
LEMMA WrappedTyped ==
    ASSUME StatsConstants, NEW n \in Int
    PROVE  Stats!Wrapped(n) \in Nat /\ Stats!Wrapped(n) < WORD /\ (n >= 0 => Stats!Wrapped(n) <= n)
<1>1. WORD \in Nat \ {0}
  BY DEF StatsConstants
<1>2. n % WORD \in Nat /\ n % WORD < WORD
  BY <1>1
<1>3. ASSUME n >= 0 PROVE n % WORD <= n
  <2>1. n = WORD * (n \div WORD) + (n % WORD) /\ n \div WORD \in Int
    BY <1>1
  <2>2. n \div WORD >= 0
    BY <1>1, <1>3
  <2>3. WORD * (n \div WORD) >= 0
    BY <1>1, <2>1, <2>2
  <2>. QED
    BY <1>1, <1>2, <2>1, <2>3
<1>. QED
  BY <1>2, <1>3 DEF Stats!Wrapped

\* get() finds a node of the process in its bucket, if there is one.
LEMMA GetFinds ==
    ASSUME StatsConstants, StatsTyped, NEW p \in PIDs
    PROVE  \/ Stats!get(p) = 0 /\ \A i \in 1 .. Len(hashmap[Bucket[p]]) : hashmap[Bucket[p]][i][1] # p
           \/ \E i \in 1 .. Len(hashmap[Bucket[p]]) :
                  hashmap[Bucket[p]][i] = <<p, Stats!get(p)>> /\ Stats!get(p) \in Nat \ {0}
<1>. DEFINE s == hashmap[Bucket[p]]
<1>1. s \in NodeList
  BY DEF StatsTyped, Stats!Buckets
<1>2. DOMAIN s = 1 .. Len(s) /\ Len(s) \in Nat /\ \A i \in 1 .. Len(s) : s[i] \in PIDs \X (Nat \ {0})
  BY <1>1 DEF NodeList
<1>3. Stats!Mine(p) = {i \in 1 .. Len(s) : s[i][1] = p}
  BY <1>2 DEF Stats!Mine, Stats!Nodes
<1>4. CASE Stats!Mine(p) = {}
  BY <1>3, <1>4 DEF Stats!get
<1>5. CASE Stats!Mine(p) # {}
  <2>1. Stats!Min(Stats!Mine(p)) \in Stats!Mine(p)
    <3>1. Stats!Mine(p) \in SUBSET Nat
      BY <1>2, <1>3
    <3>. HIDE DEF s
    <3>. QED
      BY <1>5, <3>1, Smallest
  <2>2. PICK i \in 1 .. Len(s) : i = Stats!Min(Stats!Mine(p)) /\ s[i][1] = p
    BY <1>3, <2>1
  <2>3. Stats!get(p) = s[i][2]
    BY <1>5, <2>2 DEF Stats!get, Stats!Nodes
  <2>4. s[i] = <<p, s[i][2]>> /\ s[i][2] \in Nat \ {0}
    <3>. HIDE DEF s
    <3>. QED
      BY <1>2, <2>2
  <2>. QED
    BY <2>3, <2>4
<1>. QED
  BY <1>4, <1>5

\* A list in which an element is replaced.
LEMMA Replaced ==
    ASSUME NEW S, NEW s \in Seq(S), NEW i, NEW e, i \in 1 .. Len(s) => e \in S
    PROVE  /\ [s EXCEPT ![i] = e] \in Seq(S)
           /\ Len([s EXCEPT ![i] = e]) = Len(s)
           /\ \A j \in 1 .. Len(s) : [s EXCEPT ![i] = e][j] = IF j = i THEN e ELSE s[j]
<1>. DEFINE t == [s EXCEPT ![i] = e]
<1>1. DOMAIN s = 1 .. Len(s) /\ Len(s) \in Nat /\ \A j \in 1 .. Len(s) : s[j] \in S
  OBVIOUS
<1>2. DOMAIN t = 1 .. Len(s) /\ \A j \in 1 .. Len(s) : t[j] = IF j = i THEN e ELSE s[j]
  BY <1>1
<1>3. t = [j \in 1 .. Len(s) |-> t[j]]
  BY <1>2
<1>4. \A j \in 1 .. Len(s) : t[j] \in S
  BY <1>1, <1>2
<1>. HIDE DEF t
<1>5. t \in Seq(S) /\ Len(t) = Len(s)
  BY <1>1, <1>3, <1>4
<1>. QED
  BY <1>2, <1>5 DEF t

\* The types, after any step of a call.
LEMMA CallTyped ==
    ASSUME StatsConstants, StatsTyped, NEW p \in PIDs, Stats!random_read(p)
    PROVE  StatsTyped'
<1>. USE DEF StatsTyped, StatsLabels, Stats!Goto, Stats!counters, Stats!table, Stats!locals, Stats!history
<1>1. CASE Stats!Lookup(p)
  <2>1. Stats!get(p) \in Nat
    BY GetFinds
  <2>. QED
    BY <1>1, <2>1 DEF Stats!Lookup
<1>2. CASE Stats!LoadUp(p)
  BY <1>2 DEF Stats!LoadUp
<1>3. CASE Stats!StoreUp(p)
  <2>1. reader_count' \in Nat
    BY <1>3, WrappedTyped DEF Stats!StoreUp
  <2>2. Stats!FreshRecord \in UserHash
    BY DEF Stats!FreshRecord, UserHash
  <2>3. records[p] \in Seq(UserHash)
    OBVIOUS
  <2>4. CASE existing[p] = 0
    <3>1. Append(records[p], Stats!FreshRecord) \in Seq(UserHash)
          /\ Len(Append(records[p], Stats!FreshRecord)) \in Nat \ {0}
      BY <2>2, <2>3, AppendProperties, LenProperties
    <3>2. records' = [records EXCEPT ![p] = Append(records[p], Stats!FreshRecord)]
          /\ existing' = [existing EXCEPT ![p] = Len(Append(records[p], Stats!FreshRecord))]
          /\ pc' = [pc EXCEPT ![p] = "loadHead"]
      BY <1>3, <2>4 DEF Stats!StoreUp
    <3>. QED
      BY <1>3, <2>1, <3>1, <3>2 DEF Stats!StoreUp
  <2>5. CASE existing[p] # 0
    <3>1. [records[p] EXCEPT ![existing[p]] = Stats!FreshRecord] \in Seq(UserHash)
      BY <2>2, <2>3, Replaced
    <3>2. records' = [records EXCEPT ![p] = [records[p] EXCEPT ![existing[p]] = Stats!FreshRecord]]
          /\ UNCHANGED existing /\ pc' = [pc EXCEPT ![p] = "run"]
      BY <1>3, <2>5 DEF Stats!StoreUp
    <3>. QED
      BY <1>3, <2>1, <3>1, <3>2 DEF Stats!StoreUp
  <2>. QED
    BY <2>4, <2>5
<1>4. CASE Stats!LoadHead(p)
  <2>1. hashmap[Bucket[p]] \in NodeList
    BY DEF Stats!Buckets
  <2>. QED
    BY <1>4, <2>1 DEF Stats!LoadHead
<1>5. CASE Stats!StoreHead(p)
  <2>1. <<<<p, existing[p]>>>> \in NodeList /\ head[p] \in NodeList
    BY <1>5 DEF Stats!StoreHead, NodeList
  <2>2. <<<<p, existing[p]>>>> \o head[p] \in NodeList
    BY <2>1, ConcatProperties DEF NodeList
  <2>. QED
    BY <1>5, <2>2 DEF Stats!StoreHead
<1>6. CASE Stats!Run(p)
  <2>1. PICK n \in Results : /\ bytes_read' = [bytes_read EXCEPT ![p] = n]
                             /\ delivered' = IF n > 0 THEN delivered + n ELSE delivered
                             /\ failed' = (failed \/ n < 0)
    BY <1>6 DEF Stats!Run
  <2>2. n \in Int
    BY DEF StatsConstants
  <2>. QED
    BY <1>6, <2>1, <2>2 DEF Stats!Run
<1>7. CASE Stats!LoadBytes(p)
  BY <1>7 DEF Stats!LoadBytes
<1>8. CASE Stats!StoreBytes(p)
  <2>1. all_bytes' \in Nat
    BY <1>8, WrappedTyped DEF Stats!StoreBytes
  <2>2. records' \in [PIDs -> Seq(UserHash)]
    <3>. DEFINE r == records[p][existing[p]]
                e == [r EXCEPT !.bytes_read = Stats!Wrapped(@ + bytes_read[p])]
    <3>1. records' = [records EXCEPT ![p] = [records[p] EXCEPT ![existing[p]] = e]]
      BY <1>8 DEF Stats!StoreBytes
    <3>2. ASSUME existing[p] \in 1 .. Len(records[p]) PROVE e \in UserHash
      <4>1. r \in UserHash
        BY <3>2
      <4>. HIDE DEF r
      <4>2. r.bytes_read + bytes_read[p] \in Int
        BY <4>1 DEF UserHash
      <4>. QED
        BY <4>1, <4>2, WrappedTyped DEF UserHash
    <3>. HIDE DEF e
    <3>. QED
      BY <3>1, <3>2, Replaced
  <2>. QED
    BY <1>8, <2>1, <2>2 DEF Stats!StoreBytes
<1>9. CASE Stats!LoadDown(p)
  BY <1>9 DEF Stats!LoadDown
<1>10. CASE Stats!StoreDown(p)
  <2>1. reader_count' \in Nat
    BY <1>10, WrappedTyped DEF Stats!StoreDown
  <2>2. records' \in [PIDs -> Seq(UserHash)]
    <3>. DEFINE r == records[p][existing[p]]
                e == [r EXCEPT !.finished = TRUE]
    <3>1. records' = [records EXCEPT ![p] = [records[p] EXCEPT ![existing[p]] = e]]
      BY <1>10 DEF Stats!StoreDown
    <3>2. ASSUME existing[p] \in 1 .. Len(records[p]) PROVE e \in UserHash
      <4>1. r \in UserHash
        BY <3>2
      <4>. HIDE DEF r
      <4>. QED
        BY <4>1 DEF UserHash
    <3>. HIDE DEF e
    <3>. QED
      BY <3>1, <3>2, Replaced
  <2>. QED
    BY <1>10, <2>1, <2>2 DEF Stats!StoreDown
<1>. QED
  BY <1>1, <1>2, <1>3, <1>4, <1>5, <1>6, <1>7, <1>8, <1>9, <1>10 DEF Stats!random_read

\* Every step that changes anything but the history used is one of a call.
LEMMA StatsSteps ==
    ASSUME [Stats!Next]_(Stats!vars)
    PROVE  \/ \E p \in PIDs : Stats!random_read(p)
           \/ UNCHANGED <<all_bytes, reader_count, records, hashmap, pc, existing, head, loaded,
                          bytes_read, calls, delivered, failed, overlap>>
BY DEF Stats!Next, Stats!vars, Stats!OpenAgain, Stats!Terminating, Stats!counters, Stats!table,
       Stats!locals, Stats!history

\* A call that has failed is not forgotten, and the result of the others is no
\* error.
LEMMA NotFailed ==
    ASSUME StatsConstants, StatsTyped, NEW p \in PIDs, Stats!random_read(p), ~failed'
    PROVE  ~failed /\ (Stats!Run(p) => \E n \in Nat : /\ bytes_read' = [bytes_read EXCEPT ![p] = n]
                                                   /\ delivered' = delivered + n)
<1>1. CASE Stats!Run(p)
  <2>1. PICK n \in Results : /\ bytes_read' = [bytes_read EXCEPT ![p] = n]
                             /\ delivered' = IF n > 0 THEN delivered + n ELSE delivered
                             /\ failed' = (failed \/ n < 0)
    BY <1>1 DEF Stats!Run
  <2>2. n \in Int /\ ~(n < 0) /\ ~failed
    BY <2>1 DEF StatsConstants
  <2>3. n \in Nat /\ delivered' = delivered + n
    BY <2>1, <2>2 DEF StatsTyped
  <2>. QED
    BY <2>1, <2>2, <2>3
<1>2. CASE ~Stats!Run(p)
  BY <1>2 DEF Stats!random_read, Stats!Lookup, Stats!LoadUp, Stats!StoreUp, Stats!LoadHead, Stats!StoreHead,
              Stats!LoadBytes, Stats!StoreBytes, Stats!LoadDown, Stats!StoreDown, Stats!history
<1>. QED
  BY <1>1, <1>2

\* The types, after any step.
LEMMA NextStatsTyped ==
    ASSUME StatsConstants, StatsTyped, [Stats!Next]_(Stats!vars)
    PROVE  StatsTyped'
<1>1. CASE UNCHANGED <<all_bytes, reader_count, records, hashmap, pc, existing, head, loaded,
                       bytes_read, calls, delivered, failed, overlap>>
  BY <1>1 DEF StatsTyped
<1>. QED
  BY <1>1, CallTyped, StatsSteps

------------------------------------------------------------------------------
(* A bucket with one process.                                              *)

\* Where a call is of a process that shares its bucket with no other, and what
\* is in the bucket then.
NoOther(p) == \A q \in PIDs : Bucket[q] = Bucket[p] => q = p

Unlisted(p) == hashmap[Bucket[p]] = <<>>
ListedOnce(p) == hashmap[Bucket[p]] = <<<<p, 1>>>>

LoneAt(p) ==
    \/ pc[p] = "outside" /\ calls[p] = 0 /\ Unlisted(p) /\ records[p] = <<>>
    \/ pc[p] \in {"loadUp", "storeUp"} /\ existing[p] = 0 /\ Unlisted(p) /\ records[p] = <<>>
    \/ pc[p] = "loadHead" /\ existing[p] = 1 /\ Unlisted(p)
    \/ pc[p] = "storeHead" /\ existing[p] = 1 /\ Unlisted(p) /\ head[p] = <<>>
    \/ pc[p] = "outside" /\ ListedOnce(p)
    \/ pc[p] \notin {"outside", "loadHead", "storeHead"} /\ existing[p] = 1 /\ ListedOnce(p)

Lonely == \A p \in PIDs : NoOther(p) => LoneAt(p)

\* The steps of the process itself,
LEMMA LoneStep ==
    ASSUME StatsConstants, StatsTyped, NEW p \in PIDs, LoneAt(p), Stats!random_read(p)
    PROVE  LoneAt(p)'
<1>. USE DEF StatsTyped, Stats!Goto, Stats!counters, Stats!table, Stats!locals, Stats!history
<1>1. CASE Stats!Lookup(p)
  <2>1. CASE Unlisted(p) /\ records[p] = <<>> /\ pc[p] = "outside"
    <3>1. Stats!get(p) = 0
      BY <2>1, GetFinds DEF Unlisted
    <3>2. Stats!NewReader(p, Stats!get(p))
      BY <3>1 DEF Stats!NewReader
    <3>3. existing' = [existing EXCEPT ![p] = 0] /\ pc' = [pc EXCEPT ![p] = "loadUp"]
          /\ hashmap' = hashmap /\ records' = records
      BY <1>1, <3>1, <3>2 DEF Stats!Lookup
    <3>4. existing'[p] = 0 /\ pc'[p] = "loadUp"
      BY <3>3
    <3>5. Unlisted(p)' /\ records'[p] = <<>>
      BY <2>1, <3>3 DEF Unlisted
    <3>. QED
      BY <3>4, <3>5, Zenon DEF LoneAt
  <2>2. CASE ListedOnce(p) /\ pc[p] = "outside"
    <3>1. Len(<<<<p, 1>>>>) = 1 /\ <<<<p, 1>>>>[1] = <<p, 1>> /\ \A i \in 1 .. 1 : i = 1
      OBVIOUS
    <3>2. Stats!get(p) = 1
      <4>1. Len(hashmap[Bucket[p]]) = 1 /\ hashmap[Bucket[p]][1] = <<p, 1>>
            /\ hashmap[Bucket[p]][1][1] = p /\ 1 \in 1 .. 1
        BY <2>2, <3>1 DEF ListedOnce
      <4>2. PICK i \in 1 .. 1 : hashmap[Bucket[p]][i] = <<p, Stats!get(p)>>
        <5>. HIDE DEF StatsTyped
        <5>. QED
          BY <4>1, GetFinds, Zenon
      <4>3. <<p, Stats!get(p)>> = <<p, 1>>
        BY <3>1, <4>1, <4>2
      <4>. QED
        BY <4>3
    <3>3. existing'[p] = 1 /\ pc'[p] \in {"loadUp", "run"} /\ hashmap' = hashmap
      BY <1>1, <3>2 DEF Stats!Lookup
    <3>. QED
      BY <2>2, <3>3 DEF LoneAt, ListedOnce
  <2>. QED
    BY <1>1, <2>1, <2>2 DEF Stats!Lookup, LoneAt
<1>2. CASE Stats!LoadUp(p)
  BY <1>2 DEF Stats!LoadUp, LoneAt, Unlisted, ListedOnce
<1>3. CASE Stats!StoreUp(p)
  <2>1. CASE existing[p] = 0
    <3>1. Unlisted(p) /\ records[p] = <<>>
      BY <1>3, <2>1 DEF Stats!StoreUp, LoneAt
    <3>2. Len(Append(<<>>, Stats!FreshRecord)) = 1
      OBVIOUS
    <3>3. records' = [records EXCEPT ![p] = Append(records[p], Stats!FreshRecord)]
          /\ existing' = [existing EXCEPT ![p] = Len(records'[p])]
          /\ pc' = [pc EXCEPT ![p] = "loadHead"] /\ hashmap' = hashmap
      BY <1>3, <2>1 DEF Stats!StoreUp
    <3>4. existing'[p] = 1 /\ pc'[p] = "loadHead"
      BY <3>1, <3>2, <3>3
    <3>. QED
      BY <3>1, <3>3, <3>4 DEF LoneAt, Unlisted
  <2>2. CASE existing[p] # 0
    BY <1>3, <2>2 DEF Stats!StoreUp, LoneAt, ListedOnce
  <2>. QED
    BY <2>1, <2>2
<1>4. CASE Stats!LoadHead(p)
  BY <1>4 DEF Stats!LoadHead, LoneAt, Unlisted
<1>5. CASE Stats!StoreHead(p)
  <2>1. existing[p] = 1 /\ head[p] = <<>>
    BY <1>5 DEF Stats!StoreHead, LoneAt
  <2>2. <<<<p, 1>>>> \o <<>> = <<<<p, 1>>>>
    OBVIOUS
  <2>3. hashmap'[Bucket[p]] = <<<<p, 1>>>>
    BY <1>5, <2>1, <2>2 DEF Stats!StoreHead, Stats!Buckets
  <2>. QED
    BY <1>5, <2>1, <2>3 DEF Stats!StoreHead, LoneAt, ListedOnce
<1>6. CASE Stats!Run(p)
  BY <1>6 DEF Stats!Run, LoneAt, ListedOnce
<1>7. CASE Stats!LoadBytes(p)
  BY <1>7 DEF Stats!LoadBytes, LoneAt, ListedOnce
<1>8. CASE Stats!StoreBytes(p)
  BY <1>8 DEF Stats!StoreBytes, LoneAt, ListedOnce
<1>9. CASE Stats!LoadDown(p)
  BY <1>9 DEF Stats!LoadDown, LoneAt, ListedOnce
<1>10. CASE Stats!StoreDown(p)
  BY <1>10 DEF Stats!StoreDown, LoneAt, ListedOnce
<1>. QED
  BY <1>1, <1>2, <1>3, <1>4, <1>5, <1>6, <1>7, <1>8, <1>9, <1>10 DEF Stats!random_read

\* What a step of a call leaves alone: all of the other processes, and all
\* buckets but its own.
LEMMA CallFrame ==
    ASSUME StatsTyped, NEW p \in PIDs, Stats!random_read(p)
    PROVE  /\ \A q \in PIDs \ {p} :
                  /\ pc'[q] = pc[q] /\ calls'[q] = calls[q] /\ existing'[q] = existing[q]
                  /\ head'[q] = head[q] /\ loaded'[q] = loaded[q] /\ bytes_read'[q] = bytes_read[q]
                  /\ records'[q] = records[q]
           /\ \A b \in Stats!Buckets \ {Bucket[p]} : hashmap'[b] = hashmap[b]
           /\ hashmap' # hashmap => Stats!StoreHead(p)
<1>. USE DEF StatsTyped, Stats!Goto, Stats!counters, Stats!table, Stats!locals, Stats!history
<1>1. CASE Stats!Lookup(p) \/ Stats!LoadUp(p) \/ Stats!LoadHead(p) \/ Stats!Run(p)
           \/ Stats!LoadBytes(p) \/ Stats!LoadDown(p)
  BY <1>1 DEF Stats!Lookup, Stats!LoadUp, Stats!LoadHead, Stats!Run, Stats!LoadBytes, Stats!LoadDown
<1>2. CASE Stats!StoreUp(p)
  BY <1>2 DEF Stats!StoreUp
<1>3. CASE Stats!StoreHead(p)
  BY <1>3 DEF Stats!StoreHead
<1>4. CASE Stats!StoreBytes(p)
  BY <1>4 DEF Stats!StoreBytes
<1>5. CASE Stats!StoreDown(p)
  BY <1>5 DEF Stats!StoreDown
<1>. QED
  BY <1>1, <1>2, <1>3, <1>4, <1>5 DEF Stats!random_read

\* and those of anybody.
LEMMA NextLonely ==
    ASSUME StatsConstants, StatsTyped, Lonely, [Stats!Next]_(Stats!vars)
    PROVE  Lonely'
<1>1. CASE UNCHANGED <<all_bytes, reader_count, records, hashmap, pc, existing, head, loaded,
                       bytes_read, calls, delivered, failed, overlap>>
  BY <1>1 DEF Lonely, LoneAt, Unlisted, ListedOnce
<1>2. ASSUME NEW q \in PIDs, Stats!random_read(q), NEW p \in PIDs, NoOther(p) PROVE LoneAt(p)'
  <2>1. CASE p = q
    BY <1>2, <2>1, LoneStep DEF Lonely
  <2>2. CASE p # q
    <3>1. Bucket[p] \in Stats!Buckets \ {Bucket[q]}
      BY <1>2, <2>2 DEF NoOther, Stats!Buckets
    <3>2. hashmap'[Bucket[p]] = hashmap[Bucket[p]] /\ pc'[p] = pc[p] /\ calls'[p] = calls[p]
          /\ existing'[p] = existing[p] /\ head'[p] = head[p] /\ records'[p] = records[p]
      BY <1>2, <2>2, <3>1, CallFrame
    <3>3. LoneAt(p)
      BY <1>2 DEF Lonely
    <3>. QED
      BY <3>2, <3>3 DEF LoneAt, Unlisted, ListedOnce
  <2>. QED
    BY <2>1, <2>2
<1>3. \A p \in PIDs : NoOther(p)' <=> NoOther(p)
  BY DEF NoOther
<1>. QED
  BY <1>1, <1>2, <1>3, StatsSteps DEF Lonely

\* What holds before any call.
LEMMA StatsInit ==
    ASSUME StatsConstants, Stats!Init
    PROVE  StatsTyped /\ Lonely
<1>. USE DEF Stats!Init
<1>1. StatsTyped
  <2>1. <<>> \in NodeList /\ <<>> \in Seq(UserHash)
    BY DEF NodeList
  <2>2. records \in [PIDs -> Seq(UserHash)] /\ hashmap \in [Stats!Buckets -> NodeList]
        /\ head \in [PIDs -> NodeList]
    BY <2>1
  <2>3. pc \in [PIDs -> StatsLabels] /\ \A p \in PIDs : pc[p] = "outside"
    BY DEF StatsLabels
  <2>4. existing \in [PIDs -> Nat] /\ loaded \in [PIDs -> Nat] /\ bytes_read \in [PIDs -> Int]
        /\ calls \in [PIDs -> Nat]
    OBVIOUS
  <2>. QED
    BY <2>2, <2>3, <2>4 DEF StatsTyped
<1>2. ASSUME NEW p \in PIDs PROVE LoneAt(p)
  BY <1>2 DEF LoneAt, Unlisted, Stats!Buckets
<1>. QED
  BY <1>1, <1>2 DEF Lonely

\* A process that shares its bucket with no other has one record, found by a
\* node of its own, once it has called and while it is not in a call.
THEOREM LossNeedsOtherInBucket ==
    ASSUME StatsConstants
    PROVE  Stats!Spec => []Stats!LossNeedsCollision
<1>1. Stats!Init => StatsTyped /\ Lonely
  BY StatsInit
<1>2. StatsTyped /\ Lonely /\ [Stats!Next]_(Stats!vars) => (StatsTyped /\ Lonely)'
  BY NextStatsTyped, NextLonely
<1>3. StatsTyped /\ Lonely => Stats!LossNeedsCollision
  <2>1. SUFFICES ASSUME StatsTyped, Lonely, NEW p \in PIDs, pc[p] = "outside", calls[p] > 0, NoOther(p)
                 PROVE  hashmap[Bucket[p]] = <<<<p, 1>>>>
    BY DEF Stats!LossNeedsCollision, NoOther
  <2>2. LoneAt(p)
    BY <2>1 DEF Lonely
  <2>. QED
    BY <2>1, <2>2 DEF LoneAt, ListedOnce
<1>. QED
  BY <1>1, <1>2, <1>3, PTL DEF Stats!Spec

------------------------------------------------------------------------------
(* The bytes that are read and not yet counted.                            *)

\* Of each call, those the kernel has returned and the counter does not hold.
UncountedOf(p) == IF pc[p] \in {"loadBytes", "storeBytes"} THEN {p} \X (1 .. bytes_read[p]) ELSE {}
Uncounted == UNION {UncountedOf(p) : p \in PIDs}

BytesBounded ==
    /\ IsFiniteSet(Uncounted)
    /\ all_bytes + Cardinality(Uncounted) <= delivered
    /\ \A p \in PIDs : pc[p] \in {"loadBytes", "storeBytes"} => bytes_read[p] \in Nat
    /\ \A p \in PIDs : pc[p] = "storeBytes" => loaded[p] + Cardinality(Uncounted) <= delivered

\* What the kernel returns becomes uncounted, and is no more once the counter
\* is stored.
LEMMA UncountedOneProcess ==
    ASSUME NEW p \in PIDs, NEW n \in Nat, \A q \in PIDs \ {p} : UncountedOf(q)' = UncountedOf(q)
    PROVE  /\ IsFiniteSet(Uncounted) /\ UncountedOf(p) = {} /\ UncountedOf(p)' = {p} \X (1 .. n) =>
                 IsFiniteSet(Uncounted') /\ Cardinality(Uncounted') = Cardinality(Uncounted) + n
           /\ IsFiniteSet(Uncounted) /\ UncountedOf(p) = {p} \X (1 .. n) /\ UncountedOf(p)' = {} =>
                 IsFiniteSet(Uncounted') /\ Cardinality(Uncounted') = Cardinality(Uncounted) - n
<1>. DEFINE T == {p} \X (1 .. n)
<1>1. IsFiniteSet(T) /\ Cardinality(T) = n
  <2>1. IsFiniteSet({p}) /\ Cardinality({p}) = 1
    BY FS_Singleton
  <2>2. IsFiniteSet(1 .. n) /\ Cardinality(1 .. n) = n
    BY FS_Interval
  <2>3. IsFiniteSet(T) /\ Cardinality(T) = Cardinality({p}) * Cardinality(1 .. n)
    BY <2>1, <2>2, FS_Product
  <2>. QED
    BY <2>1, <2>2, <2>3
<1>2. \A q \in PIDs \ {p} : UncountedOf(q) \cap T = {}
  BY DEF UncountedOf
<1>. HIDE DEF T
<1>3. ASSUME IsFiniteSet(Uncounted), UncountedOf(p) = {}, UncountedOf(p)' = T
      PROVE  IsFiniteSet(Uncounted') /\ Cardinality(Uncounted') = Cardinality(Uncounted) + n
  <2>1. Uncounted' = Uncounted \cup T
    BY <1>3 DEF Uncounted
  <2>2. Uncounted \cap T = {}
    BY <1>2, <1>3 DEF Uncounted
  <2>3. Cardinality({}) = 0 /\ Cardinality(Uncounted) \in Nat
    BY <1>3, FS_EmptySet, FS_CardinalityType
  <2>4. IsFiniteSet(Uncounted \cup T)
        /\ Cardinality(Uncounted \cup T)
               = Cardinality(Uncounted) + Cardinality(T) - Cardinality(Uncounted \cap T)
    BY <1>1, <1>3, FS_Union
  <2>5. Cardinality(Uncounted \cap T) = 0
    BY <2>2, <2>3
  <2>. QED
    BY <1>1, <2>1, <2>3, <2>4, <2>5
<1>4. ASSUME IsFiniteSet(Uncounted), UncountedOf(p) = T, UncountedOf(p)' = {}
      PROVE  IsFiniteSet(Uncounted') /\ Cardinality(Uncounted') = Cardinality(Uncounted) - n
  <2>1. Uncounted = Uncounted' \cup T
    BY <1>4 DEF Uncounted
  <2>2. Uncounted' \cap T = {}
    BY <1>2, <1>4 DEF Uncounted
  <2>3. IsFiniteSet(Uncounted')
    BY <1>4, <2>1, FS_Subset
  <2>4. Cardinality({}) = 0 /\ Cardinality(Uncounted') \in Nat
    BY <2>3, FS_EmptySet, FS_CardinalityType
  <2>5. Cardinality(Uncounted' \cup T) = Cardinality(Uncounted') + Cardinality(T) - Cardinality(Uncounted' \cap T)
    BY <1>1, <2>3, FS_Union
  <2>6. Cardinality(Uncounted' \cup T) = Cardinality(Uncounted)
    BY <2>1
  <2>7. Cardinality(Uncounted' \cap T) = 0
    BY <2>2, <2>4
  <2>. QED
    BY <1>1, <2>3, <2>4, <2>5, <2>6, <2>7
<1>. QED
  BY <1>3, <1>4 DEF T

\* The bound is kept by every step of a call, as long as none has failed.
LEMMA CallBytesBounded ==
    ASSUME StatsConstants, StatsTyped, BytesBounded, NEW p \in PIDs, Stats!random_read(p), ~failed'
    PROVE  BytesBounded'
<1>. DEFINE c == Cardinality(Uncounted)
<1>1. /\ \A q \in PIDs \ {p} : pc'[q] = pc[q] /\ loaded'[q] = loaded[q] /\ bytes_read'[q] = bytes_read[q]
      /\ \A q \in PIDs \ {p} : UncountedOf(q)' = UncountedOf(q)
  <2>1. \A q \in PIDs \ {p} : pc'[q] = pc[q] /\ loaded'[q] = loaded[q] /\ bytes_read'[q] = bytes_read[q]
    BY CallFrame
  <2>. QED
    BY <2>1 DEF UncountedOf
<1>2. c \in Nat /\ all_bytes \in Nat /\ delivered \in Nat /\ \A q \in PIDs : loaded[q] \in Nat
  BY FS_CardinalityType DEF BytesBounded, StatsTyped
<1>3. CASE Stats!Run(p)
  <2>1. PICK n \in Nat : /\ bytes_read' = [bytes_read EXCEPT ![p] = n]
                         /\ delivered' = delivered + n
    BY <1>3, NotFailed
  <2>2. n \in Nat /\ delivered' = delivered + n
    BY <2>1
  <2>3. pc[p] = "run" /\ pc'[p] = "loadBytes" /\ bytes_read'[p] = n /\ all_bytes' = all_bytes
    BY <1>3, <2>1 DEF Stats!Run, Stats!Goto, StatsTyped, Stats!counters
  <2>4. UncountedOf(p) = {} /\ UncountedOf(p)' = {p} \X (1 .. n)
    BY <2>3 DEF UncountedOf
  <2>5. IsFiniteSet(Uncounted') /\ Cardinality(Uncounted') = c + n
    BY <1>1, <2>2, <2>4, UncountedOneProcess DEF BytesBounded
  <2>6. all_bytes' + Cardinality(Uncounted') <= delivered'
    BY <1>2, <2>2, <2>3, <2>5 DEF BytesBounded
  <2>7. ASSUME NEW q \in PIDs, pc'[q] \in {"loadBytes", "storeBytes"} PROVE bytes_read'[q] \in Nat
    BY <1>1, <2>2, <2>3, <2>7 DEF BytesBounded
  <2>8. ASSUME NEW q \in PIDs, pc'[q] = "storeBytes" PROVE loaded'[q] + Cardinality(Uncounted') <= delivered'
    <3>1. q # p /\ pc[q] = "storeBytes" /\ loaded'[q] = loaded[q]
      BY <1>1, <2>3, <2>8
    <3>2. loaded[q] + c <= delivered
      BY <3>1 DEF BytesBounded
    <3>. QED
      BY <1>2, <2>2, <2>5, <3>1, <3>2
  <2>. QED
    BY <2>5, <2>6, <2>7, <2>8 DEF BytesBounded
<1>4. CASE Stats!LoadBytes(p)
  <2>1. /\ pc[p] = "loadBytes" /\ pc'[p] = "storeBytes" /\ loaded'[p] = all_bytes
        /\ bytes_read' = bytes_read /\ all_bytes' = all_bytes /\ delivered' = delivered
    BY <1>4 DEF Stats!LoadBytes, Stats!Goto, StatsTyped, Stats!counters, Stats!history
  <2>2. Uncounted' = Uncounted
    <3>1. UncountedOf(p)' = UncountedOf(p)
      BY <2>1 DEF UncountedOf
    <3>. QED
      BY <1>1, <3>1 DEF Uncounted
  <2>3. ASSUME NEW q \in PIDs, pc'[q] \in {"loadBytes", "storeBytes"} PROVE bytes_read'[q] \in Nat
    BY <1>1, <2>1, <2>3 DEF BytesBounded
  <2>4. ASSUME NEW q \in PIDs, pc'[q] = "storeBytes" PROVE loaded'[q] + c <= delivered
    BY <1>1, <2>1, <2>4 DEF BytesBounded
  <2>. QED
    BY <2>1, <2>2, <2>3, <2>4 DEF BytesBounded
<1>5. CASE Stats!StoreBytes(p)
  <2>. DEFINE n == bytes_read[p]
  <2>1. /\ pc[p] = "storeBytes" /\ pc'[p] \in {"loadDown", "outside"}
        /\ bytes_read' = bytes_read /\ all_bytes' = Stats!Wrapped(loaded[p] + n) /\ delivered' = delivered
        /\ loaded' = loaded
    BY <1>5 DEF Stats!StoreBytes, Stats!Goto, StatsTyped, Stats!locals, Stats!history
  <2>2. n \in Nat /\ loaded[p] + c <= delivered
    BY <2>1 DEF BytesBounded
  <2>3. UncountedOf(p) = {p} \X (1 .. n) /\ UncountedOf(p)' = {}
    BY <2>1 DEF UncountedOf
  <2>. HIDE DEF n
  <2>4. IsFiniteSet(Uncounted') /\ Cardinality(Uncounted') = c - n
    BY <1>1, <2>2, <2>3, UncountedOneProcess DEF BytesBounded
  <2>5. all_bytes' <= loaded[p] + n /\ all_bytes' \in Nat
    BY <1>2, <2>1, <2>2, WrappedTyped
  <2>6. all_bytes' + Cardinality(Uncounted') <= delivered'
    BY <1>2, <2>1, <2>2, <2>4, <2>5
  <2>7. ASSUME NEW q \in PIDs, pc'[q] \in {"loadBytes", "storeBytes"} PROVE bytes_read'[q] \in Nat
    BY <1>1, <2>1, <2>7 DEF BytesBounded
  <2>8. ASSUME NEW q \in PIDs, pc'[q] = "storeBytes" PROVE loaded'[q] + Cardinality(Uncounted') <= delivered'
    <3>1. q # p /\ pc[q] = "storeBytes" /\ loaded'[q] = loaded[q]
      BY <1>1, <2>1, <2>8
    <3>2. loaded[q] + c <= delivered
      BY <3>1 DEF BytesBounded
    <3>. QED
      BY <1>2, <2>1, <2>2, <2>4, <3>1, <3>2
  <2>. QED
    BY <2>4, <2>6, <2>7, <2>8 DEF BytesBounded
<1>6. CASE Stats!Lookup(p) \/ Stats!LoadUp(p) \/ Stats!StoreUp(p) \/ Stats!LoadHead(p)
           \/ Stats!StoreHead(p) \/ Stats!LoadDown(p) \/ Stats!StoreDown(p)
  <2>1. /\ pc[p] \notin {"loadBytes", "storeBytes"} /\ pc'[p] \notin {"loadBytes", "storeBytes"}
        /\ bytes_read' = bytes_read /\ all_bytes' = all_bytes /\ delivered' = delivered
    BY <1>6 DEF Stats!Lookup, Stats!LoadUp, Stats!StoreUp, Stats!LoadHead, Stats!StoreHead, Stats!LoadDown,
                Stats!StoreDown, Stats!Goto, StatsTyped, Stats!counters, Stats!locals, Stats!history
  <2>2. Uncounted' = Uncounted
    <3>1. UncountedOf(p)' = UncountedOf(p)
      BY <2>1 DEF UncountedOf
    <3>. QED
      BY <1>1, <3>1 DEF Uncounted
  <2>3. ASSUME NEW q \in PIDs, pc'[q] \in {"loadBytes", "storeBytes"} PROVE bytes_read'[q] \in Nat
    BY <1>1, <2>1, <2>3 DEF BytesBounded
  <2>4. ASSUME NEW q \in PIDs, pc'[q] = "storeBytes" PROVE loaded'[q] + c <= delivered
    BY <1>1, <2>1, <2>4 DEF BytesBounded
  <2>. QED
    BY <2>1, <2>2, <2>3, <2>4 DEF BytesBounded
<1>. QED
  BY <1>3, <1>4, <1>5, <1>6 DEF Stats!random_read

\* As long as no call has failed, the counter of bytes never shows more than
\* the kernel has handed out, whatever updates of it are lost.
THEOREM BytesNeverInvented ==
    ASSUME StatsConstants
    PROVE  Stats!Spec => []Stats!NeverOvercounts
<1>. DEFINE I == StatsTyped /\ (~failed => BytesBounded)
<1>1. Stats!Init => I
  <2>1. SUFFICES ASSUME Stats!Init PROVE BytesBounded
    BY StatsInit
  <2>2. Uncounted = {}
    BY <2>1 DEF Stats!Init, Uncounted, UncountedOf
  <2>3. all_bytes = 0 /\ delivered = 0 /\ \A p \in PIDs : pc[p] = "outside"
    BY <2>1 DEF Stats!Init
  <2>. QED
    BY <2>2, <2>3, FS_EmptySet DEF BytesBounded
<1>2. I /\ [Stats!Next]_(Stats!vars) => I'
  <2>1. SUFFICES ASSUME StatsTyped, ~failed => BytesBounded, [Stats!Next]_(Stats!vars), ~failed'
                 PROVE  BytesBounded'
    BY NextStatsTyped
  <2>2. CASE UNCHANGED <<all_bytes, reader_count, records, hashmap, pc, existing, head, loaded,
                         bytes_read, calls, delivered, failed, overlap>>
    BY <2>1, <2>2 DEF BytesBounded, Uncounted, UncountedOf
  <2>3. ASSUME NEW p \in PIDs, Stats!random_read(p) PROVE BytesBounded'
    <3>1. BytesBounded
      BY <2>1, <2>3, NotFailed
    <3>. QED
      BY <2>1, <2>3, <3>1, CallBytesBounded
  <2>. QED
    BY <2>1, <2>2, <2>3, StatsSteps
<1>3. I => Stats!NeverOvercounts
  BY FS_CardinalityType DEF StatsTyped, BytesBounded, Stats!NeverOvercounts
<1>. QED
  BY <1>1, <1>2, <1>3, PTL DEF Stats!Spec

------------------------------------------------------------------------------
(* Calls that come one after the other.                                    *)

\* What the table holds of a process: no node, or only nodes of its first record
\* and one of these in its bucket.
Absent(p) == \A b \in Stats!Buckets : \A i \in 1 .. Len(hashmap[b]) : hashmap[b][i][1] # p
Present(p) ==
    /\ \E i \in 1 .. Len(hashmap[Bucket[p]]) : hashmap[Bucket[p]][i] = <<p, 1>>
    /\ \A b \in Stats!Buckets : \A i \in 1 .. Len(hashmap[b]) : hashmap[b][i][1] = p => hashmap[b][i][2] = 1

NoRecord(p) == Absent(p) /\ records[p] = <<>>
OneRecord(p) == Present(p) /\ Len(records[p]) = 1

\* The table, seen from where a process is in its call.
TidyAt(p) ==
    \/ pc[p] = "outside" /\ calls[p] = 0 /\ NoRecord(p)
    \/ pc[p] = "outside" /\ OneRecord(p)
    \/ pc[p] \in {"loadUp", "storeUp"} /\ existing[p] = 0 /\ NoRecord(p)
    \/ pc[p] \in {"loadUp", "storeUp"} /\ existing[p] = 1 /\ OneRecord(p) /\ records[p][1].finished
    \/ pc[p] \in {"loadHead", "storeHead"} /\ existing[p] = 1 /\ Absent(p) /\ Len(records[p]) = 1
       /\ ~records[p][1].finished
    \/ pc[p] \in {"run", "loadBytes", "storeBytes", "loadDown", "storeDown"} /\ existing[p] = 1
       /\ OneRecord(p) /\ ~records[p][1].finished

\* The processes with an active record.
ActiveReaders == {p \in PIDs : records[p] # <<>> /\ ~records[p][1].finished}

OneInside == \A p, q \in PIDs : p = q \/ pc[p] = "outside" \/ pc[q] = "outside"
HeadFresh == \A p \in PIDs : pc[p] = "storeHead" => head[p] = hashmap[Bucket[p]]
ReadersTold ==
    /\ reader_count = Cardinality(ActiveReaders) % WORD
    /\ \A p \in PIDs : pc[p] \in {"storeUp", "storeDown"} => loaded[p] = reader_count
BytesTold ==
    /\ (\A p \in PIDs : pc[p] \notin {"loadBytes", "storeBytes"}) => all_bytes = delivered % WORD
    /\ \A p \in PIDs : pc[p] \in {"loadBytes", "storeBytes"} =>
           (all_bytes + bytes_read[p]) % WORD = delivered % WORD
    /\ \A p \in PIDs : pc[p] = "storeBytes" => loaded[p] = all_bytes

Serial ==
    /\ OneInside /\ HeadFresh /\ ReadersTold
    /\ ~failed => BytesTold
    /\ \A p \in PIDs : TidyAt(p)

\* A node of a process put in front of its bucket disturbs nobody else's nodes.
LEMMA NodeAdded ==
    ASSUME StatsTyped, NEW p \in PIDs,
           hashmap' = [hashmap EXCEPT ![Bucket[p]] = <<<<p, 1>>>> \o hashmap[Bucket[p]]]
    PROVE  /\ \A q \in PIDs \ {p} : (Absent(q) => Absent(q)') /\ (Present(q) => Present(q)')
           /\ Absent(p) => Present(p)'
<1>. DEFINE s == hashmap[Bucket[p]]
            t == <<<<p, 1>>>> \o s
<1>1. s \in NodeList /\ Bucket[p] \in Stats!Buckets /\ \A q \in PIDs : Bucket[q] \in Stats!Buckets
  BY DEF StatsTyped, Stats!Buckets
<1>2. Len(s) \in Nat /\ Len(t) = Len(s) + 1 /\ t[1] = <<p, 1>> /\ \A i \in 2 .. Len(t) : t[i] = s[i - 1]
  <2>1. <<<<p, 1>>>> \in NodeList /\ Len(<<<<p, 1>>>>) = 1
    BY DEF NodeList
  <2>2. Len(t) = Len(<<<<p, 1>>>>) + Len(s)
        /\ \A i \in 1 .. Len(<<<<p, 1>>>>) + Len(s) :
               t[i] = IF i <= Len(<<<<p, 1>>>>) THEN <<<<p, 1>>>>[i] ELSE s[i - Len(<<<<p, 1>>>>)]
    BY <1>1, <2>1, ConcatProperties DEF NodeList
  <2>3. Len(s) \in Nat /\ <<<<p, 1>>>>[1] = <<p, 1>>
    BY <1>1, LenProperties DEF NodeList
  <2>. HIDE DEF s, t
  <2>4. Len(t) = Len(s) + 1
    BY <2>1, <2>2
  <2>5. t[1] = <<p, 1>>
    BY <2>1, <2>2, <2>3
  <2>6. \A i \in 2 .. Len(t) : t[i] = s[i - 1]
    BY <2>1, <2>2, <2>3, <2>4
  <2>. QED
    BY <2>3, <2>4, <2>5, <2>6
<1>3. hashmap'[Bucket[p]] = t /\ \A b \in Stats!Buckets : b # Bucket[p] => hashmap'[b] = hashmap[b]
  BY <1>1 DEF StatsTyped
<1>4. Stats!Buckets' = Stats!Buckets
  BY DEF Stats!Buckets
<1>. HIDE DEF t
<1>5. ASSUME NEW b \in Stats!Buckets, NEW i \in 1 .. Len(hashmap'[b])
      PROVE  \/ hashmap'[b][i] = <<p, 1>> /\ b = Bucket[p]
             \/ \E j \in 1 .. Len(hashmap[b]) : hashmap'[b][i] = hashmap[b][j]
  <2>1. CASE b = Bucket[p]
    <3>1. CASE i = 1
      BY <1>2, <1>3, <2>1, <3>1
    <3>2. CASE i # 1
      <4>1. i \in 2 .. Len(t) /\ i - 1 \in 1 .. Len(s)
        BY <1>2, <1>3, <1>5, <2>1, <3>2
      <4>2. hashmap'[b][i] = s[i - 1]
        BY <1>2, <1>3, <2>1, <4>1
      <4>. QED
        BY <2>1, <4>1, <4>2
    <3>. QED
      BY <3>1, <3>2
  <2>2. CASE b # Bucket[p]
    BY <1>3, <1>5, <2>2
  <2>. QED
    BY <2>1, <2>2
<1>6. ASSUME NEW b \in Stats!Buckets, NEW j \in 1 .. Len(hashmap[b])
      PROVE  \E i \in 1 .. Len(hashmap'[b]) : hashmap'[b][i] = hashmap[b][j]
  <2>1. CASE b = Bucket[p]
    <3>1. j + 1 \in 2 .. Len(t) /\ j + 1 \in 1 .. Len(t) /\ (j + 1) - 1 = j
      BY <1>2, <1>6, <2>1
    <3>2. t[j + 1] = s[j]
      BY <1>2, <3>1
    <3>. QED
      BY <1>3, <2>1, <3>1, <3>2
  <2>2. CASE b # Bucket[p]
    BY <1>3, <1>6, <2>2
  <2>. QED
    BY <2>1, <2>2
<1>. HIDE DEF s
<1>7. <<p, 1>>[1] = p /\ <<p, 1>>[2] = 1
  OBVIOUS
<1>8. ASSUME NEW q \in PIDs \ {p}, Absent(q) PROVE Absent(q)'
  BY <1>4, <1>5, <1>7, <1>8 DEF Absent
<1>9. ASSUME NEW q \in PIDs \ {p}, Present(q) PROVE Present(q)'
  <2>1. \E i \in 1 .. Len(hashmap'[Bucket[q]]) : hashmap'[Bucket[q]][i] = <<q, 1>>
    <3>1. PICK j \in 1 .. Len(hashmap[Bucket[q]]) : hashmap[Bucket[q]][j] = <<q, 1>>
      BY <1>9 DEF Present
    <3>2. PICK i \in 1 .. Len(hashmap'[Bucket[q]]) : hashmap'[Bucket[q]][i] = hashmap[Bucket[q]][j]
      BY <1>1, <1>6, <1>9
    <3>. QED
      BY <3>1, <3>2
  <2>2. \A b \in Stats!Buckets : \A i \in 1 .. Len(hashmap'[b]) : hashmap'[b][i][1] = q => hashmap'[b][i][2] = 1
    BY <1>5, <1>7, <1>9 DEF Present
  <2>. QED
    BY <1>4, <2>1, <2>2 DEF Present
<1>10. ASSUME Absent(p) PROVE Present(p)'
  <2>1. \E i \in 1 .. Len(hashmap'[Bucket[p]]) : hashmap'[Bucket[p]][i] = <<p, 1>>
    <3>1. Len(t) \in Nat \ {0} /\ 1 \in 1 .. Len(t) /\ t[1] = <<p, 1>>
      BY <1>2
    <3>. QED
      BY <1>3, <3>1
  <2>2. \A b \in Stats!Buckets : \A i \in 1 .. Len(hashmap'[b]) : hashmap'[b][i][1] = p => hashmap'[b][i][2] = 1
    BY <1>5, <1>7, <1>10 DEF Absent
  <2>. QED
    BY <1>4, <2>1, <2>2 DEF Present
<1>. QED
  BY <1>8, <1>9, <1>10

\* get() finds the first record, or nothing.
LEMMA GetTidy ==
    ASSUME StatsConstants, StatsTyped, NEW p \in PIDs
    PROVE  (Absent(p) => Stats!get(p) = 0) /\ (Present(p) => Stats!get(p) = 1)
<1>1. Bucket[p] \in Stats!Buckets
  BY DEF Stats!Buckets
<1>2. <<p, Stats!get(p)>>[1] = p /\ <<p, Stats!get(p)>>[2] = Stats!get(p) /\ <<p, 1>>[1] = p
  OBVIOUS
<1>3. ASSUME Absent(p) PROVE Stats!get(p) = 0
  BY <1>1, <1>2, <1>3, GetFinds DEF Absent
<1>4. ASSUME Present(p) PROVE Stats!get(p) = 1
  <2>1. \E i \in 1 .. Len(hashmap[Bucket[p]]) : hashmap[Bucket[p]][i][1] = p
    BY <1>2, <1>4 DEF Present
  <2>2. PICK i \in 1 .. Len(hashmap[Bucket[p]]) : hashmap[Bucket[p]][i] = <<p, Stats!get(p)>>
    BY <2>1, GetFinds, Zenon
  <2>. QED
    BY <1>1, <1>2, <1>4, <2>2 DEF Present
<1>. QED
  BY <1>3, <1>4

\* While calls do not overlap, the others are outside during a step.
LEMMA OthersOutside ==
    ASSUME StatsTyped, OneInside, NEW p \in PIDs, Stats!random_read(p), ~overlap'
    PROVE  ~overlap /\ \A q \in PIDs \ {p} : pc[q] = "outside" /\ pc'[q] = "outside"
<1>1. \A q \in PIDs \ {p} : pc'[q] = pc[q]
  BY CallFrame
<1>2. CASE Stats!Lookup(p)
  <2>1. ~overlap /\ ~\E q \in PIDs \ {p} : pc[q] # "outside"
    BY <1>2 DEF Stats!Lookup
  <2>. QED
    BY <1>1, <2>1
<1>3. CASE ~Stats!Lookup(p)
  <2>1. pc[p] # "outside" /\ UNCHANGED overlap
    BY <1>3 DEF Stats!random_read, Stats!LoadUp, Stats!StoreUp, Stats!LoadHead, Stats!StoreHead, Stats!Run,
                Stats!LoadBytes, Stats!StoreBytes, Stats!LoadDown, Stats!StoreDown, Stats!history
  <2>. QED
    BY <1>1, <2>1 DEF OneInside
<1>. QED
  BY <1>2, <1>3

\* The same table holds the same nodes.
LEMMA SameNodes ==
    ASSUME UNCHANGED hashmap, NEW p \in PIDs
    PROVE  (Absent(p)' <=> Absent(p)) /\ (Present(p)' <=> Present(p))
BY DEF Absent, Present, Stats!Buckets

\* The counter of the record leaves it active, and the end of the reading
\* finishes it.
LEMMA RecordStored ==
    ASSUME StatsConstants, StatsTyped, NEW p \in PIDs, TidyAt(p),
           Stats!StoreBytes(p) \/ Stats!StoreDown(p)
    PROVE  /\ Len(records'[p]) = 1
           /\ Stats!StoreBytes(p) => ~records'[p][1].finished
           /\ Stats!StoreDown(p) => records'[p][1].finished
<1>1. existing[p] = 1 /\ Len(records[p]) = 1 /\ ~records[p][1].finished
  BY DEF Stats!StoreBytes, Stats!StoreDown, TidyAt, OneRecord
<1>2. /\ records \in [PIDs -> Seq(UserHash)] /\ records[p] \in Seq(UserHash)
      /\ 1 \in 1 .. Len(records[p]) /\ records[p][1] \in UserHash
  <2>1. records \in [PIDs -> Seq(UserHash)] /\ records[p] \in Seq(UserHash)
    BY DEF StatsTyped
  <2>2. 1 \in 1 .. Len(records[p])
    BY <1>1
  <2>3. records[p][1] \in UserHash
    BY <2>1, <2>2, ElementOfSeq
  <2>. QED
    BY <2>1, <2>2, <2>3
<1>3. ASSUME Stats!StoreBytes(p) PROVE Len(records'[p]) = 1 /\ ~records'[p][1].finished
  <2>. DEFINE e == [records[p][1] EXCEPT !.bytes_read = Stats!Wrapped(@ + bytes_read[p])]
  <2>1. records' = [records EXCEPT ![p] = [records[p] EXCEPT ![1] = e]]
    BY <1>1, <1>3 DEF Stats!StoreBytes
  <2>2. e \in UserHash /\ ~e.finished
    <3>1. records[p][1].bytes_read + bytes_read[p] \in Int
      BY <1>2 DEF UserHash, StatsTyped
    <3>2. Stats!Wrapped(records[p][1].bytes_read + bytes_read[p]) \in Nat
      BY <3>1, WrappedTyped
    <3>. QED
      BY <1>1, <1>2, <3>2 DEF UserHash
  <2>. HIDE DEF e
  <2>3. records'[p] = [records[p] EXCEPT ![1] = e]
    BY <1>2, <2>1
  <2>. QED
    BY <1>1, <1>2, <2>2, <2>3, Replaced
<1>4. ASSUME Stats!StoreDown(p) PROVE Len(records'[p]) = 1 /\ records'[p][1].finished
  <2>. DEFINE e == [records[p][1] EXCEPT !.finished = TRUE]
  <2>1. records' = [records EXCEPT ![p] = [records[p] EXCEPT ![1] = e]]
    BY <1>1, <1>4 DEF Stats!StoreDown
  <2>2. e \in UserHash /\ e.finished
    BY <1>2 DEF UserHash
  <2>. HIDE DEF e
  <2>3. records'[p] = [records[p] EXCEPT ![1] = e]
    BY <1>2, <2>1
  <2>. QED
    BY <1>1, <1>2, <2>2, <2>3, Replaced
<1>. QED
  BY <1>3, <1>4

\* The table stays tidy for the process that takes a step,
LEMMA TidyStep ==
    ASSUME StatsConstants, StatsTyped, NEW p \in PIDs, TidyAt(p), HeadFresh, Stats!random_read(p)
    PROVE  TidyAt(p)'
<1>. USE DEF Stats!Goto, Stats!counters, Stats!table, Stats!locals, Stats!history
<1>1. /\ records \in [PIDs -> Seq(UserHash)] /\ pc \in [PIDs -> StatsLabels]
      /\ existing \in [PIDs -> Nat] /\ calls \in [PIDs -> Nat] /\ records[p] \in Seq(UserHash)
      /\ Len(records[p]) = 1 => 1 \in 1 .. Len(records[p]) /\ records[p][1] \in UserHash
  BY DEF StatsTyped
<1>2. CASE Stats!Lookup(p)
  <2>1. pc[p] = "outside" /\ (NoRecord(p) \/ OneRecord(p)) /\ UNCHANGED hashmap /\ UNCHANGED records
    BY <1>2 DEF Stats!Lookup, TidyAt
  <2>2. CASE NoRecord(p)
    <3>1. Stats!get(p) = 0 /\ Stats!NewReader(p, 0)
      BY <2>2, GetTidy DEF NoRecord, Stats!NewReader
    <3>2. pc'[p] = "loadUp" /\ existing'[p] = 0
      BY <1>1, <1>2, <3>1 DEF Stats!Lookup
    <3>3. NoRecord(p)'
      BY <2>1, <2>2, SameNodes DEF NoRecord
    <3>. QED
      BY <3>2, <3>3 DEF TidyAt
  <2>3. CASE OneRecord(p)
    <3>1. Stats!get(p) = 1 /\ (Stats!NewReader(p, 1) <=> records[p][1].finished)
      BY <2>3, GetTidy DEF OneRecord, Stats!NewReader
    <3>2. pc'[p] = (IF records[p][1].finished THEN "loadUp" ELSE "run") /\ existing'[p] = 1
      BY <1>1, <1>2, <3>1 DEF Stats!Lookup
    <3>3. OneRecord(p)' /\ records'[p][1].finished = records[p][1].finished
      BY <2>1, <2>3, SameNodes DEF OneRecord
    <3>. QED
      BY <3>2, <3>3 DEF TidyAt
  <2>. QED
    BY <2>1, <2>2, <2>3
<1>3. CASE Stats!StoreUp(p)
  <2>1. pc[p] = "storeUp" /\ UNCHANGED hashmap
    BY <1>3 DEF Stats!StoreUp
  <2>2. Stats!FreshRecord \in UserHash /\ ~Stats!FreshRecord.finished
    BY DEF Stats!FreshRecord, UserHash
  <2>3. CASE existing[p] = 0 /\ NoRecord(p)
    <3>1. /\ records' = [records EXCEPT ![p] = Append(records[p], Stats!FreshRecord)]
          /\ existing' = [existing EXCEPT ![p] = Len(records'[p])]
          /\ pc' = [pc EXCEPT ![p] = "loadHead"]
      BY <1>3, <2>3 DEF Stats!StoreUp
    <3>2. records'[p] = Append(<<>>, Stats!FreshRecord)
      BY <1>1, <2>3, <3>1 DEF NoRecord
    <3>3. Len(Append(<<>>, Stats!FreshRecord)) = 1 /\ Append(<<>>, Stats!FreshRecord)[1] = Stats!FreshRecord
      OBVIOUS
    <3>4. pc'[p] = "loadHead" /\ existing'[p] = 1 /\ Len(records'[p]) = 1 /\ ~records'[p][1].finished
      BY <1>1, <2>2, <3>1, <3>2, <3>3
    <3>5. Absent(p)'
      BY <2>1, <2>3, SameNodes DEF NoRecord
    <3>. QED
      BY <3>4, <3>5 DEF TidyAt
  <2>4. CASE existing[p] = 1 /\ OneRecord(p)
    <3>1. /\ records' = [records EXCEPT ![p] = [records[p] EXCEPT ![1] = Stats!FreshRecord]]
          /\ UNCHANGED existing /\ pc' = [pc EXCEPT ![p] = "run"]
      BY <1>3, <2>4 DEF Stats!StoreUp
    <3>2. records'[p] = [records[p] EXCEPT ![1] = Stats!FreshRecord] /\ Len(records[p]) = 1
      BY <1>1, <2>4, <3>1 DEF OneRecord
    <3>3. Len(records'[p]) = 1 /\ records'[p][1] = Stats!FreshRecord
      BY <1>1, <2>2, <3>2, Replaced
    <3>4. pc'[p] = "run" /\ existing'[p] = 1 /\ ~records'[p][1].finished
      BY <1>1, <2>2, <2>4, <3>1, <3>3
    <3>5. OneRecord(p)'
      BY <2>1, <2>4, <3>3, SameNodes DEF OneRecord
    <3>. QED
      BY <3>4, <3>5 DEF TidyAt
  <2>. QED
    BY <2>1, <2>3, <2>4 DEF TidyAt
<1>4. CASE Stats!StoreHead(p)
  <2>1. /\ pc[p] = "storeHead" /\ existing[p] = 1 /\ Absent(p) /\ Len(records[p]) = 1
        /\ ~records[p][1].finished
    BY <1>4 DEF Stats!StoreHead, TidyAt
  <2>2. pc'[p] = "run" /\ existing'[p] = 1 /\ records'[p] = records[p]
    BY <1>1, <1>4, <2>1 DEF Stats!StoreHead
  <2>3. head[p] = hashmap[Bucket[p]]
    BY <2>1 DEF HeadFresh
  <2>4. hashmap' = [hashmap EXCEPT ![Bucket[p]] = <<<<p, 1>>>> \o hashmap[Bucket[p]]]
    BY <1>4, <2>1, <2>3 DEF Stats!StoreHead
  <2>5. Present(p)'
    BY <2>1, <2>4, NodeAdded
  <2>. QED
    BY <2>1, <2>2, <2>5 DEF TidyAt, OneRecord
<1>5. CASE Stats!StoreBytes(p) \/ Stats!StoreDown(p)
  <2>1. pc[p] \in {"storeBytes", "storeDown"} /\ UNCHANGED hashmap /\ UNCHANGED existing
    BY <1>5 DEF Stats!StoreBytes, Stats!StoreDown
  <2>2. existing[p] = 1 /\ OneRecord(p)
    BY <2>1 DEF TidyAt
  <2>3. Len(records'[p]) = 1 /\ (Stats!StoreBytes(p) => ~records'[p][1].finished)
    BY <1>5, RecordStored
  <2>4. OneRecord(p)' /\ existing'[p] = 1
    BY <2>1, <2>2, <2>3, SameNodes DEF OneRecord
  <2>5. \/ pc'[p] = "outside"
        \/ pc'[p] = "loadDown" /\ Stats!StoreBytes(p)
    BY <1>1, <1>5 DEF Stats!StoreBytes, Stats!StoreDown
  <2>. QED
    BY <2>3, <2>4, <2>5 DEF TidyAt
<1>6. CASE Stats!LoadUp(p) \/ Stats!LoadHead(p)
  <2>1. /\ UNCHANGED hashmap /\ UNCHANGED records /\ UNCHANGED existing
        /\ \/ pc[p] = "loadUp" /\ pc'[p] = "storeUp"
           \/ pc[p] = "loadHead" /\ pc'[p] = "storeHead"
    BY <1>1, <1>6 DEF Stats!LoadUp, Stats!LoadHead
  <2>. QED
    BY <2>1, SameNodes DEF TidyAt, NoRecord, OneRecord
<1>7. CASE Stats!Run(p) \/ Stats!LoadBytes(p) \/ Stats!LoadDown(p)
  <2>1. /\ UNCHANGED hashmap /\ UNCHANGED records /\ UNCHANGED existing
        /\ \/ pc[p] = "run" /\ pc'[p] = "loadBytes"
           \/ pc[p] = "loadBytes" /\ pc'[p] = "storeBytes"
           \/ pc[p] = "loadDown" /\ pc'[p] = "storeDown"
    BY <1>1, <1>7 DEF Stats!Run, Stats!LoadBytes, Stats!LoadDown
  <2>. QED
    BY <2>1, SameNodes DEF TidyAt, OneRecord
<1>. QED
  BY <1>2, <1>3, <1>4, <1>5, <1>6, <1>7 DEF Stats!random_read

\* and for everybody else.
LEMMA TidyOthers ==
    ASSUME StatsConstants, StatsTyped, NEW p \in PIDs, Serial, Stats!random_read(p), ~overlap'
    PROVE  (\A q \in PIDs : TidyAt(q))' /\ OneInside' /\ HeadFresh'
<1>1. /\ TidyAt(p) /\ HeadFresh /\ OneInside
      /\ \A q \in PIDs \ {p} : TidyAt(q) /\ pc[q] = "outside" /\ pc'[q] = "outside"
  BY OthersOutside DEF Serial
<1>2. TidyAt(p)'
  BY <1>1, TidyStep
<1>3. ASSUME NEW q \in PIDs \ {p} PROVE TidyAt(q)'
  <2>1. calls'[q] = calls[q] /\ records'[q] = records[q]
    BY CallFrame
  <2>2. (Absent(q) => Absent(q)') /\ (Present(q) => Present(q)')
    <3>1. CASE UNCHANGED hashmap
      BY <3>1, SameNodes
    <3>2. CASE ~UNCHANGED hashmap
      <4>1. Stats!StoreHead(p)
        BY <3>2, CallFrame
      <4>2. existing[p] = 1 /\ head[p] = hashmap[Bucket[p]]
        BY <1>1, <4>1 DEF Stats!StoreHead, TidyAt, HeadFresh
      <4>3. hashmap' = [hashmap EXCEPT ![Bucket[p]] = <<<<p, 1>>>> \o hashmap[Bucket[p]]]
        BY <4>1, <4>2 DEF Stats!StoreHead
      <4>. QED
        BY <4>3, NodeAdded
    <3>. QED
      BY <3>1, <3>2
  <2>3. \/ calls[q] = 0 /\ NoRecord(q)
        \/ OneRecord(q)
    BY <1>1 DEF TidyAt
  <2>. QED
    BY <1>1, <2>1, <2>2, <2>3 DEF TidyAt, NoRecord, OneRecord
<1>4. OneInside'
  BY <1>1 DEF OneInside
<1>5. HeadFresh'
  <2>1. ASSUME pc'[p] = "storeHead" PROVE head'[p] = hashmap'[Bucket[p]]
    <3>1. Stats!LoadHead(p)
      BY <2>1 DEF Stats!random_read, Stats!Lookup, Stats!LoadUp, Stats!StoreUp, Stats!LoadHead, Stats!StoreHead,
                  Stats!Run, Stats!LoadBytes, Stats!StoreBytes, Stats!LoadDown, Stats!StoreDown, Stats!Goto,
                  StatsTyped
    <3>. QED
      BY <3>1 DEF Stats!LoadHead, StatsTyped, Stats!table
  <2>. QED
    BY <1>1, <2>1 DEF HeadFresh
<1>. QED
  BY <1>2, <1>3, <1>4, <1>5

\* The count of readers stays that of the active records,
LEMMA ReadersStep ==
    ASSUME StatsConstants, StatsTyped, NEW p \in PIDs, TidyAt(p), TidyAt(p)', ReadersTold,
           Stats!random_read(p), \A q \in PIDs \ {p} : pc'[q] = "outside"
    PROVE  ReadersTold'
<1>. DEFINE c == Cardinality(ActiveReaders)
<1>1. /\ \A q \in PIDs \ {p} : records'[q] = records[q]
      /\ IsFiniteSet(ActiveReaders) /\ c \in Nat /\ WORD \in Nat \ {0}
  <2>1. IsFiniteSet(ActiveReaders)
    BY FS_Subset DEF StatsConstants, ActiveReaders
  <2>. QED
    BY <2>1, CallFrame, FS_CardinalityType DEF StatsConstants
<1>2. pc \in [PIDs -> StatsLabels] /\ loaded \in [PIDs -> Nat]
  BY DEF StatsTyped
<1>3. \A q \in PIDs : Len(records[q]) = 1 => records[q] # <<>>
  OBVIOUS
<1>4. Len(records'[p]) = 1 => records'[p] # <<>>
  OBVIOUS
<1>5. reader_count = c % WORD
  BY DEF ReadersTold
<1>. HIDE DEF c
<1>6. CASE Stats!StoreUp(p)
  <2>1. pc[p] = "storeUp" /\ reader_count' = Stats!Wrapped(loaded[p] + 1) /\ pc'[p] \in {"loadHead", "run"}
    BY <1>2, <1>6 DEF Stats!StoreUp, Stats!Goto
  <2>2. loaded[p] = c % WORD
    BY <1>5, <2>1 DEF ReadersTold
  <2>3. p \notin ActiveReaders
    BY <2>1 DEF TidyAt, ActiveReaders, NoRecord
  <2>4. ActiveReaders' = ActiveReaders \cup {p}
    <3>1. records'[p] # <<>> /\ ~records'[p][1].finished
      BY <1>4, <2>1 DEF TidyAt, OneRecord
    <3>. QED
      BY <1>1, <3>1 DEF ActiveReaders
  <2>5. Cardinality(ActiveReaders') = c + 1
    BY <1>1, <2>3, <2>4, FS_AddElement DEF c
  <2>6. reader_count' = (c + 1) % WORD
    <3>1. ((c % WORD) + 1) % WORD = (c + 1) % WORD
      <4>1. c \in Int /\ 1 \in Int
        BY <1>1
      <4>. QED
        BY <1>1, <4>1, ModAdds, Zenon
    <3>. QED
      BY <2>1, <2>2, <3>1 DEF Stats!Wrapped
  <2>7. \A q \in PIDs : pc'[q] \notin {"storeUp", "storeDown"}
    BY <2>1
  <2>. QED
    BY <2>5, <2>6, <2>7 DEF ReadersTold
<1>7. CASE Stats!StoreDown(p)
  <2>1. pc[p] = "storeDown" /\ reader_count' = Stats!Wrapped(loaded[p] - 1) /\ pc'[p] = "outside"
    BY <1>2, <1>7 DEF Stats!StoreDown, Stats!Goto
  <2>2. loaded[p] = c % WORD
    BY <1>5, <2>1 DEF ReadersTold
  <2>3. p \in ActiveReaders
    BY <1>3, <2>1 DEF TidyAt, ActiveReaders, OneRecord
  <2>4. ActiveReaders' = ActiveReaders \ {p}
    <3>1. records'[p][1].finished
      BY <1>7, RecordStored
    <3>. QED
      BY <1>1, <3>1 DEF ActiveReaders
  <2>5. Cardinality(ActiveReaders') = c - 1
    BY <1>1, <2>3, <2>4, FS_RemoveElement DEF c
  <2>6. reader_count' = (c - 1) % WORD
    <3>1. ((c % WORD) + (-1)) % WORD = (c + (-1)) % WORD
      <4>1. c \in Int /\ -1 \in Int
        BY <1>1
      <4>. QED
        BY <1>1, <4>1, ModAdds, Zenon
    <3>2. (c % WORD) - 1 = (c % WORD) + (-1) /\ c - 1 = c + (-1)
      BY <1>1
    <3>. QED
      BY <2>1, <2>2, <3>1, <3>2 DEF Stats!Wrapped
  <2>7. \A q \in PIDs : pc'[q] \notin {"storeUp", "storeDown"}
    BY <2>1
  <2>. QED
    BY <2>5, <2>6, <2>7 DEF ReadersTold
<1>8. CASE Stats!StoreBytes(p)
  <2>1. pc[p] = "storeBytes" /\ reader_count' = reader_count /\ pc'[p] \in {"loadDown", "outside"}
    BY <1>2, <1>8 DEF Stats!StoreBytes, Stats!Goto
  <2>2. p \in ActiveReaders
    BY <1>3, <2>1 DEF TidyAt, ActiveReaders, OneRecord
  <2>3. ActiveReaders' = ActiveReaders
    <3>1. records'[p] # <<>> /\ ~records'[p][1].finished
      BY <1>4, <1>8, RecordStored
    <3>. QED
      BY <1>1, <2>2, <3>1 DEF ActiveReaders
  <2>4. \A q \in PIDs : pc'[q] \notin {"storeUp", "storeDown"}
    BY <2>1
  <2>. QED
    BY <2>1, <2>3, <2>4 DEF ReadersTold
<1>9. CASE Stats!LoadUp(p) \/ Stats!LoadDown(p)
  <2>1. loaded'[p] = reader_count /\ UNCHANGED reader_count /\ UNCHANGED records
    BY <1>2, <1>9 DEF Stats!LoadUp, Stats!LoadDown, Stats!counters, Stats!table
  <2>2. ActiveReaders' = ActiveReaders
    BY <2>1 DEF ActiveReaders
  <2>. QED
    BY <2>1, <2>2 DEF ReadersTold
<1>10. CASE Stats!Lookup(p) \/ Stats!LoadHead(p) \/ Stats!StoreHead(p) \/ Stats!Run(p) \/ Stats!LoadBytes(p)
  <2>1. UNCHANGED reader_count /\ UNCHANGED records
        /\ pc'[p] \in {"loadUp", "storeHead", "run", "loadBytes", "storeBytes"}
    BY <1>2, <1>10 DEF Stats!Lookup, Stats!LoadHead, Stats!StoreHead, Stats!Run, Stats!LoadBytes, Stats!Goto,
                       Stats!counters, Stats!table
  <2>2. ActiveReaders' = ActiveReaders
    BY <2>1 DEF ActiveReaders
  <2>3. \A q \in PIDs : pc'[q] \notin {"storeUp", "storeDown"}
    BY <2>1
  <2>. QED
    BY <2>1, <2>2, <2>3 DEF ReadersTold
<1>. QED
  BY <1>6, <1>7, <1>8, <1>9, <1>10 DEF Stats!random_read

\* and that of the bytes what the kernel has handed out, but for the result
\* that the call has not yet added.
LEMMA BytesStep ==
    ASSUME StatsConstants, StatsTyped, NEW p \in PIDs, BytesTold, ~failed',
           Stats!random_read(p), \A q \in PIDs \ {p} : pc[q] = "outside" /\ pc'[q] = "outside"
    PROVE  BytesTold'
<1>1. /\ WORD \in Nat \ {0} /\ all_bytes \in Int /\ delivered \in Int
      /\ pc \in [PIDs -> StatsLabels] /\ loaded \in [PIDs -> Nat] /\ bytes_read \in [PIDs -> Int]
  BY DEF StatsTyped, StatsConstants
<1>2. CASE Stats!Run(p)
  <2>1. PICK n \in Nat : /\ bytes_read' = [bytes_read EXCEPT ![p] = n]
                         /\ delivered' = delivered + n
    BY <1>2, NotFailed
  <2>2. n \in Int /\ delivered' = delivered + n
    BY <2>1
  <2>3. pc[p] = "run" /\ pc'[p] = "loadBytes" /\ bytes_read'[p] = n /\ all_bytes' = all_bytes
    BY <1>1, <1>2, <2>1 DEF Stats!Run, Stats!Goto, Stats!counters
  <2>4. all_bytes = delivered % WORD
    BY <2>3 DEF BytesTold
  <2>5. ((delivered % WORD) + n) % WORD = (delivered + n) % WORD
    BY <1>1, <2>2, ModAdds, Zenon
  <2>6. (all_bytes' + bytes_read'[p]) % WORD = delivered' % WORD
    BY <2>2, <2>3, <2>4, <2>5
  <2>. QED
    BY <2>3, <2>6 DEF BytesTold
<1>3. CASE Stats!LoadBytes(p)
  <2>1. /\ pc[p] = "loadBytes" /\ pc'[p] = "storeBytes" /\ loaded'[p] = all_bytes
        /\ bytes_read' = bytes_read /\ all_bytes' = all_bytes /\ delivered' = delivered
    BY <1>1, <1>3 DEF Stats!LoadBytes, Stats!Goto, Stats!counters, Stats!history
  <2>. QED
    BY <2>1 DEF BytesTold
<1>4. CASE Stats!StoreBytes(p)
  <2>1. /\ pc[p] = "storeBytes" /\ pc'[p] \in {"loadDown", "outside"}
        /\ all_bytes' = (loaded[p] + bytes_read[p]) % WORD /\ delivered' = delivered
    BY <1>1, <1>4 DEF Stats!StoreBytes, Stats!Goto, Stats!Wrapped, Stats!history
  <2>2. loaded[p] = all_bytes /\ (all_bytes + bytes_read[p]) % WORD = delivered % WORD
    BY <2>1 DEF BytesTold
  <2>3. all_bytes' = delivered' % WORD
    BY <2>1, <2>2, Zenon
  <2>. QED
    BY <2>1, <2>3 DEF BytesTold
<1>5. CASE Stats!Lookup(p) \/ Stats!LoadUp(p) \/ Stats!StoreUp(p) \/ Stats!LoadHead(p)
           \/ Stats!StoreHead(p) \/ Stats!LoadDown(p) \/ Stats!StoreDown(p)
  <2>1. /\ pc[p] \notin {"loadBytes", "storeBytes"} /\ pc'[p] \notin {"loadBytes", "storeBytes"}
        /\ all_bytes' = all_bytes /\ delivered' = delivered
    BY <1>1, <1>5 DEF Stats!Lookup, Stats!LoadUp, Stats!StoreUp, Stats!LoadHead, Stats!StoreHead, Stats!LoadDown,
                      Stats!StoreDown, Stats!Goto, Stats!counters, Stats!history
  <2>. QED
    BY <2>1 DEF BytesTold
<1>. QED
  BY <1>2, <1>3, <1>4, <1>5 DEF Stats!random_read

\* Without an overlap, the statistics are in step with the calls.
LEMMA NextSerial ==
    ASSUME StatsConstants, StatsTyped, ~overlap => Serial,
           [Stats!Next]_(Stats!vars), ~overlap'
    PROVE  Serial'
<1>1. CASE UNCHANGED <<all_bytes, reader_count, records, hashmap, pc, existing, head, loaded,
                       bytes_read, calls, delivered, failed, overlap>>
  <2>1. Serial
    BY <1>1
  <2>2. OneInside' /\ HeadFresh' /\ (~failed' => BytesTold')
    BY <1>1, <2>1 DEF Serial, OneInside, HeadFresh, BytesTold
  <2>3. ReadersTold'
    <3>1. ActiveReaders' = ActiveReaders
      BY <1>1 DEF ActiveReaders
    <3>. QED
      BY <1>1, <2>1, <3>1 DEF Serial, ReadersTold
  <2>4. ASSUME NEW p \in PIDs PROVE TidyAt(p)'
    <3>1. (Absent(p)' <=> Absent(p)) /\ (Present(p)' <=> Present(p))
      BY <1>1, SameNodes
    <3>. QED
      BY <1>1, <2>1, <3>1 DEF Serial, TidyAt, NoRecord, OneRecord
  <2>. QED
    BY <2>2, <2>3, <2>4 DEF Serial
<1>2. ASSUME NEW p \in PIDs, Stats!random_read(p) PROVE Serial'
  <2>1. Serial
    <3>1. CASE overlap
      BY <1>2, <3>1 DEF Stats!random_read, Stats!Lookup, Stats!LoadUp, Stats!StoreUp, Stats!LoadHead,
                        Stats!StoreHead, Stats!Run, Stats!LoadBytes, Stats!StoreBytes, Stats!LoadDown,
                        Stats!StoreDown, Stats!history
    <3>. QED
      BY <3>1
  <2>2. (\A q \in PIDs : TidyAt(q))' /\ OneInside' /\ HeadFresh'
    BY <1>2, <2>1, TidyOthers
  <2>3. \A q \in PIDs \ {p} : pc[q] = "outside" /\ pc'[q] = "outside"
    BY <1>2, <2>1, OthersOutside DEF Serial
  <2>4. TidyAt(p) /\ TidyAt(p)'
    BY <2>1, <2>2 DEF Serial
  <2>5. ReadersTold'
    BY <1>2, <2>1, <2>3, <2>4, ReadersStep DEF Serial
  <2>6. ASSUME ~failed' PROVE BytesTold'
    <3>1. BytesTold
      BY <1>2, <2>1, <2>6, NotFailed DEF Serial
    <3>. QED
      BY <1>2, <2>3, <2>6, <3>1, BytesStep
  <2>. QED
    BY <2>2, <2>5, <2>6 DEF Serial
<1>. QED
  BY <1>1, <1>2, StatsSteps

\* The nodes that are listed.
LEMMA ListedNodes ==
    ASSUME StatsTyped, NEW n
    PROVE  /\ n \in Stats!Listed <=> \E b \in Stats!Buckets : \E i \in 1 .. Len(hashmap[b]) : n = hashmap[b][i]
           /\ n \in Stats!Listed => n \in PIDs \X (Nat \ {0})
<1>1. ASSUME NEW b \in Stats!Buckets
      PROVE  DOMAIN hashmap[b] = 1 .. Len(hashmap[b])
             /\ \A i \in 1 .. Len(hashmap[b]) : hashmap[b][i] \in PIDs \X (Nat \ {0})
  <2>1. hashmap[b] \in Seq(PIDs \X (Nat \ {0}))
    BY DEF StatsTyped, NodeList
  <2>. QED
    BY <2>1
<1>2. n \in Stats!Listed <=> \E b \in Stats!Buckets : n \in Stats!Range(hashmap[b])
  BY DEF Stats!Listed
<1>3. \A b \in Stats!Buckets : n \in Stats!Range(hashmap[b]) <=> \E i \in 1 .. Len(hashmap[b]) : n = hashmap[b][i]
  BY <1>1 DEF Stats!Range
<1>. QED
  BY <1>1, <1>2, <1>3

\* The module's cardinality is that of the theorems about finite sets.
LEMMA SameCardinality == ASSUME NEW S PROVE Stats!Cardinality(S) = Cardinality(S)
BY DEF Stats!Cardinality, Cardinality

\* Between calls that do not overlap, the statistics are exact.
LEMMA SerialExact ==
    ASSUME StatsConstants, StatsTyped, Serial, Stats!NobodyInside
    PROVE  (~failed => Stats!AllBytesExact) /\ Stats!ReadersCounted /\ Stats!HistoryKept
<1>1. \A p \in PIDs : (calls[p] = 0 /\ NoRecord(p)) \/ OneRecord(p)
  BY DEF Serial, TidyAt, Stats!NobodyInside
<1>2. ~failed => Stats!AllBytesExact
  BY DEF Serial, BytesTold, Stats!AllBytesExact, Stats!NobodyInside
<1>3. ASSUME NEW p \in PIDs, NEW n \in Stats!Listed, n[1] = p PROVE OneRecord(p) /\ n = <<p, 1>>
  <2>1. PICK b \in Stats!Buckets : \E i \in 1 .. Len(hashmap[b]) : n = hashmap[b][i]
    BY ListedNodes
  <2>2. ~Absent(p)
    BY <1>3, <2>1 DEF Absent
  <2>3. OneRecord(p)
    BY <1>1, <2>2 DEF NoRecord
  <2>4. n[2] = 1
    BY <1>3, <2>1, <2>3 DEF OneRecord, Present
  <2>5. n \in PIDs \X (Nat \ {0})
    BY ListedNodes
  <2>. QED
    BY <1>3, <2>3, <2>4, <2>5
<1>4. ASSUME NEW p \in PIDs, OneRecord(p) PROVE <<p, 1>> \in Stats!Listed
  <2>1. Bucket[p] \in Stats!Buckets
    BY DEF Stats!Buckets
  <2>. QED
    BY <1>4, <2>1, ListedNodes DEF OneRecord, Present
<1>5. Stats!HistoryKept
  <2>1. SUFFICES ASSUME NEW p \in PIDs, calls[p] > 0
                 PROVE  Cardinality({n \in Stats!Listed : n[1] = p}) = 1
    BY SameCardinality DEF Stats!HistoryKept
  <2>2. OneRecord(p)
    BY <1>1, <2>1
  <2>3. {n \in Stats!Listed : n[1] = p} = {<<p, 1>>}
    BY <1>3, <1>4, <2>2
  <2>. QED
    BY <2>3, FS_Singleton
<1>6. Stats!ReadersCounted
  <2>. DEFINE A == {n \in Stats!Listed : ~records[n[1]][n[2]].finished}
  <2>1. ASSUME NEW n \in A PROVE n \in ActiveReaders \X {1}
    <3>1. PICK p \in PIDs : n[1] = p
      BY ListedNodes
    <3>2. OneRecord(p) /\ n = <<p, 1>>
      BY <1>3, <3>1
    <3>3. records[p] # <<>> /\ ~records[p][1].finished
      BY <3>2 DEF OneRecord
    <3>. QED
      BY <3>2, <3>3 DEF ActiveReaders
  <2>2. ASSUME NEW p \in ActiveReaders PROVE <<p, 1>> \in A
    <3>1. p \in PIDs /\ OneRecord(p) /\ ~records[p][1].finished
      BY <1>1 DEF ActiveReaders, NoRecord
    <3>. QED
      BY <1>4, <3>1
  <2>3. A = ActiveReaders \X {1}
    <3>. HIDE DEF A
    <3>. QED
      BY <2>1, <2>2
  <2>4. Cardinality(ActiveReaders \X {1}) = Cardinality(ActiveReaders)
    <3>1. IsFiniteSet(ActiveReaders) /\ IsFiniteSet({1}) /\ Cardinality({1}) = 1
      BY FS_Subset, FS_Singleton DEF StatsConstants, ActiveReaders
    <3>2. Cardinality(ActiveReaders) \in Nat
      BY <3>1, FS_CardinalityType
    <3>3. Cardinality(ActiveReaders \X {1}) = Cardinality(ActiveReaders) * Cardinality({1})
      BY <3>1, FS_Product
    <3>. QED
      BY <3>1, <3>2, <3>3
  <2>. QED
    <3>1. reader_count = Cardinality(A) % WORD
      BY <2>3, <2>4, Zenon DEF Serial, ReadersTold
    <3>2. Stats!Cardinality(A) = Cardinality(A)
      BY SameCardinality
    <3>. QED
      BY <3>1, <3>2, Zenon DEF Stats!ReadersCounted
<1>. QED
  BY <1>2, <1>5, <1>6

\* As long as no call has overlapped another, between calls the counter of
\* readers is exact, each process that has read has one record and, unless a
\* call has failed, the counter of bytes is exact.
THEOREM SerialCallsExact ==
    ASSUME StatsConstants
    PROVE  Stats!Spec => []Stats!ExactWhileSerial
<1>. DEFINE I == StatsTyped /\ (~overlap => Serial)
<1>1. Stats!Init => I
  <2>1. SUFFICES ASSUME Stats!Init PROVE Serial
    BY StatsInit
  <2>. USE DEF Stats!Init
  <2>2. OneInside /\ HeadFresh
    BY <2>1 DEF OneInside, HeadFresh
  <2>3. 0 % WORD = 0
    BY DEF StatsConstants
  <2>4. ReadersTold
    <3>1. ActiveReaders = {}
      BY <2>1 DEF ActiveReaders
    <3>. QED
      BY <2>1, <2>3, <3>1, FS_EmptySet DEF ReadersTold
  <2>5. BytesTold
    BY <2>1, <2>3 DEF BytesTold
  <2>6. \A p \in PIDs : TidyAt(p)
    BY <2>1 DEF TidyAt, NoRecord, Absent
  <2>. QED
    BY <2>2, <2>4, <2>5, <2>6 DEF Serial
<1>2. I /\ [Stats!Next]_(Stats!vars) => I'
  BY NextStatsTyped, NextSerial
<1>3. I => Stats!ExactWhileSerial
  BY SerialExact DEF Stats!ExactWhileSerial
<1>. QED
  BY <1>1, <1>2, <1>3, PTL DEF Stats!Spec
=============================================================================
