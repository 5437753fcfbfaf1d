---------------------------- MODULE HijackedCode ----------------------------
(***************************************************************************)
(* The hook of project/ (module FunctionHook) together with what it knows  *)
(* of the function it hooks (module CodeCopy): the symbol is looked up in  *)
(* the table of the kernel's symbols, memory is found for the copy, and    *)
(* the function, if it is long enough, is copied and patched.              *)
(*                                                                         *)
(* The steps are those of FunctionHook; here it is also said which of them *)
(* are taken for which table, and where function and copy lie.             *)
(***************************************************************************)
EXTENDS FunctionHook, CodeCopy

CONSTANTS Tables,  \* the tables of symbols that a kernel may have
          Rooms,   \* the addresses at which module_alloc may find memory
          hook     \* the address of the function of the module

ASSUME TablesAssumption ==
    /\ \A kallsyms \in Tables : kallsyms \in Seq([name : STRING, addr : KernelSpace])
    /\ Rooms \subseteq KernelSpace
    /\ hook \in KernelSpace

VARIABLES kallsyms,  \* the table of symbols
          sym        \* the fields of sym_random_read: addr, size and new_addr

hijackedVars == <<vars, kallsyms, sym>>

NoSymbol == [addr |-> 0, size |-> 0, new_addr |-> 0]

HijackedInit ==
    /\ Init
    /\ kallsyms \in Tables
    /\ sym = NoSymbol

\* module_alloc finds size bytes beside the function.
Room(found) ==
    {a \in Rooms : /\ a + found.size <= ADDRESSES
                   /\ a + found.size <= found.addr \/ found.addr + found.size <= a}

\* The symbol is the one at i, and its copy is to be at new_addr, if at all.
SetSymbol(i, new_addr) ==
    LET found == SymbolAt(kallsyms, i)
    IN  sym' = [addr |-> found.addr, size |-> found.size, new_addr |-> new_addr]

Lookup ==
    \/ /\ \A i \in DOMAIN kallsyms : ~IsSymbol(kallsyms, "random_read", i)
       /\ loader' = "in"
       /\ run' = "nothing"
       /\ UNCHANGED sym
    \/ \E i \in DOMAIN kallsyms :
        /\ IsSymbol(kallsyms, "random_read", i)
        /\ \/ /\ loader' = "in"
              /\ run' = "function"
              /\ SetSymbol(i, 0)
           \/ /\ loader' = "copy"
              /\ \E a \in Room(SymbolAt(kallsyms, i)) : SetSymbol(i, a)

\* Mutation: a symbol of any length is patched.
AnyLength == TRUE

LongEnough == sym.size >= OP_JMP_SIZE

\* What a step of the loader has to do with the symbol.
SymbolStep ==
    \/ loader = "out" /\ sym' = NoSymbol
    \/ loader = "find" /\ Lookup
    \/ loader = "copy" /\ (loader' \in {"patch", "dead"} => LongEnough) /\ UNCHANGED sym
    \/ loader \notin {"out", "find", "copy"} /\ UNCHANGED sym

HijackedNext ==
    /\ Next
    /\ IF UNCHANGED loader THEN UNCHANGED sym ELSE SymbolStep
    /\ UNCHANGED kallsyms

HijackedSpec == HijackedInit /\ [][HijackedNext]_hijackedVars

------------------------------------------------------------------------------
(* Properties                                                              *)

\* Where the copy of insn leads.
CopyTarget(insn) ==
    Target(copy_and_fixup_insn(insn, insn.addr - sym.addr + sym.new_addr, sym))

\* When the function is patched, each instruction of the copy leads where that
\* of the function leads, or, if this is in the function, to the same place in
\* the copy.  This is not so for conditional jumps out of the function, which
\* are not fixed up.  And the jump that is written leads to the hook.
CopyKeepsTargets ==
    loader = "patch" =>
        /\ \A insn \in Instructions(sym) :
              Target(insn) \in KernelSpace =>
                 IF Target(insn) \in Inside(sym)
                 THEN CopyTarget(insn) = Target(insn) - sym.addr + sym.new_addr
                 ELSE insn.opcode \in FixedUp => CopyTarget(insn) = Target(insn)
        /\ CODE_ADDR_FROM_OFFSET(sym.addr, OP_JMP_SIZE,
               CODE_OFFSET_FROM_ADDR(sym.addr, OP_JMP_SIZE, hook)) = hook

\* The jump is written over bytes of random_read alone: the function that is
\* patched has its name, and the next in the table is not touched.
PatchInsideFunction ==
    text # Own =>
        \E i \in 1 .. Len(kallsyms) - 1 :
            /\ kallsyms[i].name = "random_read"
            /\ kallsyms[i].addr = sym.addr
            /\ kallsyms[i + 1].addr \notin sym.addr .. sym.addr + OP_JMP_SIZE - 1
============================================================================
