------------------------------ MODULE CodeCopy ------------------------------
(***************************************************************************)
(* The computations of project/symbols.c and project/hijacks.c: where a    *)
(* symbol begins and ends, where an instruction leads that names its       *)
(* target by the distance from its own end, and what becomes of that       *)
(* distance when the instruction is copied to another place.               *)
(*                                                                         *)
(* An address has 64 bits and a distance 32, sign-extended; on a 32-bit    *)
(* kernel both have 32 and the computations are the same.                  *)
(***************************************************************************)
EXTENDS Integers, Sequences

CONSTANTS ADDRESSES,   \* the number of addresses: 2^64
          REACH,       \* how far a distance reaches: half the number of distances, 2^31
          OP_JMP_SIZE  \* the length of a jump

ASSUME CodeAssumption ==
    /\ REACH \in Nat \ {0}
    /\ ADDRESSES \in Nat
    /\ 2 * REACH <= ADDRESSES
    /\ OP_JMP_SIZE \in 1 .. REACH

\* The kernel's text and data and those of its modules: the end of the address
\* space, as much of it as a distance reaches.
KernelSpace == ADDRESSES - REACH .. ADDRESSES - 1

------------------------------------------------------------------------------
(* find_symbol_address()                                                   *)

\* kallsyms_on_each_symbol hands the entries of the table to the callback one
\* after the other.  The first with the name is the symbol, the one after it,
\* whatever it is, its end; a symbol at the end of the table is not found.
IsSymbol(kallsyms, name, i) ==
    /\ i \in 1 .. Len(kallsyms) - 1
    /\ kallsyms[i].name = name
    /\ \A j \in 1 .. i - 1 : kallsyms[j].name # name

\* sym->size is an unsigned long.
SymbolAt(kallsyms, i) ==
    [addr |-> kallsyms[i].addr, size |-> (kallsyms[i + 1].addr - kallsyms[i].addr) % ADDRESSES]

------------------------------------------------------------------------------
(* copy_and_fixup_insn()                                                   *)

\* The cast to s32.
Signed(offset) == IF offset < REACH THEN offset ELSE offset - 2 * REACH

CODE_ADDR_FROM_OFFSET(insn_addr, insn_len, offset) ==
    (insn_addr + insn_len + Signed(offset)) % ADDRESSES

\* Mutation: the distance is taken from the beginning of the instruction.
OffsetFromStart(insn_addr, insn_len, dest_addr) == (dest_addr - insn_addr) % (2 * REACH)

CODE_OFFSET_FROM_ADDR(insn_addr, insn_len, dest_addr) ==
    (dest_addr - (insn_addr + insn_len)) % (2 * REACH)

\* The instructions that name a target by a distance: e8 and e9, those relative
\* to the instruction pointer, and the conditional jumps.
Opcodes == {"call", "jmp", "rip_relative", "jcc"}

\* Those whose distance is looked at when they are copied.
FixedUp == {"call", "jmp", "rip_relative"}

\* The addresses of the function sym.
Inside(sym) == sym.addr .. sym.addr + sym.size - 1

\* The instructions that the function may contain.
Instructions(sym) ==
    {insn \in [addr : Inside(sym), length : 1 .. sym.size, opcode : Opcodes,
               offset : 0 .. 2 * REACH - 1] :
        insn.addr + insn.length <= sym.addr + sym.size}

Target(insn) == CODE_ADDR_FROM_OFFSET(insn.addr, insn.length, insn.offset)

\* The copy of insn at dest.  The distance stays as it is if the target is in
\* the function, and is computed anew if it is not.
copy_and_fixup_insn(insn, dest, sym) ==
    [addr |-> dest, length |-> insn.length, opcode |-> insn.opcode,
     offset |-> IF insn.opcode \notin FixedUp \/ Target(insn) \in Inside(sym)
                THEN insn.offset
                ELSE CODE_OFFSET_FROM_ADDR(dest, insn.length, Target(insn))]
=============================================================================
