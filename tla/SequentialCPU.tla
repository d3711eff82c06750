---------------------------- MODULE SequentialCPU ----------------------------
(***************************************************************************)
(* What a program means: instructions are executed one after the other.    *)
(* This is the single-cycle CPU (SingleCycleDatapath::evaluate executes    *)
(* the instruction at the PC completely in one clock), and it is what the  *)
(* overlapping organisations have to look like from outside.               *)
(*                                                                         *)
(* A step retires between 1 and Width instructions: Width is 1 for the     *)
(* single-cycle CPU and 2 for the superscalar one.  InsnBytes and          *)
(* WordBytes are the distance of two instructions and of two data words:   *)
(* 1 and 1 in the single-cycle CPU, which counts slots, 4 and 4 in the     *)
(* superscalar one, which counts bytes.                                    *)
(*                                                                         *)
(* SplitMemory tells the two data memories apart.  The one of the scalar   *)
(* CPUs is wired to the low address bits only, so addresses wrap, and its  *)
(* lower half is ROM, which ignores stores.  In the superscalar CPU every  *)
(* word can be stored to; an address outside reads 0 and drops its stores. *)
(*                                                                         *)
(* UnifiedMemory is for the multi-cycle CPU, whose ROM half is where the   *)
(* program is.  Instruction addresses wrap there too; loads from the ROM   *)
(* half read instruction words, of which Word keeps the lowest bits; and   *)
(* what is fetched from the RAM half is a NOP, as a Word has no opcode.    *)
(***************************************************************************)
EXTENDS Isa, Sequences

CONSTANTS Width, InsnBytes, WordBytes, DataWords, SplitMemory,
          UnifiedMemory,
          Programs      \* the programs explored, each a sequence of instructions

VARIABLES rom,          \* the program
          pc,           \* the next instruction, Stopped after HALT
          regs, mem

vars == <<rom, pc, regs, mem>>

Stopped == -1

(* Instruction memory: zeroed past the program's end. *)
InstructionAt(program, p) ==
    LET slot == (IF UnifiedMemory THEN p % DataWords ELSE p) \div InsnBytes + 1
    IN  IF slot \in DOMAIN program THEN program[slot] ELSE Nop

DataIndex(addr) ==
    IF SplitMemory THEN (addr \div WordBytes) % DataWords ELSE addr \div WordBytes

ReadData(m, addr) == IF DataIndex(addr) \in DOMAIN m THEN m[DataIndex(addr)] ELSE 0

Writable(i) == SplitMemory => i >= DataWords \div 2

WriteData(m, addr, v) ==
    [i \in DOMAIN m |-> IF i = DataIndex(addr) /\ Writable(i) THEN v ELSE m[i]]

(* The memory before the first store. *)
AsData(ins) == ins.imm % WordMod

LoadedMemory(program) ==
    [i \in 0 .. DataWords - 1 |->
        IF UnifiedMemory THEN AsData(InstructionAt(program, i)) ELSE 0]

(* The effect of one instruction on an architectural state [pc, regs, mem]. *)
Execute(ins, s) ==
    LET a == s.regs[ins.rs1]
        b == s.regs[ins.rs2]
        addr == EffectiveAddress(ins, a)
    IN  [pc   |-> CASE ins.op = "HALT" -> Stopped
                    [] IsControlFlow(ins) /\ Taken(ins, a, b) -> Target(ins, s.pc)
                    [] OTHER -> (s.pc + InsnBytes) % PcMod,
         regs |-> CASE ins.op \in AluOps -> [s.regs EXCEPT ![ins.rd] = AluResult(ins, a, b)]
                    [] ins.op = "LW"     -> [s.regs EXCEPT ![ins.rd] = ReadData(s.mem, addr)]
                    [] OTHER -> s.regs,
         mem  |-> IF ins.op = "SW" THEN WriteData(s.mem, addr, b) ELSE s.mem]

(* k instructions from state s. *)
After(s, k) ==
    LET run[i \in 0 .. k] ==
          IF i = 0 THEN s
          ELSE IF run[i - 1].pc = Stopped THEN run[i - 1]
          ELSE Execute(InstructionAt(rom, run[i - 1].pc), run[i - 1])
    IN  run[k]

Init == /\ rom \in Programs
        /\ pc = 0
        /\ regs = [r \in Register |-> 0]
        /\ mem = LoadedMemory(rom)

Retire(k) == /\ pc # Stopped
             /\ [pc |-> pc', regs |-> regs', mem |-> mem'] =
                   After([pc |-> pc, regs |-> regs, mem |-> mem], k)
             /\ UNCHANGED rom

Next == \E k \in 1 .. Width : Retire(k)

Spec == Init /\ [][Next]_vars

(* reset(): execution starts over.  Whether the data memory keeps its words *)
(* is decided by the memory primitive.                                      *)
Restart == /\ pc' = 0
           /\ regs' = [r \in Register |-> 0]
           /\ mem' \in [DOMAIN mem -> Word]
           /\ UNCHANGED rom

RestartableSpec == Init /\ [][Next \/ Restart]_vars
=============================================================================
