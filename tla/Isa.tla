--------------------------------- MODULE Isa ---------------------------------
(***************************************************************************)
(* The instruction set every CPU organisation of the repository executes   *)
(* (include/isa), as the datapaths see it after decoding: an instruction   *)
(* is a record of its opcode, its three register fields, and its sign-     *)
(* extended immediate.  Words and addresses wrap at WordMod, program       *)
(* counters at PcMod; in the code both are 2^32.                           *)
(***************************************************************************)
EXTENDS Integers

CONSTANTS NumRegisters,   \* REGISTER_COUNT, 16 in the code
          WordMod,        \* number of word values
          PcMod,          \* number of program counter values
          TargetBase,     \* where branch offsets start: 0 at the branch itself,
                          \* 1 at the instruction behind it (scalar CPUs)
          JumpsAbsolute,  \* whether J names an instruction or an offset
          BitAnd(_, _), BitOr(_, _), BitXor(_, _)   \* &, | and ^ of words

Register == 0 .. NumRegisters - 1
Word     == 0 .. WordMod - 1

(* The bitwise operations of two words give a word. *)
ASSUME BitwiseAssumption ==
    \A x, y \in Word : {BitAnd(x, y), BitOr(x, y), BitXor(x, y)} \subseteq Word

Instr(op, rd, rs1, rs2, imm) ==
    [op |-> op, rd |-> rd, rs1 |-> rs1, rs2 |-> rs2, imm |-> imm]

(* The all-zero word: what the instruction memory holds past the program. *)
Nop == Instr("NOP", 0, 0, 0, 0)

TwoSourceAlu == {"ADD", "SUB", "AND", "OR", "XOR"}
AluOps       == TwoSourceAlu \cup {"NOT", "LI", "ADDI"}
BranchOps    == {"BEQ", "BNE"}
Opcode       == AluOps \cup BranchOps \cup {"LW", "SW", "J", "NOP", "HALT"}

Instruction == [op : Opcode, rd : Register, rs1 : Register, rs2 : Register, imm : Int]

WritesRegister(ins) == ins.op \in AluOps \cup {"LW"}
ReadsRs1(ins) == ins.op \in TwoSourceAlu \cup BranchOps \cup {"NOT", "ADDI", "LW", "SW"}
ReadsRs2(ins) == ins.op \in TwoSourceAlu \cup BranchOps \cup {"SW"}
IsControlFlow(ins) == ins.op \in BranchOps \cup {"J"}

(* The result of an ALU instruction for the values of its two sources. *)
AluResult(ins, a, b) ==
    CASE ins.op = "ADD"  -> (a + b) % WordMod
      [] ins.op = "SUB"  -> (a - b) % WordMod
      [] ins.op = "AND"  -> BitAnd(a, b)
      [] ins.op = "OR"   -> BitOr(a, b)
      [] ins.op = "XOR"  -> BitXor(a, b)
      [] ins.op = "NOT"  -> WordMod - 1 - a
      [] ins.op = "LI"   -> ins.imm % WordMod
      [] ins.op = "ADDI" -> (a + ins.imm) % WordMod

(* Base plus immediate. *)
EffectiveAddress(ins, a) == (a + ins.imm) % WordMod

(* The comparison subtracts and looks at the zero flag. *)
Taken(ins, a, b) == CASE ins.op = "BEQ" -> a = b
                      [] ins.op = "BNE" -> a # b
                      [] ins.op = "J"   -> TRUE

Target(ins, pc) ==
    IF JumpsAbsolute /\ ins.op = "J" THEN ins.imm % PcMod ELSE (pc + TargetBase + ins.imm) % PcMod
=============================================================================
