------------------------------- MODULE Mnemonics -------------------------------
(***************************************************************************)
(* Short names for the instructions of the programs TLC runs, and the      *)
(* bitwise operations it evaluates them with.                              *)
(***************************************************************************)
EXTENDS Isa, Bitwise

WordAnd(x, y) == x & y
WordOr(x, y)  == x | y
WordXor(x, y) == x ^^ y

HALT == Instr("HALT", 0, 0, 0, 0)
LI(rd, imm)         == Instr("LI", rd, 0, 0, imm)
ADDI(rd, rs, imm)   == Instr("ADDI", rd, rs, 0, imm)
ADD(rd, a, b)       == Instr("ADD", rd, a, b, 0)
LW(rd, base, imm)   == Instr("LW", rd, base, 0, imm)
SW(data, base, imm) == Instr("SW", 0, base, data, imm)
BEQ(a, b, imm)      == Instr("BEQ", 0, a, b, imm)
BNE(a, b, imm)      == Instr("BNE", 0, a, b, imm)
J(imm)              == Instr("J", 0, 0, 0, imm)
=============================================================================
