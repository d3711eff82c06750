------------------------------ MODULE MCMultiCycle ------------------------------
(***************************************************************************)
(* The programs on which TLC runs the multi-cycle CPU: two registers are   *)
(* set, one of them to an address in RAM, and behind that comes every      *)
(* sequence of n instructions.                                             *)
(***************************************************************************)
EXTENDS MultiCycleProperties, Mnemonics, Sequences

FreeCode == {ADD(1, 1, 2), ADDI(2, 2, 1),
             LW(1, 2, 0), LW(2, 1, 0), SW(1, 2, 0), SW(2, 1, 1),
             BEQ(1, 2, 1), BNE(1, 2, -3), J(4)}

MultiCyclePrograms(n) ==
    {<<LI(1, 3), LI(2, DataWords - 1)>> \o p \o <<HALT, SW(2, 2, 0)>> : p \in [1 .. n -> FreeCode]}

(* The operations FreeCode leaves out. *)
EveryOpcode == <<LI(1, 5), LI(2, 3), Instr("AND", 0, 1, 2, 0), Instr("OR", 2, 0, 1, 0),
                 Instr("XOR", 1, 2, 0, 0), Instr("NOT", 2, 1, 0, 0),
                 Instr("SUB", 0, 2, 1, 0), BNE(0, 1, -2)>>

MultiCyclePrograms4 == MultiCyclePrograms(4) \cup {EveryOpcode}
=============================================================================
