------------------------------ MODULE MCPipelined ------------------------------
(***************************************************************************)
(* The programs on which TLC runs the pipeline: the first two instructions *)
(* set two registers, and behind them comes every sequence of n            *)
(* instructions, so that any producer meets any consumer at every distance *)
(* the forwarding paths tell apart.                                        *)
(***************************************************************************)
EXTENDS PipelinedProperties, Mnemonics, Sequences

FreeCode == {ADD(1, 1, 2), ADDI(2, 2, 1),
             LW(1, 2, 0), LW(2, 1, 0), SW(1, 2, 0), SW(2, 1, 1),
             BEQ(1, 2, 1), BNE(1, 2, -3), J(1)}

PipelinedPrograms(n) ==
    {<<LI(1, 2), LI(2, 3)>> \o p \o <<HALT, SW(2, 2, 0), HALT>> : p \in [1 .. n -> FreeCode]}

(* The operations FreeCode leaves out, with a BEQ back that is not taken. *)
EveryOpcode == <<LI(1, 5), LI(2, 3), Instr("AND", 0, 1, 2, 0), Instr("OR", 2, 0, 1, 0),
                 Instr("XOR", 1, 2, 0, 0), Instr("NOT", 2, 1, 0, 0),
                 Instr("SUB", 0, 2, 1, 0), Nop, BNE(0, 0, 1), BEQ(1, 2, -5), HALT>>

PipelinedPrograms4 == PipelinedPrograms(4) \cup {EveryOpcode}
=============================================================================
