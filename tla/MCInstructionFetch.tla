--------------------------- MODULE MCInstructionFetch ---------------------------
(***************************************************************************)
(* A ROM in which every instruction is different.                          *)
(***************************************************************************)
EXTENDS InstructionFetch

NumberedRom == [i \in 0 .. RomWords - 1 |-> i + 1]
=============================================================================
