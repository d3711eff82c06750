-------------------------- MODULE MCIntegerBackEnd --------------------------
(* Instances of IntegerBackEnd for TLC: three instructions over two         *)
(* registers that read, write and branch on each other.                     *)
EXTENDS IntegerBackEnd

Ins(op, rd, rs1, use1, rs2, use2, write, branch, predicted) ==
    [op |-> op, rd |-> rd, rs1 |-> rs1, use1 |-> use1, rs2 |-> rs2, use2 |-> use2,
     write |-> write, branch |-> branch, predicted |-> predicted, alu |-> ~branch]

MCInstruction == {Ins("NOT", 0, 1, TRUE, 0, FALSE, TRUE, FALSE, FALSE),
                  Ins("XOR", 1, 0, TRUE, 1, TRUE, TRUE, FALSE, FALSE),
                  Ins("BEQ", 0, 0, TRUE, 1, TRUE, FALSE, TRUE, FALSE)}

MCValue == {0, 1}

MCAlu(i, v, w) == IF i.op = "NOT" THEN 1 - v ELSE (v + w) % 2

MCTaken(i, v, w) == v = w
=============================================================================
