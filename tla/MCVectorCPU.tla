----------------------------- MODULE MCVectorCPU -----------------------------
(* Instances of VectorCPU for TLC: every register in every role, in place   *)
(* too, and words that are no vector instructions.                          *)
EXTENDS VectorCPU

MCWord == {0, 1}

MCLaneOp(op, v, w) == CASE op = 0 -> (v + w) % 2
                        [] op = 2 -> v * w
                        [] OTHER  -> 1 - v

MCInstruction ==
    [rd : Register, rs1 : Register, rs2 : Register, funct3 : {0, 2}, vector : {TRUE}]
    \cup [rd : {0}, rs1 : {1}, rs2 : {1}, funct3 : {4, 5}, vector : BOOLEAN]

MCAVL == {0, 1, 3, 9, Unknown}
MCSEW == {0, 2, 3, Unknown}
=============================================================================
