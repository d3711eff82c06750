----------------------------- MODULE MCSuperScalar -----------------------------
(***************************************************************************)
(* Program classes on which TLC runs the superscalar CPU.                  *)
(***************************************************************************)
EXTENDS SuperScalarProperties, Mnemonics

(* What a slot of the reorder buffer holds after Entry{}. *)
ZeroEntry == [pc |-> 0, ins |-> Nop, prd |-> 0, old |-> 0, cp |-> << >>]

(* Programs over aligned addresses: every order of dependent arithmetic,    *)
(* stores whose address is known late, and loads.  In front of them is a    *)
(* pair of NOPs, which moves the head of the reorder buffer off slot 0, or  *)
(* a backlog of branches that are not taken, which keeps the stores from    *)
(* retiring while the loads execute.                                        *)
MemoryCode == {LI(1, 4), ADDI(0, 0, 8), ADD(1, 0, 1),
               SW(1, 0, 0), SW(0, 1, 4), LW(0, 1, 0), LW(1, 0, 0)}

Backlog == <<ADDI(0, 0, 4), Nop>> \o [k \in 1 .. 4 |-> BNE(0, 0, 8)]

MemoryPrograms(n) == {front \o p \o <<HALT>> : front \in {<<Nop, Nop>>, Backlog},
                                              p \in [1 .. n -> MemoryCode]}

MemoryPrograms4 == MemoryPrograms(4)

(* Branching programs: forward branches, loops of one to three              *)
(* instructions, branches back to back, and operands that are late.         *)
(* Recovery restores what it should as long as no register is written in    *)
(* the instruction behind a branch, so these programs write none there;     *)
(* WriterInBundle does.                                                     *)
BranchCode == {LI(1, 1), ADDI(0, 0, 1), ADD(1, 0, 1), Nop,
               BNE(0, 1, 8), BEQ(0, 1, -8), BNE(0, 1, -4), BEQ(0, 0, 12)}

WritesBehindBranch(p) ==
    \E k \in 1 .. Len(p) - 1 : p[k].op \in BranchOps /\ WritesRegister(p[k + 1])

TargetsInside(p) ==
    \A k \in DOMAIN p : p[k].op \in BranchOps =>
        (k - 1) * InsnBytes + p[k].imm \in 0 .. Len(p) * InsnBytes

BranchPrograms(n) ==
    {Append(p, HALT) : p \in {q \in [1 .. n -> BranchCode] :
                                  TargetsInside(q) /\ ~WritesBehindBranch(q)}}

(* Loads leave one per cycle and enter two per cycle: the branch that waits *)
(* for the last one has a bundle behind it that finds too few free          *)
(* registers, and behind that a HALT on the wrong path.                     *)
WrongPath == [k \in 1 .. 5 |-> LW(0, 0, 0)]
                 \o <<BEQ(0, 0, 12), LI(1, 1), LI(1, 2), HALT>>

BranchPrograms4 == BranchPrograms(4) \cup {WrongPath}

-----------------------------------------------------------------------------
(* Programs that reach a disagreement between the code and what its         *)
(* comments and tests say.                                                  *)

(* A dependent chain makes the branch behind it late, so that the bundle    *)
(* behind the branch is dispatched before the branch is taken over it.      *)
LateBranch == <<ADDI(0, 0, 1), ADDI(0, 0, 1), ADDI(0, 0, 1), BEQ(0, 0, 12)>>

StoreInShadow == {LateBranch \o <<SW(0, 1, 0), LW(1, 1, 0), HALT>>}

(* A branch in the first lane with a writer in the second one. *)
WriterInBundle ==
    {<<Nop, ADDI(1, 1, 1), BEQ(1, 1, 8), LI(1, 2), HALT>>,
     <<BNE(0, 0, 8), BNE(0, 0, 8), BNE(0, 0, 8), LI(1, 1), BEQ(0, 0, 8), LI(1, 2), HALT>>}

(* Loads leave one per cycle and enter two per cycle. *)
LoadBacklog ==
    {[k \in 1 .. 4 |-> LW(0, 0, 0)] \o <<Nop, LI(1, 1), ADD(0, 1, 1), HALT>>}
=============================================================================
