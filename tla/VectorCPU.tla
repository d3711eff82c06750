------------------------------ MODULE VectorCPU ------------------------------
(***************************************************************************)
(* The vector CPU: VectorControlUnit, VectorConfigurationUnit and          *)
(* VectorDatapath.  The repository has no file that joins them; here the   *)
(* ports of the same name are joined (rs1, rs2, rd, vl, the operation and  *)
(* the write enable), and the configuration unit and the datapath see      *)
(* their clock edges independently of each other.                          *)
(*                                                                         *)
(* A register of Logic.cpp is a master, which follows its input while the  *)
(* clock is low, and an output, which takes the master when it is high.    *)
(* Evaluating a unit with the clock low is therefore one action and with   *)
(* the clock high another; they may come in any order and any number.      *)
(***************************************************************************)
EXTENDS Integers

CONSTANTS NumRegisters,         \* 32 in the code
          Lanes,                \* 4
          Word,                 \* what a lane holds
          LaneOp(_, _, _),      \* logic::ALU on an operation code and two words
          Instruction,          \* instruction words, fields extracted
          AVL, SEW,             \* what the configuration inputs may carry
          Unknown               \* a bus with a bit that is neither HIGH nor LOW

Register == 0 .. NumRegisters - 1
Lane     == 0 .. Lanes - 1
Vector   == [Lane -> Word]

ASSUME VectorAssumption ==
    /\ NumRegisters \in Nat \ {0} /\ Lanes \in Nat
    /\ 0 \in Word
    /\ \A op \in 0 .. 7, v, w \in Word : LaneOp(op, v, w) \in Word
    /\ \A i \in Instruction :
          /\ i.rd \in Register /\ i.rs1 \in Register /\ i.rs2 \in Register
          /\ i.funct3 \in 0 .. 7 /\ i.vector \in BOOLEAN

ASSUME ConfigurationAssumption ==
    /\ AVL \subseteq 0 .. 255 \cup {Unknown}
    /\ SEW \subseteq 0 .. 3 \cup {Unknown}
    /\ Unknown \notin 0 .. 255

VARIABLES vreg,         \* outputs of the vector registers
          master,       \* and their master latches
          config,       \* outputs of the vl and vtype registers
          configMaster, \* and their master latches
          presented     \* auxiliary: what the datapath last saw with the clock low

vars == <<vreg, master, config, configMaster, presented>>

-----------------------------------------------------------------------------
(* The configuration unit. *)

VLMAX(sew) == CASE sew = 0 -> 16
                [] sew = 1 -> 8
                [] sew = 2 -> 4
                [] OTHER   -> 0

(* Faulty: the multiplexer takes the other input. *)
MinimumSwapped(a, b) == IF a > b THEN a ELSE b

Minimum(a, b) == IF a > b THEN b ELSE a

Valid(avl, sew) == sew \notin {3, Unknown} /\ avl # Unknown

(* What the vl and vtype registers are fed. *)
ConfigurationInput(avl, sew, configure, reset) ==
    IF reset THEN [vl |-> 0, vtype |-> 0]
    ELSE IF configure = TRUE /\ Valid(avl, sew)
    THEN [vl |-> Minimum(avl, VLMAX(sew)), vtype |-> sew]
    ELSE config

-----------------------------------------------------------------------------
(* The control unit, and the datapath at the inputs p, from the read ports  *)
(* to the inputs of the registers. *)

ValidInstruction(i) == i.vector /\ i.funct3 <= 4

WriteEnable(i, reset) == ValidInstruction(i) /\ ~reset

Controls(i, reset) ==
    [rs1 |-> i.rs1, rs2 |-> i.rs2, rd |-> i.rd, op |-> i.funct3,
     enable |-> WriteEnable(i, reset), reset |-> reset]

ExecutionResult(p) == [l \in Lane |-> LaneOp(p.op, vreg[p.rs1][l], vreg[p.rs2][l])]

(* Faulty: one lane too many. *)
LaneMaskInclusive(vl) == [l \in Lane |-> l <= vl]

LaneMask(vl) == [l \in Lane |-> l < vl]

WritebackResult(p) ==
    [l \in Lane |-> IF LaneMask(config.vl)[l] THEN ExecutionResult(p)[l]
                    ELSE vreg[p.rd][l]]

RegisterInput(enable, reset, addr, data) ==
    [r \in Register |-> IF reset THEN [l \in Lane |-> 0]
                        ELSE IF enable /\ r = addr THEN data ELSE vreg[r]]

-----------------------------------------------------------------------------
(* What a caller asks for, in the terms of ElementwiseVector. *)
Hold  == [kind |-> "hold"]
Clear == [kind |-> "clear"]

Write(r, v) == [kind |-> "write", rd |-> r, data |-> v]

Execute(i) == [kind |-> "execute", op |-> i.funct3, rd |-> i.rd, rs1 |-> i.rs1,
               rs2 |-> i.rs2, vl |-> config.vl]

-----------------------------------------------------------------------------
Init == /\ vreg = [r \in Register |-> [l \in Lane |-> 0]]
        /\ master = vreg
        /\ config = [vl |-> 0, vtype |-> 0]
        /\ configMaster = config
        /\ presented = Hold

(* The configuration unit is evaluated with the clock low, and high. *)
ConfigureLow(avl, sew, configure, reset) ==
    /\ configMaster' = ConfigurationInput(avl, sew, configure, reset)
    /\ UNCHANGED <<vreg, master, config, presented>>

ConfigureHigh == /\ config' = configMaster
                 /\ UNCHANGED <<vreg, master, configMaster, presented>>

(* An instruction at the control unit, and the datapath evaluated with the  *)
(* clock low. *)
InstructionLow(i, reset) ==
    LET p == Controls(i, reset)
    IN  /\ master' = RegisterInput(p.enable, p.reset, p.rd, WritebackResult(p))
        /\ presented' = IF reset THEN Clear
                        ELSE IF ValidInstruction(i) THEN Execute(i) ELSE Hold
        /\ UNCHANGED <<vreg, config, configMaster>>

(* The same with external writes on. *)
WriteLow(r, v, reset) ==
    /\ master' = RegisterInput(TRUE, reset, r, v)
    /\ presented' = IF reset THEN Clear ELSE Write(r, v)
    /\ UNCHANGED <<vreg, config, configMaster>>

(* The write enable is off.  initialize_register is WriteLow, High, WriteLow *)
(* and this.  (A datapath that is given a Clock object instead of a wire      *)
(* overwrites that pulse with the level of the object; nothing in the         *)
(* repository makes one.)                                                     *)
IdleLow(reset) ==
    /\ master' = RegisterInput(FALSE, reset, 0, vreg[0])
    /\ presented' = IF reset THEN Clear ELSE Hold
    /\ UNCHANGED <<vreg, config, configMaster>>

(* The datapath is evaluated with the clock high, whatever is at its inputs: *)
(* the masters are closed.                                                   *)
High == /\ vreg' = master
        /\ presented' = Hold
        /\ UNCHANGED <<master, config, configMaster>>

Next == \/ \E avl \in AVL, sew \in SEW, configure \in {TRUE, FALSE, Unknown},
              reset \in BOOLEAN : ConfigureLow(avl, sew, configure, reset)
        \/ ConfigureHigh
        \/ \E i \in Instruction, reset \in BOOLEAN : InstructionLow(i, reset)
        \/ \E r \in Register, v \in Vector, reset \in BOOLEAN : WriteLow(r, v, reset)
        \/ \E reset \in BOOLEAN : IdleLow(reset)
        \/ High

Spec == Init /\ [][Next]_vars

-----------------------------------------------------------------------------
(* vl and vtype are two registers with one write enable: the length in      *)
(* force never exceeds what the element width in force allows, and the      *)
(* reserved width is never in force, whatever is offered, known or not, and *)
(* between whichever half cycles.                                           *)
LengthFitsWidth ==
    \A c \in {config, configMaster} : c.vtype \in 0 .. 2 /\ c.vl \in 0 .. VLMAX(c.vtype)

(* The vector unit executes what was presented last, once, on the registers *)
(* as they are at the edge and for the length in force when it was          *)
(* presented: also in place, when the inputs or the length change after the *)
(* clock has risen, and when a level is evaluated several times.            *)
Elementwise == INSTANCE ElementwiseVector
                   WITH Length <- 0 .. 255, Operation <- 0 .. 4,
                        regs <- vreg, pending <- presented

ImplementsElementwise == Elementwise!Spec
=============================================================================
