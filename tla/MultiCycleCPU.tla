----------------------------- MODULE MultiCycleCPU -----------------------------
(***************************************************************************)
(* The multi-cycle CPU (multi_cycle_cpu/): a state machine drives one ALU  *)
(* and one memory through the cycles of an instruction, and registers      *)
(* between them carry values from one cycle to the next.                   *)
(*                                                                         *)
(* As in the code, a cycle has three parts: Generate gives the control     *)
(* signals of the FSM's state, the wires follow from them, and what the    *)
(* signals enable is loaded while the FSM moves on.                        *)
(*                                                                         *)
(* Instruction and data share a memory, whose ROM half is kept in two      *)
(* forms: decoded in rom, and as loads read it in mem.                     *)
(***************************************************************************)
EXTENDS ALUInterface

CONSTANTS DataWords, Programs,
          MaxResets       \* bound on the calls of reset()

(* The static_assert that addresses are as wide as data. *)
ASSUME WidthAssumption == PcMod = WordMod

(* The widths are template parameters greater than zero.  A branch target   *)
(* is computed from the PC that FETCH has moved on, the target of J is the  *)
(* immediate itself.                                                        *)
ASSUME SizeAssumption ==
    /\ {NumRegisters, WordMod, DataWords} \subseteq Nat \ {0}
    /\ TargetBase = 1 /\ JumpsAbsolute

(* What the decoder makes of a program's words. *)
ASSUME ProgramsAssumption == \A p \in Programs : \A i \in DOMAIN p : p[i] \in Instruction

VARIABLES rom,
          state,                       \* of the control unit
          pc, ir, mdr, a, b, alu_out,  \* the registers of the datapath
          regs, mem,
          resets                       \* calls of reset() so far

vars == <<rom, state, pc, ir, mdr, a, b, alu_out, regs, mem, resets>>

State == {"FETCH", "DECODE", "MEM_ADDR", "MEM_READ", "MEM_WB", "MEM_WRITE", "EXECUTE_R",
          "ALU_WB", "EXECUTE_I", "BRANCH", "JUMP", "HALT"}

Memory == INSTANCE SequentialCPU WITH
             Width <- 1, InsnBytes <- 1, WordBytes <- 1, SplitMemory <- TRUE,
             UnifiedMemory <- TRUE

-----------------------------------------------------------------------------
(* The control unit. *)

(* The signals that select; "writes" are the write signals that are high. *)
NoSignals == [writes |-> {}, branch |-> FALSE, iorD |-> FALSE,
              aluSrcA |-> "pc", aluSrcB |-> "regB", aluOperation |-> "ADD",
              pcSource |-> "aluResult", writebackSource |-> "aluOut"]

Generate(s, op) ==
    CASE s = "FETCH"     -> [NoSignals EXCEPT !.writes = {"ir", "pc"}, !.aluSrcB = "constant"]
      [] s = "DECODE"    -> [NoSignals EXCEPT !.writes = {"a", "b", "alu_out"},
                                              !.aluSrcB = "sign_extend"]
      [] s = "MEM_ADDR"  -> [NoSignals EXCEPT !.writes = {"alu_out"}, !.aluSrcA = "regA",
                                              !.aluSrcB = "sign_extend"]
      [] s = "MEM_READ"  -> [NoSignals EXCEPT !.writes = {"mdr"}, !.iorD = TRUE]
      [] s = "MEM_WB"    -> [NoSignals EXCEPT !.writes = {"reg"},
                                              !.writebackSource = "memoryData"]
      [] s = "MEM_WRITE" -> [NoSignals EXCEPT !.writes = {"mem"}, !.iorD = TRUE]
      [] s = "EXECUTE_R" -> [NoSignals EXCEPT !.writes = {"alu_out"}, !.aluSrcA = "regA",
                                              !.aluOperation = op]
      [] s = "EXECUTE_I" -> [NoSignals EXCEPT !.writes = {"alu_out"}, !.aluSrcA = "regA",
                                              !.aluSrcB = "sign_extend",
                                              !.aluOperation = IF op = "LI" THEN "PASS_B"
                                                               ELSE "ADD"]
      [] s = "ALU_WB"    -> [NoSignals EXCEPT !.writes = {"reg"}]
      [] s = "BRANCH"    -> [NoSignals EXCEPT !.branch = TRUE, !.aluSrcA = "regA",
                                              !.aluOperation = "SUB", !.pcSource = "aluOut"]
      [] s = "JUMP"      -> [NoSignals EXCEPT !.writes = {"pc"}, !.pcSource = "jumpTarget"]

(* Faulty: the opcodes without a state of their own are forgotten. *)
AfterDecodeStuck(op) ==
    CASE op \in TwoSourceAlu \cup {"NOT"} -> "EXECUTE_R"
      [] op \in {"LW", "SW"}              -> "MEM_ADDR"
      [] op \in {"LI", "ADDI"}            -> "EXECUTE_I"
      [] op \in BranchOps                 -> "BRANCH"
      [] op = "J"                         -> "JUMP"
      [] op = "HALT"                      -> "HALT"
      [] OTHER                            -> "DECODE"

AfterDecode(op) ==
    CASE op \in TwoSourceAlu \cup {"NOT"} -> "EXECUTE_R"
      [] op \in {"LW", "SW"}              -> "MEM_ADDR"
      [] op \in {"LI", "ADDI"}            -> "EXECUTE_I"
      [] op \in BranchOps                 -> "BRANCH"
      [] op = "J"                         -> "JUMP"
      [] op = "HALT"                      -> "HALT"
      [] OTHER                            -> "FETCH"

NextState(s, op) ==
    CASE s = "FETCH"                      -> "DECODE"
      [] s = "DECODE"                     -> AfterDecode(op)
      [] s = "MEM_ADDR"                   -> IF op = "LW" THEN "MEM_READ" ELSE "MEM_WRITE"
      [] s = "MEM_READ"                   -> "MEM_WB"
      [] s \in {"EXECUTE_R", "EXECUTE_I"} -> "ALU_WB"
      [] OTHER                            -> "FETCH"

-----------------------------------------------------------------------------
(* The wires of a cycle. *)

Signals   == Generate(state, ir.op)
Immediate == ir.imm % WordMod

(* The ALU and what it is fed. *)
SrcA   == IF Signals.aluSrcA = "regA" THEN a ELSE pc
SrcB   == CASE Signals.aluSrcB = "regB"        -> b
            [] Signals.aluSrcB = "constant"    -> 1
            [] Signals.aluSrcB = "sign_extend" -> Immediate
Result == Alu(Signals.aluOperation, SrcA, SrcB)

(* Faulty: the memory is always addressed by the PC. *)
FetchAddress == pc

MemoryAddress == IF Signals.iorD THEN alu_out ELSE pc

(* Faulty: a branch of either kind is taken on equality. *)
PcEnableOnZero == "pc" \in Signals.writes \/ (Signals.branch /\ Result = 0)

PcEnable == \/ "pc" \in Signals.writes
            \/ Signals.branch /\ (IF ir.op = "BNE" THEN Result # 0 ELSE Result = 0)

PcNext == CASE Signals.pcSource = "aluResult"  -> Result
            [] Signals.pcSource = "aluOut"     -> alu_out
            [] Signals.pcSource = "jumpTarget" -> Immediate

RegisterWriteData == IF Signals.writebackSource = "memoryData" THEN mdr ELSE alu_out

-----------------------------------------------------------------------------
Init == /\ rom \in Programs
        /\ state = "FETCH"
        /\ pc = 0 /\ ir = Nop /\ mdr = 0 /\ a = 0 /\ b = 0 /\ alu_out = 0
        /\ regs = [r \in Register |-> 0]
        /\ mem = Memory!LoadedMemory(rom)
        /\ resets = 0

(* A register behind a load multiplexer. *)
Latched(name, old, input) == IF name \in Signals.writes THEN input ELSE old

LoadRegisters ==
    /\ pc'      = IF PcEnable THEN PcNext ELSE pc
    /\ ir'      = Latched("ir", ir, Memory!InstructionAt(rom, MemoryAddress))
    /\ mdr'     = Latched("mdr", mdr, Memory!ReadData(mem, MemoryAddress))
    /\ a'       = Latched("a", a, regs[ir.rs1])
    /\ b'       = Latched("b", b, regs[ir.rs2])
    /\ alu_out' = Latched("alu_out", alu_out, Result)
    /\ regs'    = Latched("reg", regs, [regs EXCEPT ![ir.rd] = RegisterWriteData])
    /\ mem'     = Latched("mem", mem, Memory!WriteData(mem, MemoryAddress, b))

(* step() *)
Step == /\ state # "HALT"
        /\ LoadRegisters
        /\ state' = NextState(state, ir'.op)
        /\ UNCHANGED <<rom, resets>>

(* reset().  The words stored so far are in the hands of the memory        *)
(* primitive.  The control wires of the last cycle stay applied, but a     *)
(* store among them has just been done.                                    *)
Reset == /\ resets < MaxResets
         /\ resets' = resets + 1
         /\ state' = "FETCH"
         /\ pc' = 0 /\ ir' = Nop /\ mdr' = 0 /\ a' = 0 /\ b' = 0 /\ alu_out' = 0
         /\ regs' = [r \in Register |-> 0]
         /\ mem' \in {mem, Memory!LoadedMemory(rom)}
         /\ UNCHANGED rom

Next == Step \/ Reset

Spec == Init /\ [][Next]_vars

(* run() steps until the control unit is in HALT. *)
FairSpec == Spec /\ WF_vars(Step)
=============================================================================
