------------------------- MODULE MultiCycleProperties -------------------------
(***************************************************************************)
(* What the multi-cycle CPU has to guarantee.                              *)
(***************************************************************************)
EXTENDS MultiCycleCPU

(* The instruction that is being executed: the PC has moved on in FETCH. *)
CurrentPc == (pc - 1) % PcMod

(* One ALU and one ALUOut serve as adder of the PC, of branch targets and   *)
(* of addresses and as the ALU proper, and nothing but the order of states  *)
(* keeps these values apart: what the latches hold is always what the next  *)
(* state needs of the instruction at CurrentPc, however the machine got     *)
(* there.                                                                   *)
LatchesServeInstruction ==
    /\ state # "FETCH" => ir = Memory!InstructionAt(rom, CurrentPc)
    /\ state \notin {"FETCH", "DECODE"} => a = regs[ir.rs1] /\ b = regs[ir.rs2]
    /\ state = "BRANCH" => alu_out = Target(ir, CurrentPc)
    /\ state = "ALU_WB" => alu_out = AluResult(ir, a, b)
    /\ state \in {"MEM_READ", "MEM_WB", "MEM_WRITE"} => alu_out = EffectiveAddress(ir, a)
    /\ state = "MEM_WB" => mdr = Memory!ReadData(mem, alu_out)

(* An instruction counts as executed when the control unit is back in       *)
(* FETCH, and HALT when it is in HALT.                                      *)
ArchPc == CASE state = "FETCH" -> pc
            [] state = "HALT"  -> -1
            [] OTHER           -> CurrentPc

Meaning == INSTANCE SequentialCPU WITH
              Width <- 1, InsnBytes <- 1, WordBytes <- 1, SplitMemory <- TRUE,
              UnifiedMemory <- TRUE, pc <- ArchPc

(* The cycles of an instruction together are its effect in the single-cycle *)
(* CPU: registers and memory change in its last cycle only, one instruction *)
(* after the other, and a reset between two cycles leaves nothing of it.    *)
SequentialMeaning == Meaning!RestartableSpec

(* From every state the control unit comes back to FETCH or stops in HALT,  *)
(* whatever the instruction: step_instruction() returns.                    *)
InstructionsEnd == []<>(state \in {"FETCH", "HALT"})
=============================================================================
