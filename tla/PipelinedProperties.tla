-------------------------- MODULE PipelinedProperties --------------------------
(***************************************************************************)
(* What the pipeline has to guarantee.                                     *)
(***************************************************************************)
EXTENDS PipelinedCPU

(* Every pipeline register holds what its wires can carry. *)
TypeOK ==
    /\ pc \in 0 .. PcMod - 1
    /\ id_ex.data1 \in Word /\ id_ex.data2 \in Word
    /\ ex_mem.alu \in Word /\ ex_mem.data2 \in Word
    /\ mem_wb.alu \in Word /\ mem_wb.read \in Word
    /\ regs \in [Register -> Word]
    /\ mem \in [0 .. DataWords - 1 -> Word]

(* An instruction counts as executed when it leaves EX: what it still has   *)
(* to write in MEM and WB belongs to the architectural state.  Behind the   *)
(* HALT that has reached WB nothing does.                                   *)
IsBubble(stage) == stage.pcplus4 = 0

ArchPc == IF "HALT" \in {opcode.mem, opcode.wb} THEN -1
          ELSE IF ~IsBubble(id_ex) THEN id_ex.pcplus4 - 1
          ELSE IF ~IsBubble(if_id) THEN if_id.pcplus4 - 1
          ELSE pc

WrittenBack == IF mem_wb.controls.regWrite THEN [regs EXCEPT ![mem_wb.rd] = ResultW] ELSE regs

ArchRegs ==
    IF Halted THEN regs
    ELSE IF ex_mem.controls.regWrite
         THEN [WrittenBack EXCEPT ![ex_mem.rd] =
                  IF ex_mem.controls.memToReg THEN ReadDataM ELSE ex_mem.alu]
         ELSE WrittenBack

ArchMem == IF ~Halted /\ ex_mem.controls.memWrite
           THEN Memory!WriteData(mem, ex_mem.alu, ex_mem.data2) ELSE mem

Meaning == INSTANCE SequentialCPU WITH
              Width <- 1, InsnBytes <- 1, WordBytes <- 1, SplitMemory <- TRUE,
              UnifiedMemory <- FALSE,
              pc <- ArchPc, regs <- ArchRegs, mem <- ArchMem

(* Forwarding, stalls and flushes hide the overlap: the instructions that   *)
(* leave EX do so one at a time, in program order, with the effect they     *)
(* have in the single-cycle CPU; once halted() reports TRUE the registers   *)
(* and the memory hold everything before the HALT and nothing behind it.    *)
SequentialMeaning == Meaning!RestartableSpec

(* The opcodes tracked beside the pipeline name the instructions in it,     *)
(* although they are updated from wires of two different cycles.  Only      *)
(* the one for ID lags behind, while its instruction waits for a load.      *)
OpcodesFollowPipeline ==
    /\ id_ex.controls = Controls(opcode.ex)
    /\ LoadUse(id_ex, if_id) \/ opcode.id = if_id.instruction.op

(* Unless the CPU has halted, an instruction reaches EX again and again:    *)
(* no stall holds the front end for good, and no HALT that a branch flushed *)
(* keeps the PC disabled.                                                   *)
KeepsExecuting == []<>(Halted \/ ~IsBubble(id_ex))
=============================================================================
