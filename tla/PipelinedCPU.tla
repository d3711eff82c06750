----------------------------- MODULE PipelinedCPU -----------------------------
(***************************************************************************)
(* The five-stage pipeline (pipelined_cpu/): fetch, decode, execute,       *)
(* memory and writeback work on five consecutive instructions in every     *)
(* clock cycle.  Results are forwarded to the execute stage, a load that   *)
(* is used at once stalls the two stages in front of it, and a taken       *)
(* branch flushes them.                                                    *)
(*                                                                         *)
(* The variables are the registers of the datapath; a cycle computes all   *)
(* wires from them and then loads them together.  The opcodes the datapath *)
(* tracks beside the pipeline registers are kept apart here too: they      *)
(* decide the branch condition and the halt, and they are updated after    *)
(* the clock edge, from a mixture of the old and the new cycle's wires.    *)
(*                                                                         *)
(* Program counters count instructions and data addresses count words.     *)
(***************************************************************************)
EXTENDS ALUInterface

CONSTANTS DataWords, Programs,
          PcRegister,     \* the register that is the PC, 15 in the code
          MaxResets       \* bound on the calls of reset()

(* The widths are template parameters greater than zero.  The datapath's    *)
(* branch adder starts behind the branch and computes the target of J too.  *)
ASSUME SizeAssumption ==
    /\ {NumRegisters, WordMod, DataWords} \subseteq Nat \ {0}
    /\ PcMod \in Nat \ {0, 1}
    /\ TargetBase = 1 /\ ~JumpsAbsolute

(* What the decoder makes of a program's words. *)
ASSUME ProgramsAssumption == \A p \in Programs : \A i \in DOMAIN p : p[i] \in Instruction

VARIABLES rom,
          pc, if_id, id_ex, ex_mem, mem_wb,   \* what the clock edge loads
          opcode,                             \* id_opcode_ ... wb_opcode_
          regs, mem,
          resets                              \* calls of reset() so far

pipeline == <<pc, if_id, id_ex, ex_mem, mem_wb, opcode>>
vars     == <<rom, pipeline, regs, mem, resets>>

-----------------------------------------------------------------------------
(* Decode: the control signals of an opcode. *)
Controls(op) ==
    [aluSrc   |-> op \in {"LI", "ADDI", "LW", "SW"},
     aluOp    |-> CASE op \in {"SUB", "AND", "OR", "XOR", "NOT"} -> op
                    [] op = "LI"        -> "PASS_B"
                    [] op \in BranchOps -> "SUB"
                    [] OTHER            -> "ADD",
     branch   |-> op \in BranchOps \cup {"J"},
     memRead  |-> op = "LW",
     memWrite |-> op = "SW",
     regWrite |-> op \in AluOps \cup {"LW"},
     memToReg |-> op = "LW"]

(* A register that was reset reads as a NOP. *)
NoControls == Controls("NOP")

EmptyIF_ID  == [instruction |-> Nop, pcplus4 |-> 0]
EmptyID_EX  == [controls |-> NoControls, pcplus4 |-> 0, data1 |-> 0, data2 |-> 0,
                immediate |-> 0, rs |-> 0, rt |-> 0, rd |-> 0]
EmptyEX_MEM == [controls |-> NoControls, alu |-> 0, data2 |-> 0, rd |-> 0]
EmptyMEM_WB == [controls |-> NoControls, read |-> 0, alu |-> 0, rd |-> 0]

Memory == INSTANCE SequentialCPU WITH
             Width <- 1, InsnBytes <- 1, WordBytes <- 1, SplitMemory <- TRUE,
             UnifiedMemory <- FALSE

Fetched(p) == Memory!InstructionAt(rom, p)

-----------------------------------------------------------------------------
(* The wires of a cycle, one group per stage, last stage first. *)

(* Writeback. *)
ResultW    == IF mem_wb.controls.memToReg THEN mem_wb.read ELSE mem_wb.alu
R15Written == mem_wb.controls.regWrite /\ mem_wb.rd = PcRegister

(* Memory. *)
ReadDataM == IF ex_mem.controls.memRead THEN Memory!ReadData(mem, ex_mem.alu) ELSE 0

(* Decode: the register file, with the value written in this cycle. *)
Operand(r) == IF mem_wb.controls.regWrite /\ mem_wb.rd = r THEN ResultW ELSE regs[r]

(* Faulty: of two producers the older one is forwarded. *)
ForwardedOlder(r, own) ==
    IF mem_wb.controls.regWrite /\ mem_wb.rd = r THEN ResultW
    ELSE IF ex_mem.controls.regWrite /\ ex_mem.rd = r THEN ex_mem.alu
    ELSE own

(* Execute: the forwarding multiplexers. *)
Forwarded(r, own) ==
    IF ex_mem.controls.regWrite /\ ex_mem.rd = r THEN ex_mem.alu
    ELSE IF mem_wb.controls.regWrite /\ mem_wb.rd = r THEN ResultW
    ELSE own

SrcA       == Forwarded(id_ex.rs, id_ex.data1)
WriteDataE == Forwarded(id_ex.rt, id_ex.data2)
SrcB       == IF id_ex.controls.aluSrc THEN id_ex.immediate % WordMod ELSE WriteDataE
AluE       == Alu(id_ex.controls.aluOp, SrcA, SrcB)

BranchTaken == /\ id_ex.controls.branch
               /\ CASE opcode.ex = "BNE" -> AluE # 0
                    [] opcode.ex = "J"   -> TRUE
                    [] OTHER             -> AluE = 0
BranchTarget == (id_ex.pcplus4 + id_ex.immediate) % PcMod

(* Faulty: any destination makes the reader wait, that of a bubble too. *)
LoadUseUnguarded(e, d) == e.rd \in {d.instruction.rs1, d.instruction.rs2}

(* The hazard unit: d waits in decode for what e is about to load. *)
LoadUse(e, d) == e.controls.memToReg /\ e.rd \in {d.instruction.rs1, d.instruction.rs2}

Stall  == ~BranchTaken /\ LoadUse(id_ex, if_id)      \* stall_f and stall_d
FlushD == BranchTaken
FlushE == BranchTaken \/ LoadUse(id_ex, if_id)

(* Fetch. *)
HaltFetched == ~BranchTaken /\ "HALT" \in {if_id.instruction.op, opcode.id, opcode.ex,
                                           opcode.mem, opcode.wb}
PcEnable == ~HaltFetched /\ ~Stall
PcPrime  == IF R15Written THEN ResultW % PcMod
            ELSE IF BranchTaken THEN BranchTarget
            ELSE (pc + 1) % PcMod

Halted == opcode.wb = "HALT"

-----------------------------------------------------------------------------
Init == /\ rom \in Programs
        /\ pc = 0
        /\ if_id = EmptyIF_ID
        /\ id_ex = EmptyID_EX
        /\ ex_mem = EmptyEX_MEM
        /\ mem_wb = EmptyMEM_WB
        /\ opcode = [id |-> "NOP", ex |-> "NOP", mem |-> "NOP", wb |-> "NOP"]
        /\ regs = [r \in Register |-> 0]
        /\ mem = [i \in 0 .. DataWords - 1 |-> 0]
        /\ resets = 0

FetchStage ==
    /\ pc' = IF PcEnable THEN PcPrime ELSE pc
    /\ if_id' = IF FlushD THEN EmptyIF_ID
                ELSE IF Stall THEN if_id
                ELSE [instruction |-> Fetched(pc), pcplus4 |-> (pc + 1) % PcMod]

DecodeStage ==
    LET ins == if_id.instruction
    IN  id_ex' = IF FlushE THEN EmptyID_EX
                 ELSE [controls  |-> Controls(ins.op),
                       pcplus4   |-> if_id.pcplus4,
                       data1     |-> Operand(ins.rs1),
                       data2     |-> Operand(ins.rs2),
                       immediate |-> ins.imm,
                       rs |-> ins.rs1, rt |-> ins.rs2, rd |-> ins.rd]

(* A taken branch is sent on without its effects; it has none. *)
ExecuteStage ==
    ex_mem' = [controls |-> IF BranchTaken
                            THEN [id_ex.controls EXCEPT !.regWrite = FALSE,
                                                        !.memWrite = FALSE,
                                                        !.memRead = FALSE]
                            ELSE id_ex.controls,
               alu |-> AluE, data2 |-> WriteDataE, rd |-> id_ex.rd]

MemoryStage ==
    /\ mem' = IF ex_mem.controls.memWrite
              THEN Memory!WriteData(mem, ex_mem.alu, ex_mem.data2) ELSE mem
    /\ mem_wb' = [controls |-> ex_mem.controls,
                  read |-> ReadDataM, alu |-> ex_mem.alu, rd |-> ex_mem.rd]

WritebackStage ==
    regs' = IF mem_wb.controls.regWrite THEN [regs EXCEPT ![mem_wb.rd] = ResultW] ELSE regs

(* Faulty: the stall of a load does not clear the opcode of EX. *)
TrackOpcodesOnStall ==
    opcode' = [wb  |-> opcode.mem,
               mem |-> opcode.ex,
               ex  |-> IF FlushD THEN "NOP" ELSE opcode.id,
               id  |-> IF FlushD THEN "NOP"
                       ELSE IF LoadUse(id_ex', if_id') THEN opcode.id
                       ELSE if_id'.instruction.op]

(* The opcodes move after the edge.  The flushes are those of the cycle    *)
(* that ended, but the decoded opcode and stall_d are already those of the *)
(* next one: while an instruction waits for a load in EX, its opcode is    *)
(* not taken over, and the load's stays.                                   *)
TrackOpcodes ==
    opcode' = [wb  |-> opcode.mem,
               mem |-> opcode.ex,
               ex  |-> IF FlushE THEN "NOP" ELSE opcode.id,
               id  |-> IF FlushD THEN "NOP"
                       ELSE IF LoadUse(id_ex', if_id') THEN opcode.id
                       ELSE if_id'.instruction.op]

(* step() *)
Step == /\ ~Halted
        /\ FetchStage
        /\ DecodeStage
        /\ ExecuteStage
        /\ MemoryStage
        /\ WritebackStage
        /\ TrackOpcodes
        /\ UNCHANGED <<rom, resets>>

(* reset().  A store that is in MEM when the reset comes, and the words    *)
(* stored before, are in the hands of the memory primitive.                *)
Reset == /\ resets < MaxResets
         /\ resets' = resets + 1
         /\ pc' = 0
         /\ if_id' = EmptyIF_ID
         /\ id_ex' = EmptyID_EX
         /\ ex_mem' = EmptyEX_MEM
         /\ mem_wb' = EmptyMEM_WB
         /\ opcode' = [id |-> "NOP", ex |-> "NOP", mem |-> "NOP", wb |-> "NOP"]
         /\ regs' = [r \in Register |-> 0]
         /\ \/ mem' = mem
            \/ mem' = [i \in DOMAIN mem |-> 0]
            \/ /\ ex_mem.controls.memWrite
               /\ mem' = Memory!WriteData(mem, ex_mem.alu, ex_mem.data2)
         /\ UNCHANGED rom

Next == Step \/ Reset

Spec == Init /\ [][Next]_vars

(* run() calls step() until the CPU has halted. *)
FairSpec == Spec /\ WF_vars(Step)
=============================================================================
