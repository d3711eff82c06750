-------------------------- MODULE PipelinedCPU_proofs --------------------------
(***************************************************************************)
(* For every program, every width of words and program counters and every  *)
(* size of the register file and of the memories: what the wires carry,    *)
(* and that the pipeline executes programs as the single-cycle CPU does.   *)
(***************************************************************************)
EXTENDS PipelinedProperties, Arithmetic_proofs, TLAPS

-----------------------------------------------------------------------------
(* The inductive invariant, in three parts.                                 *)

(* What the wires that TypeOK leaves out carry. *)
WiresOK ==
    /\ rom \in Programs
    /\ if_id.instruction \in Instruction /\ id_ex.immediate \in Int
    /\ if_id.pcplus4 \in 0 .. PcMod - 1 /\ id_ex.pcplus4 \in 0 .. PcMod - 1
    /\ {id_ex.rs, id_ex.rt, id_ex.rd, ex_mem.rd, mem_wb.rd} \subseteq Register
    /\ {opcode.id, opcode.ex, opcode.mem, opcode.wb} \subseteq Opcode

(* The last two stages do what the opcodes tracked beside them say. *)
Controlled(stage, op) ==
    /\ stage.controls.regWrite <=> op \in AluOps \cup {"LW"}
    /\ stage.controls.memRead  <=> op = "LW"
    /\ stage.controls.memWrite <=> op = "SW"
    /\ stage.controls.memToReg <=> op = "LW"

BackEndFollowsOpcodes ==
    Controlled(ex_mem, opcode.mem) /\ Controlled(mem_wb, opcode.wb)

WiresInv == TypeOK /\ WiresOK /\ OpcodesFollowPipeline /\ BackEndFollowsOpcodes

(* Only branches and jumps change the PC: no instruction has it as its      *)
(* destination register, and no instruction in flight does.                 *)
LeavesPcAlone(program) ==
    \A i \in DOMAIN program : WritesRegister(program[i]) => program[i].rd # PcRegister

PcNotWritten ==
    /\ WritesRegister(if_id.instruction) => if_id.instruction.rd # PcRegister
    /\ id_ex.controls.regWrite  => id_ex.rd # PcRegister
    /\ ex_mem.controls.regWrite => ex_mem.rd # PcRegister
    /\ mem_wb.controls.regWrite => mem_wb.rd # PcRegister

(* The PC is not at the last slot of the instruction memory, where pcplus4  *)
(* wraps to 0 and looks like that of an empty register.                     *)
FetchesInside == pc < PcMod - 1

(* No HALT has left EX. *)
Running == "HALT" \notin {opcode.mem, opcode.wb}

(* What the front end holds are instructions of the program: the one in EX, *)
(* with the operands the register file has for it and no load in front of   *)
(* it, and behind it, until a HALT is met, the next two of the program.     *)
Holds(stage, ins) ==
    /\ opcode.ex = ins.op /\ stage.immediate = ins.imm
    /\ stage.rs = ins.rs1 /\ stage.rt = ins.rs2 /\ stage.rd = ins.rd

FrontEndInOrder ==
    /\ IsBubble(if_id) => if_id.instruction = Nop /\ IsBubble(id_ex)
    /\ IsBubble(id_ex) => opcode.ex = "NOP"
    /\ ~IsBubble(if_id) => if_id.instruction = Fetched(if_id.pcplus4 - 1)
    /\ ~IsBubble(id_ex) =>
         /\ Holds(id_ex, Fetched(id_ex.pcplus4 - 1))
         /\ id_ex.data1 = regs[id_ex.rs] /\ id_ex.data2 = regs[id_ex.rt]
         /\ ex_mem.controls.memToReg => ex_mem.rd \notin {id_ex.rs, id_ex.rt}
    /\ Running /\ opcode.ex # "HALT" =>
         /\ ~IsBubble(id_ex) => if_id.pcplus4 = id_ex.pcplus4 + 1
         /\ ~IsBubble(if_id) /\ if_id.instruction.op # "HALT" => pc = if_id.pcplus4

-----------------------------------------------------------------------------
(* Words. *)

LEMMA WordOf ==
    ASSUME NEW x \in Int
    PROVE  x % WordMod \in Word
BY SizeAssumption DEF Word

LEMMA PcOf ==
    ASSUME NEW x \in Int
    PROVE  x % PcMod \in 0 .. PcMod - 1
BY SizeAssumption

LEMMA WordIsInt == Word \subseteq Int /\ 0 \in Word
BY SizeAssumption DEF Word

LEMMA AluTyped ==
    ASSUME NEW x \in Word, NEW y \in Word,
           NEW operation \in {"ADD", "SUB", "AND", "OR", "XOR", "NOT", "PASS_B"}
    PROVE  Alu(operation, x, y) \in Word
<1>1. x \in Int /\ y \in Int /\ WordMod \in Int
  BY WordIsInt, SizeAssumption
<1>2. (x + y) % WordMod \in Word /\ (x - y) % WordMod \in Word
  BY <1>1, WordOf
<1>3. WordMod - 1 - x \in Word
  BY SizeAssumption DEF Word
<1>4. BitAnd(x, y) \in Word /\ BitOr(x, y) \in Word /\ BitXor(x, y) \in Word
  BY BitwiseAssumption
<1> QED
  BY <1>2, <1>3, <1>4 DEF Alu
-----------------------------------------------------------------------------
(* Instructions and memories. *)

LEMMA NopTyped == Nop \in Instruction /\ Nop.op = "NOP"
BY SizeAssumption DEF Nop, Instr, Instruction, Opcode, Register

LEMMA FetchedTyped ==
    ASSUME rom \in Programs, NEW p
    PROVE  Fetched(p) \in Instruction
BY ProgramsAssumption, NopTyped DEF Fetched, Memory!InstructionAt, Memory!Nop, Nop, Memory!Instr, Instr

LEMMA ReadTyped ==
    ASSUME NEW m \in [0 .. DataWords - 1 -> Word], NEW x
    PROVE  Memory!ReadData(m, x) \in Word
BY WordIsInt DEF Memory!ReadData

LEMMA WriteTyped ==
    ASSUME NEW m \in [0 .. DataWords - 1 -> Word], NEW x, NEW v \in Word
    PROVE  Memory!WriteData(m, x, v) \in [0 .. DataWords - 1 -> Word]
BY DEF Memory!WriteData

LEMMA ControlsOf ==
    ASSUME NEW op
    PROVE  /\ Controls(op).aluSrc   <=> op \in {"LI", "ADDI", "LW", "SW"}
           /\ Controls(op).branch   <=> op \in BranchOps \cup {"J"}
           /\ Controls(op).memRead  <=> op = "LW"
           /\ Controls(op).memWrite <=> op = "SW"
           /\ Controls(op).regWrite <=> op \in AluOps \cup {"LW"}
           /\ Controls(op).memToReg <=> op = "LW"
BY DEF Controls

LEMMA AluOpOf ==
    ASSUME NEW op
    PROVE  /\ Controls(op).aluOp = CASE op \in {"SUB", "AND", "OR", "XOR", "NOT"} -> op
                                     [] op = "LI"        -> "PASS_B"
                                     [] op \in BranchOps -> "SUB"
                                     [] OTHER            -> "ADD"
           /\ Controls(op).aluOp \in {"ADD", "SUB", "AND", "OR", "XOR", "NOT", "PASS_B"}
BY DEF Controls

(* The wires carry words. *)
LEMMA WordsOnWires ==
    ASSUME WiresInv
    PROVE  /\ ResultW \in Word /\ ReadDataM \in Word
           /\ \A r \in Register : Operand(r) \in Word
           /\ SrcA \in Word /\ WriteDataE \in Word /\ SrcB \in Word /\ AluE \in Word
           /\ BranchTarget \in 0 .. PcMod - 1
<1>1. ResultW \in Word
  BY DEF WiresInv, TypeOK, ResultW
<1>2. ReadDataM \in Word
  BY ReadTyped, WordIsInt DEF WiresInv, TypeOK, ReadDataM
<1>3. \A r \in Register : Operand(r) \in Word
  BY <1>1 DEF WiresInv, TypeOK, Operand
<1>4. SrcA \in Word /\ WriteDataE \in Word
  BY <1>1 DEF WiresInv, TypeOK, SrcA, WriteDataE, Forwarded
<1>5. SrcB \in Word
  BY <1>4, WordOf DEF WiresInv, WiresOK, SrcB
<1>6. AluE \in Word
  <2>1. id_ex.controls.aluOp \in {"ADD", "SUB", "AND", "OR", "XOR", "NOT", "PASS_B"}
    BY AluOpOf DEF WiresInv, OpcodesFollowPipeline
  <2> QED
    BY <1>4, <1>5, <2>1, AluTyped DEF AluE
<1>7. BranchTarget \in 0 .. PcMod - 1
  BY PcOf DEF WiresInv, WiresOK, BranchTarget
<1> QED
  BY <1>1, <1>2, <1>3, <1>4, <1>5, <1>6, <1>7

-----------------------------------------------------------------------------
(* The first part is an invariant for every program. *)

LEMMA EmptyPipeline ==
    /\ EmptyIF_ID.instruction = Nop /\ EmptyIF_ID.pcplus4 = 0
    /\ EmptyID_EX.controls = Controls("NOP") /\ EmptyID_EX.pcplus4 = 0
    /\ EmptyID_EX.data1 = 0 /\ EmptyID_EX.data2 = 0 /\ EmptyID_EX.immediate = 0
    /\ EmptyID_EX.rs = 0 /\ EmptyID_EX.rt = 0 /\ EmptyID_EX.rd = 0
    /\ EmptyEX_MEM.controls = Controls("NOP") /\ EmptyEX_MEM.alu = 0
    /\ EmptyEX_MEM.data2 = 0 /\ EmptyEX_MEM.rd = 0
    /\ EmptyMEM_WB.controls = Controls("NOP") /\ EmptyMEM_WB.alu = 0
    /\ EmptyMEM_WB.read = 0 /\ EmptyMEM_WB.rd = 0
BY DEF EmptyIF_ID, EmptyID_EX, EmptyEX_MEM, EmptyMEM_WB, NoControls

LEMMA ZeroTyped ==
    /\ 0 \in Register /\ 0 \in Word /\ 0 \in Int /\ 0 \in 0 .. PcMod - 1
    /\ "NOP" \in Opcode
    /\ [r \in Register |-> 0] \in [Register -> Word]
    /\ [i \in 0 .. DataWords - 1 |-> 0] \in [0 .. DataWords - 1 -> Word]
BY SizeAssumption DEF Register, Word, Opcode

LEMMA WiresInit == Init => WiresInv
<1> SUFFICES ASSUME Init PROVE WiresInv
  OBVIOUS
<1> USE EmptyPipeline, ZeroTyped, NopTyped DEF Init
<1>1. TypeOK
  BY DEF TypeOK
<1>2. WiresOK
  BY DEF WiresOK
<1>3. OpcodesFollowPipeline
  BY DEF OpcodesFollowPipeline
<1>4. BackEndFollowsOpcodes
  BY ControlsOf DEF BackEndFollowsOpcodes, Controlled
<1> QED
  BY <1>1, <1>2, <1>3, <1>4 DEF WiresInv

LEMMA WiresReset == WiresInv /\ Reset => WiresInv'
<1> SUFFICES ASSUME WiresInv, Reset PROVE WiresInv'
  OBVIOUS
<1>1. /\ pc' = 0 /\ if_id' = EmptyIF_ID /\ id_ex' = EmptyID_EX
      /\ ex_mem' = EmptyEX_MEM /\ mem_wb' = EmptyMEM_WB /\ rom' = rom
      /\ opcode' = [id |-> "NOP", ex |-> "NOP", mem |-> "NOP", wb |-> "NOP"]
      /\ regs' = [r \in Register |-> 0]
  BY DEF Reset
<1>2. mem' \in [0 .. DataWords - 1 -> Word]
  <2>1. mem \in [0 .. DataWords - 1 -> Word] /\ ex_mem.data2 \in Word
    BY DEF WiresInv, TypeOK
  <2> QED
    BY <2>1, WriteTyped, ZeroTyped DEF Reset
<1>3. TypeOK'
  BY <1>1, <1>2, EmptyPipeline, ZeroTyped DEF TypeOK
<1>4. WiresOK'
  BY <1>1, EmptyPipeline, ZeroTyped, NopTyped DEF WiresInv, WiresOK
<1>5. OpcodesFollowPipeline'
  BY <1>1, EmptyPipeline, NopTyped DEF OpcodesFollowPipeline
<1>6. BackEndFollowsOpcodes'
  BY <1>1, EmptyPipeline, ControlsOf DEF BackEndFollowsOpcodes, Controlled
<1> QED
  BY <1>3, <1>4, <1>5, <1>6 DEF WiresInv
(* The clock edge, register by register. *)
LEMMA DecodedInstruction ==
    ASSUME Step, ~FlushE
    PROVE  /\ id_ex'.controls = Controls(if_id.instruction.op)
           /\ id_ex'.pcplus4 = if_id.pcplus4 /\ id_ex'.immediate = if_id.instruction.imm
           /\ id_ex'.data1 = Operand(if_id.instruction.rs1)
           /\ id_ex'.data2 = Operand(if_id.instruction.rs2)
           /\ id_ex'.rs = if_id.instruction.rs1 /\ id_ex'.rt = if_id.instruction.rs2
           /\ id_ex'.rd = if_id.instruction.rd
BY DEF Step, DecodeStage

LEMMA BehindTheEdge ==
    ASSUME WiresInv, Step
    PROVE  /\ FlushE => id_ex' = EmptyID_EX
           /\ Controlled(ex_mem', opcode.ex)
           /\ ex_mem'.alu = AluE /\ ex_mem'.data2 = WriteDataE /\ ex_mem'.rd = id_ex.rd
           /\ mem_wb'.controls = ex_mem.controls /\ mem_wb'.read = ReadDataM
           /\ mem_wb'.alu = ex_mem.alu /\ mem_wb'.rd = ex_mem.rd
           /\ opcode'.wb = opcode.mem /\ opcode'.mem = opcode.ex
           /\ opcode'.ex = IF FlushE THEN "NOP" ELSE opcode.id
           /\ opcode'.id = IF FlushD THEN "NOP"
                           ELSE IF LoadUse(id_ex', if_id') THEN opcode.id
                           ELSE if_id'.instruction.op
           /\ rom' = rom
<1> DEFINE op == opcode.ex
           c  == id_ex.controls
           cut == [c EXCEPT !.regWrite = FALSE, !.memWrite = FALSE, !.memRead = FALSE]
<1>1. c = Controls(op)
  BY DEF WiresInv, OpcodesFollowPipeline
<1>2. /\ c.branch   <=> op \in BranchOps \cup {"J"}
      /\ c.memRead  <=> op = "LW"
      /\ c.memWrite <=> op = "SW"
      /\ c.regWrite <=> op \in AluOps \cup {"LW"}
      /\ c.memToReg <=> op = "LW"
  BY <1>1, ControlsOf
<1>3. cut.memToReg = c.memToReg /\ ~cut.regWrite /\ ~cut.memWrite /\ ~cut.memRead
  BY <1>1 DEF Controls
(* A branch has no effects that could be cut off. *)
<1>4. BranchTaken => op \notin AluOps \cup {"LW", "SW"}
  BY <1>2 DEF BranchTaken, BranchOps, AluOps, TwoSourceAlu
<1>5. ex_mem'.controls = IF BranchTaken THEN cut ELSE c
  BY DEF Step, ExecuteStage
<1>6. Controlled(ex_mem', op)
  <2> HIDE DEF cut, c
  <2> QED
    BY <1>2, <1>3, <1>4, <1>5 DEF Controlled
<1> QED
  BY <1>6 DEF Step, DecodeStage, ExecuteStage, MemoryStage, TrackOpcodes

LEMMA WiresStep == WiresInv /\ Step => WiresInv'
<1> SUFFICES ASSUME WiresInv, Step PROVE WiresInv'
  OBVIOUS
<1>1. /\ if_id.instruction \in Instruction /\ if_id'.instruction \in Instruction
      /\ if_id'.pcplus4 \in 0 .. PcMod - 1
  <2>0. pc + 1 \in Int
    BY SizeAssumption DEF WiresInv, TypeOK
  <2>1. if_id.instruction \in Instruction
    BY DEF WiresInv, WiresOK
  <2>2. Fetched(pc) \in Instruction
    BY FetchedTyped DEF WiresInv, WiresOK
  <2>3. (pc + 1) % PcMod \in 0 .. PcMod - 1
    BY <2>0, PcOf
  <2>4. if_id.pcplus4 \in 0 .. PcMod - 1
    BY DEF WiresInv, WiresOK
  <2> QED
    BY <2>1, <2>2, <2>3, <2>4, EmptyPipeline, NopTyped, ZeroTyped DEF Step, FetchStage
<1>2. pc' \in 0 .. PcMod - 1
  <2>1. /\ (pc + 1) % PcMod \in 0 .. PcMod - 1 /\ ResultW % PcMod \in 0 .. PcMod - 1
        /\ BranchTarget \in 0 .. PcMod - 1 /\ pc \in 0 .. PcMod - 1
    <3>1. pc \in 0 .. PcMod - 1 /\ pc + 1 \in Int
      BY SizeAssumption DEF WiresInv, TypeOK
    <3>2. ResultW \in Int /\ BranchTarget \in 0 .. PcMod - 1
      BY WordsOnWires, WordIsInt
    <3> QED
      BY <3>1, <3>2, PcOf
  <2> QED
    BY <2>1 DEF Step, FetchStage, PcPrime
<1>3. /\ id_ex'.data1 \in Word /\ id_ex'.data2 \in Word /\ id_ex'.immediate \in Int
      /\ id_ex'.pcplus4 \in 0 .. PcMod - 1
      /\ id_ex'.rs \in Register /\ id_ex'.rt \in Register /\ id_ex'.rd \in Register
  <2>1. CASE FlushE
    BY <2>1, BehindTheEdge, EmptyPipeline, ZeroTyped
  <2>2. CASE ~FlushE
    BY <1>1, <2>2, DecodedInstruction, WordsOnWires DEF Instruction, WiresInv, WiresOK
  <2> QED
    BY <2>1, <2>2
<1>4. regs' \in [Register -> Word]
  <2>1. regs \in [Register -> Word] /\ mem_wb.rd \in Register
    BY DEF WiresInv, TypeOK, WiresOK
  <2> QED
    BY <2>1, WordsOnWires DEF Step, WritebackStage
<1>5. mem' \in [0 .. DataWords - 1 -> Word]
  <2>1. mem \in [0 .. DataWords - 1 -> Word] /\ ex_mem.data2 \in Word
    BY DEF WiresInv, TypeOK
  <2> QED
    BY <2>1, WriteTyped DEF Step, MemoryStage
<1>6. TypeOK'
  BY <1>2, <1>3, <1>4, <1>5, BehindTheEdge, WordsOnWires DEF WiresInv, TypeOK
<1>7. WiresOK'
  <2>1. /\ if_id'.instruction.op \in Opcode /\ opcode.id \in Opcode
        /\ opcode.ex \in Opcode /\ opcode.mem \in Opcode
    BY <1>1 DEF Instruction, WiresInv, WiresOK
  <2>2. /\ opcode'.id \in Opcode /\ opcode'.ex \in Opcode
        /\ opcode'.mem \in Opcode /\ opcode'.wb \in Opcode
    BY <2>1, BehindTheEdge, ZeroTyped
  <2> QED
    BY <1>1, <1>3, <2>2, BehindTheEdge DEF WiresInv, WiresOK
<1>8. OpcodesFollowPipeline'
  <2>1. id_ex'.controls = Controls(opcode'.ex)
    <3>1. CASE FlushE
      BY <3>1, BehindTheEdge, EmptyPipeline
    <3>2. CASE ~FlushE
      <4>1. ~LoadUse(id_ex, if_id)
        BY <3>2 DEF FlushE
      <4>2. opcode.id = if_id.instruction.op
        BY <4>1 DEF WiresInv, OpcodesFollowPipeline
      <4> QED
        BY <3>2, <4>2, BehindTheEdge, DecodedInstruction
    <3> QED
      BY <3>1, <3>2
  <2>2. LoadUse(id_ex', if_id') \/ opcode'.id = if_id'.instruction.op
    <3>1. FlushD => if_id'.instruction.op = "NOP"
      BY EmptyPipeline, NopTyped DEF Step, FetchStage
    <3> QED
      BY <3>1, BehindTheEdge
  <2> QED
    BY <2>1, <2>2 DEF OpcodesFollowPipeline, LoadUse
<1>9. BackEndFollowsOpcodes'
  BY BehindTheEdge DEF WiresInv, BackEndFollowsOpcodes, Controlled
<1> QED
  BY <1>6, <1>7, <1>8, <1>9 DEF WiresInv

LEMMA WiresInvariant == Spec => []WiresInv
<1>1. WiresInv /\ UNCHANGED vars => WiresInv'
  BY DEF vars, pipeline, WiresInv, TypeOK, WiresOK, OpcodesFollowPipeline,
         BackEndFollowsOpcodes, Controlled, LoadUse
<1>2. WiresInv /\ [Next]_vars => WiresInv'
  BY <1>1, WiresStep, WiresReset DEF Next
<1> QED
  BY <1>2, WiresInit, PTL DEF Spec

(* Every wire of the pipeline carries a word of its width, for every        *)
(* program, one that writes the PC like a register included.                *)
THEOREM TypeCorrect == Spec => []TypeOK
<1>1. WiresInv => TypeOK
  BY DEF WiresInv
<1> QED
  BY <1>1, WiresInvariant, PTL

(* The opcodes tracked beside the pipeline registers, on which branch       *)
(* conditions and the halt depend, stay with the instructions they name,    *)
(* for every program and through every stall, flush and reset.              *)
THEOREM OpcodesTracked == Spec => []OpcodesFollowPipeline
<1>1. WiresInv => OpcodesFollowPipeline
  BY DEF WiresInv
<1> QED
  BY <1>1, WiresInvariant, PTL
-----------------------------------------------------------------------------
(* The other two parts hold for programs that leave the PC to the branches. *)

LEMMA FetchedLeavesPc ==
    ASSUME \A p \in Programs : LeavesPcAlone(p), rom \in Programs, NEW p,
           WritesRegister(Fetched(p))
    PROVE  Fetched(p).rd # PcRegister
<1>1. ~WritesRegister(Nop)
  BY NopTyped DEF WritesRegister, AluOps, TwoSourceAlu
<1>2. Fetched(p) = Nop \/ \E i \in DOMAIN rom : Fetched(p) = rom[i]
  BY DEF Fetched, Memory!InstructionAt, Memory!Nop, Nop, Memory!Instr, Instr
<1> QED
  BY <1>1, <1>2 DEF LeavesPcAlone

LEMMA PcNotWrittenStep ==
    ASSUME \A p \in Programs : LeavesPcAlone(p), WiresInv, PcNotWritten, Step
    PROVE  PcNotWritten'
<1>1. WritesRegister(if_id'.instruction) => if_id'.instruction.rd # PcRegister
  <2>1. ~WritesRegister(Nop)
    BY NopTyped DEF WritesRegister, AluOps, TwoSourceAlu
  <2>2. WritesRegister(Fetched(pc)) => Fetched(pc).rd # PcRegister
    BY FetchedLeavesPc DEF WiresInv, WiresOK
  <2>3. if_id'.instruction \in {Nop, if_id.instruction, Fetched(pc)}
    BY EmptyPipeline DEF Step, FetchStage
  <2> QED
    BY <2>1, <2>2, <2>3 DEF PcNotWritten
<1>2. id_ex'.controls.regWrite => id_ex'.rd # PcRegister
  <2>1. CASE FlushE
    BY <2>1, BehindTheEdge, EmptyPipeline, ControlsOf DEF AluOps, TwoSourceAlu
  <2>2. CASE ~FlushE
    BY <2>2, DecodedInstruction, ControlsOf DEF PcNotWritten, WritesRegister
  <2> QED
    BY <2>1, <2>2
<1>3. ex_mem'.controls.regWrite => ex_mem'.rd # PcRegister
  BY BehindTheEdge, ControlsOf
     DEF PcNotWritten, Controlled, WiresInv, OpcodesFollowPipeline
<1>4. mem_wb'.controls.regWrite => mem_wb'.rd # PcRegister
  BY BehindTheEdge DEF PcNotWritten
<1> QED
  BY <1>1, <1>2, <1>3, <1>4 DEF PcNotWritten

(* The register file at the clock edge is what decode reads around it. *)
LEMMA OperandsAtTheEdge ==
    ASSUME WiresInv, Step, NEW r \in Register
    PROVE  regs'[r] = Operand(r)
BY DEF Step, WritebackStage, Operand, WiresInv, TypeOK

(* The PC moves on unless something holds it or redirects it. *)
LEMMA NextPc ==
    ASSUME WiresInv, PcNotWritten, FetchesInside, Step
    PROVE  /\ BranchTaken => pc' = BranchTarget
           /\ ~BranchTaken => pc' = IF PcEnable THEN pc + 1 ELSE pc
           /\ (pc + 1) % PcMod = pc + 1
<1>1. (pc + 1) % PcMod = pc + 1
  BY SizeAssumption DEF FetchesInside, WiresInv, TypeOK
<1>2. ~R15Written
  BY DEF PcNotWritten, R15Written
<1>3. BranchTaken => PcEnable
  BY DEF PcEnable, HaltFetched, Stall
<1> QED
  BY <1>1, <1>2, <1>3 DEF Step, FetchStage, PcPrime

(* A bubble waits for nothing. *)
LEMMA BubbleWaitsForNothing ==
    ASSUME WiresInv, opcode.ex = "NOP"
    PROVE  ~BranchTaken /\ ~LoadUse(id_ex, if_id) /\ ~FlushE /\ ~FlushD /\ ~Stall
BY ControlsOf DEF WiresInv, OpcodesFollowPipeline, BranchTaken, LoadUse, FlushE, FlushD,
                  Stall, BranchOps

LEMMA FrontEndStep ==
    ASSUME WiresInv, PcNotWritten, FrontEndInOrder, FetchesInside, Step
    PROVE  FrontEndInOrder'
<1> USE DEF IsBubble
<1>1. /\ FlushD => if_id' = EmptyIF_ID /\ FlushE
      /\ ~FlushD /\ Stall => if_id' = if_id /\ FlushE /\ ~IsBubble(if_id)
      /\ ~FlushD /\ ~Stall => /\ ~FlushE
                              /\ if_id'.instruction = Fetched(pc)
                              /\ if_id'.pcplus4 = pc + 1
  <2>1. IsBubble(if_id) => ~Stall
    BY BubbleWaitsForNothing DEF FrontEndInOrder
  <2> QED
    BY <2>1, NextPc DEF Step, FetchStage, FlushD, FlushE, Stall
<1>2. pc \in Nat /\ pc + 1 # 0
  BY DEF WiresInv, TypeOK
<1>3. IsBubble(if_id') <=> FlushD
  BY <1>1, <1>2, EmptyPipeline
<1>4. IsBubble(if_id') => if_id'.instruction = Nop /\ IsBubble(id_ex')
  BY <1>1, <1>3, EmptyPipeline, BehindTheEdge
<1>5. IsBubble(id_ex') => opcode'.ex = "NOP"
  <2>1. CASE FlushE
    BY <2>1, BehindTheEdge
  <2>2. CASE ~FlushE
    <3>1. IsBubble(id_ex') => IsBubble(if_id)
      BY <2>2, DecodedInstruction
    <3>2. opcode'.ex = if_id.instruction.op
      BY <2>2, BehindTheEdge DEF WiresInv, OpcodesFollowPipeline, FlushE
    <3> QED
      BY <3>1, <3>2, NopTyped DEF FrontEndInOrder
  <2> QED
    BY <2>1, <2>2
<1>6. ~IsBubble(if_id') => if_id'.instruction = Fetched(if_id.pcplus4 - 1)'
  <2> SUFFICES ASSUME ~IsBubble(if_id')
               PROVE  if_id'.instruction = Fetched(if_id.pcplus4 - 1)'
    OBVIOUS
  <2>1. rom' = rom
    BY BehindTheEdge
  <2>2. Fetched(if_id.pcplus4 - 1)' = Fetched(if_id'.pcplus4 - 1)
    BY <2>1 DEF Fetched, Memory!InstructionAt
  <2>3. CASE Stall
    BY <1>1, <1>3, <2>2, <2>3 DEF FrontEndInOrder
  <2>4. CASE ~Stall
    <3>1. if_id'.pcplus4 - 1 = pc
      BY <1>1, <1>2, <1>3, <2>4
    <3> QED
      BY <1>1, <1>3, <2>2, <2>4, <3>1
  <2> QED
    BY <2>3, <2>4
<1>7. ASSUME ~IsBubble(id_ex')
      PROVE  /\ ~FlushE /\ ~IsBubble(if_id)
             /\ id_ex'.pcplus4 = if_id.pcplus4 /\ opcode'.ex = if_id.instruction.op
  <2>1. ~FlushE
    BY <1>7, BehindTheEdge, EmptyPipeline
  <2>2. opcode'.ex = if_id.instruction.op
    BY <2>1, BehindTheEdge DEF WiresInv, OpcodesFollowPipeline, FlushE
  <2> QED
    BY <1>7, <2>1, <2>2, DecodedInstruction
<1>8. ~IsBubble(id_ex') =>
         /\ Holds(id_ex, Fetched(id_ex.pcplus4 - 1))'
         /\ id_ex'.data1 = regs'[id_ex'.rs] /\ id_ex'.data2 = regs'[id_ex'.rt]
         /\ ex_mem'.controls.memToReg => ex_mem'.rd \notin {id_ex'.rs, id_ex'.rt}
  <2> SUFFICES ASSUME ~IsBubble(id_ex')
               PROVE  /\ Holds(id_ex, Fetched(id_ex.pcplus4 - 1))'
                      /\ id_ex'.data1 = regs'[id_ex'.rs] /\ id_ex'.data2 = regs'[id_ex'.rt]
                      /\ ex_mem'.controls.memToReg => ex_mem'.rd \notin {id_ex'.rs, id_ex'.rt}
    OBVIOUS
  <2>1. Fetched(id_ex.pcplus4 - 1)' = if_id.instruction
    BY <1>7, BehindTheEdge DEF FrontEndInOrder, Fetched, Memory!InstructionAt
  <2>2. Holds(id_ex, Fetched(id_ex.pcplus4 - 1))'
    BY <1>7, <2>1, DecodedInstruction DEF Holds
  <2>3. if_id.instruction.rs1 \in Register /\ if_id.instruction.rs2 \in Register
    BY DEF WiresInv, WiresOK, Instruction
  <2>4. id_ex'.data1 = regs'[id_ex'.rs] /\ id_ex'.data2 = regs'[id_ex'.rt]
    BY <1>7, <2>3, DecodedInstruction, OperandsAtTheEdge
  <2>5. ex_mem'.controls.memToReg => ex_mem'.rd \notin {id_ex'.rs, id_ex'.rt}
    <3>1. ~LoadUse(id_ex, if_id)
      BY <1>7 DEF FlushE
    <3>2. ex_mem'.controls.memToReg => id_ex.controls.memToReg
      BY BehindTheEdge, ControlsOf DEF Controlled, WiresInv, OpcodesFollowPipeline
    <3> QED
      BY <1>7, <3>1, <3>2, DecodedInstruction, BehindTheEdge DEF LoadUse
  <2> QED
    BY <2>2, <2>4, <2>5
<1>9. ASSUME Running', opcode'.ex # "HALT"
      PROVE  /\ ~IsBubble(id_ex') => if_id'.pcplus4 = id_ex'.pcplus4 + 1
             /\ ~IsBubble(if_id') /\ if_id'.instruction.op # "HALT" => pc' = if_id'.pcplus4
  <2>1. Running /\ opcode.ex # "HALT"
    BY <1>9, BehindTheEdge DEF Running, Step, Halted
  <2>2. ~IsBubble(if_id) /\ if_id.instruction.op # "HALT" => pc = if_id.pcplus4
    BY <2>1 DEF FrontEndInOrder
  <2>3. ~IsBubble(id_ex') => if_id'.pcplus4 = id_ex'.pcplus4 + 1
    <3> SUFFICES ASSUME ~IsBubble(id_ex') PROVE if_id'.pcplus4 = id_ex'.pcplus4 + 1
      OBVIOUS
    <3>1. ~FlushD /\ ~Stall
      BY <1>7 DEF FlushD, FlushE, Stall
    <3> QED
      BY <1>1, <1>7, <1>9, <2>2, <3>1
  <2>4. ASSUME ~IsBubble(if_id'), if_id'.instruction.op # "HALT"
        PROVE  pc' = if_id'.pcplus4
    <3>1. ~FlushD /\ ~BranchTaken
      BY <1>3, <2>4 DEF FlushD
    <3>2. CASE Stall
      <4>1. pc' = pc
        BY <3>1, <3>2, NextPc DEF PcEnable
      <4> QED
        BY <1>1, <2>2, <2>4, <3>1, <3>2, <4>1
    <3>3. CASE ~Stall
      <4>1. opcode.id = if_id.instruction.op /\ opcode'.ex = opcode.id
        BY <1>1, <3>1, <3>3, BehindTheEdge DEF WiresInv, OpcodesFollowPipeline, FlushE
      <4>2. PcEnable
        BY <1>9, <2>1, <3>3, <4>1 DEF PcEnable, HaltFetched, Running
      <4> QED
        BY <1>1, <3>1, <3>3, <4>2, NextPc
    <3> QED
      BY <3>2, <3>3
  <2> QED
    BY <2>3, <2>4
<1> QED
  BY <1>4, <1>5, <1>6, <1>8, <1>9 DEF FrontEndInOrder
LEMMA FrontEndInit == Init => PcNotWritten /\ FrontEndInOrder
<1>1. ~WritesRegister(Nop) /\ ~Controls("NOP").regWrite
  BY NopTyped, ControlsOf DEF WritesRegister, AluOps, TwoSourceAlu
<1>2. Init => PcNotWritten
  BY <1>1, EmptyPipeline DEF Init, PcNotWritten
<1>3. Init => FrontEndInOrder
  BY EmptyPipeline DEF Init, FrontEndInOrder, IsBubble
<1> QED
  BY <1>2, <1>3

LEMMA FrontEndReset == Reset => PcNotWritten' /\ FrontEndInOrder'
<1>1. ~WritesRegister(Nop) /\ ~Controls("NOP").regWrite
  BY NopTyped, ControlsOf DEF WritesRegister, AluOps, TwoSourceAlu
<1>2. Reset => PcNotWritten'
  BY <1>1, EmptyPipeline DEF Reset, PcNotWritten
<1>3. Reset => FrontEndInOrder'
  BY EmptyPipeline DEF Reset, FrontEndInOrder, IsBubble
<1> QED
  BY <1>2, <1>3

-----------------------------------------------------------------------------
(* The instruction in EX and the sequential machine.                        *)

LEMMA OneInstruction ==
    ASSUME NEW s
    PROVE  Meaning!After(s, 1) = IF s.pc = Meaning!Stopped THEN s
                                 ELSE Meaning!Execute(Meaning!InstructionAt(rom, s.pc), s)
<1> DEFINE next(t) == IF t.pc = Meaning!Stopped THEN t
                      ELSE Meaning!Execute(Meaning!InstructionAt(rom, t.pc), t)
           F(f) == [i \in 0 .. 1 |-> IF i = 0 THEN s ELSE next(f[i - 1])]
           g == [i \in 0 .. 1 |-> IF i = 0 THEN s ELSE next(s)]
           run == CHOOSE f : f = F(f)
<1>1. g[0] = s /\ g[1] = next(s)
  OBVIOUS
<1>2. g = F(g)
  <2>1. \A i \in 0 .. 1 : (IF i = 0 THEN s ELSE next(g[i - 1])) = IF i = 0 THEN s ELSE next(s)
    <3> TAKE i \in 0 .. 1
    <3>1. CASE i = 0
      BY <3>1
    <3>2. CASE i = 1
      <4>1. g[i - 1] = s
        BY <1>1, <3>2
      <4> QED
        BY <4>1
    <3> QED
      BY <3>1, <3>2
  <2> QED
    BY <2>1
<1>3. run = F(run)
  <2>1. \E f : f = F(f)
    BY <1>2
  <2> HIDE DEF F
  <2> QED
    BY <2>1
<1>4. Meaning!After(s, 1) = run[1]
  BY DEF Meaning!After
<1>5. run[0] = s /\ run[1] = next(run[0])
  <2>1. \A i \in 0 .. 1 : run[i] = IF i = 0 THEN s ELSE next(run[i - 1])
    <3> HIDE DEF run, next
    <3> QED
      BY <1>3
  <2> HIDE DEF run, next
  <2>2. run[0] = s
    BY <2>1
  <2>3. run[1] = next(run[1 - 1])
    BY <2>1
  <2>4. 1 - 1 = 0
    OBVIOUS
  <2> QED
    BY <2>2, <2>3, <2>4
<1> QED
  BY <1>4, <1>5
(* What an instruction computes in EX. *)
LEMMA AluAgrees ==
    ASSUME NEW ins \in Instruction, NEW x \in Word, NEW y \in Word, NEW r,
           r = Alu(Controls(ins.op).aluOp, x,
                   IF Controls(ins.op).aluSrc THEN ins.imm % WordMod ELSE y)
    PROVE  /\ ins.op \in AluOps => r = Meaning!AluResult(ins, x, y)
           /\ ins.op \in {"LW", "SW"} => r = Meaning!EffectiveAddress(ins, x)
           /\ ins.op \in BranchOps => (r = 0 <=> x = y)
<1> DEFINE op == ins.op
           i  == ins.imm
<1>1. /\ op \in {"LI", "ADDI", "LW", "SW"} =>
            r = Alu(Controls(op).aluOp, x, i % WordMod)
      /\ op \notin {"LI", "ADDI", "LW", "SW"} => r = Alu(Controls(op).aluOp, x, y)
  BY ControlsOf
<1>2. (x + (i % WordMod)) % WordMod = (x + i) % WordMod
  <2>1. x \in Int /\ i \in Int /\ WordMod \in Nat \ {0}
    BY WordIsInt, SizeAssumption DEF Instruction
  <2> QED
    BY <2>1, RemainderOfSum
<1>3. op \in {"LW", "SW"} => r = Meaning!EffectiveAddress(ins, x)
  <2>1. op \in {"LW", "SW"} => Controls(op).aluOp = "ADD"
    BY AluOpOf DEF BranchOps
  <2> QED
    BY <1>1, <1>2, <2>1 DEF Alu, Meaning!EffectiveAddress
<1>4. op \in BranchOps => (r = 0 <=> x = y)
  <2>1. op \in BranchOps => r = (x - y) % WordMod
    BY <1>1, AluOpOf DEF Alu, BranchOps
  <2> QED
    BY <2>1, DifferenceIsZero, SizeAssumption DEF Word
<1>5. op \in {"LI", "ADDI"} => r = Meaning!AluResult(ins, x, y)
  <2>1. /\ op = "LI" => Controls(op).aluOp = "PASS_B"
        /\ op = "ADDI" => Controls(op).aluOp = "ADD"
    BY AluOpOf DEF BranchOps
  <2> QED
    BY <1>1, <1>2, <2>1 DEF Alu, Meaning!AluResult
<1>6. op \in TwoSourceAlu \cup {"NOT"} => r = Meaning!AluResult(ins, x, y)
  <2>1. op \in TwoSourceAlu \cup {"NOT"} => Controls(op).aluOp = op
    BY AluOpOf DEF BranchOps, TwoSourceAlu
  <2> QED
    BY <1>1, <2>1 DEF Alu, Meaning!AluResult, TwoSourceAlu
<1> QED
  BY <1>3, <1>4, <1>5, <1>6 DEF AluOps

(* Forwarding gives EX the registers as the instructions in front of it     *)
(* leave them.                                                              *)
LEMMA ArchRegsTyped ==
    ASSUME WiresInv
    PROVE  ArchRegs \in [Register -> Word]
<1>1. regs \in [Register -> Word] /\ mem_wb.rd \in Register /\ ex_mem.rd \in Register
  BY DEF WiresInv, TypeOK, WiresOK
<1>2. ResultW \in Word /\ ReadDataM \in Word /\ ex_mem.alu \in Word
  BY WordsOnWires DEF WiresInv, TypeOK
<1>3. WrittenBack \in [Register -> Word]
  BY <1>1, <1>2 DEF WrittenBack
<1> QED
  BY <1>1, <1>2, <1>3 DEF ArchRegs

LEMMA ForwardedIsArchitectural ==
    ASSUME WiresInv, ~Halted, NEW r \in Register,
           ex_mem.controls.memToReg => ex_mem.rd # r
    PROVE  Forwarded(r, regs[r]) = ArchRegs[r]
<1>1. regs \in [Register -> Word] /\ mem_wb.rd \in Register /\ ex_mem.rd \in Register
  BY DEF WiresInv, TypeOK, WiresOK
<1>2. WrittenBack[r] = IF mem_wb.controls.regWrite /\ mem_wb.rd = r THEN ResultW ELSE regs[r]
  BY <1>1 DEF WrittenBack
<1>3. DOMAIN WrittenBack = Register
  BY <1>1 DEF WrittenBack
<1>4. ArchRegs[r] = IF ex_mem.controls.regWrite /\ ex_mem.rd = r THEN ex_mem.alu
                    ELSE WrittenBack[r]
  BY <1>3 DEF ArchRegs
<1> QED
  BY <1>2, <1>4 DEF Forwarded

(* The clock edge as the architectural registers and memory see it: they    *)
(* take in what the instruction leaving EX will write.                      *)
LEMMA ArchitecturalEdge ==
    ASSUME WiresInv, Step
    PROVE  /\ opcode.mem = "HALT" => ArchRegs' = ArchRegs /\ ArchMem' = ArchMem
           /\ opcode.mem # "HALT" =>
                 /\ ArchRegs' = IF opcode.ex \in AluOps \cup {"LW"}
                                THEN [ArchRegs EXCEPT ![id_ex.rd] =
                                        IF opcode.ex = "LW"
                                        THEN Memory!ReadData(ArchMem, AluE) ELSE AluE]
                                ELSE ArchRegs
                 /\ ArchMem' = IF opcode.ex = "SW"
                               THEN Memory!WriteData(ArchMem, AluE, WriteDataE) ELSE ArchMem
<1>1. ~Halted /\ (Halted' <=> opcode.mem = "HALT")
  BY BehindTheEdge DEF Step, Halted
<1>2. mem' = ArchMem
  BY <1>1 DEF Step, MemoryStage, ArchMem
<1>3. regs' = WrittenBack
  BY DEF Step, WritebackStage, WrittenBack
<1>4. WrittenBack' = ArchRegs
  <2>1. /\ mem_wb'.controls = ex_mem.controls /\ mem_wb'.rd = ex_mem.rd
        /\ ResultW' = IF ex_mem.controls.memToReg THEN ReadDataM ELSE ex_mem.alu
    BY BehindTheEdge DEF ResultW
  <2> QED
    BY <1>1, <1>3, <2>1 DEF WrittenBack, ArchRegs
<1>5. CASE opcode.mem = "HALT"
  <2>1. ~ex_mem.controls.regWrite /\ ~ex_mem.controls.memWrite
    BY <1>5 DEF WiresInv, BackEndFollowsOpcodes, Controlled, AluOps, TwoSourceAlu
  <2>2. ArchRegs = WrittenBack /\ ArchRegs' = regs'
    BY <1>1, <1>5, <2>1 DEF ArchRegs
  <2>3. ArchMem' = mem'
    BY <1>1, <1>5 DEF ArchMem
  <2> QED
    BY <1>2, <1>3, <1>5, <2>2, <2>3
<1>6. CASE opcode.mem # "HALT"
  <2>1. /\ ex_mem'.controls.regWrite <=> opcode.ex \in AluOps \cup {"LW"}
        /\ ex_mem'.controls.memRead  <=> opcode.ex = "LW"
        /\ ex_mem'.controls.memWrite <=> opcode.ex = "SW"
        /\ ex_mem'.controls.memToReg <=> opcode.ex = "LW"
        /\ ex_mem'.alu = AluE /\ ex_mem'.data2 = WriteDataE /\ ex_mem'.rd = id_ex.rd
    BY BehindTheEdge DEF Controlled
  <2>2. opcode.ex = "LW" => ReadDataM' = Memory!ReadData(ArchMem, AluE)
    BY <1>2, <2>1 DEF ReadDataM, Memory!ReadData, Memory!DataIndex
  <2>3. ArchRegs' = IF opcode.ex \in AluOps \cup {"LW"}
                    THEN [ArchRegs EXCEPT ![id_ex.rd] =
                            IF opcode.ex = "LW"
                            THEN Memory!ReadData(ArchMem, AluE) ELSE AluE]
                    ELSE ArchRegs
    BY <1>1, <1>4, <1>6, <2>1, <2>2 DEF ArchRegs
  <2>4. ArchMem' = IF opcode.ex = "SW"
                   THEN Memory!WriteData(ArchMem, AluE, WriteDataE) ELSE ArchMem
    BY <1>1, <1>2, <1>6, <2>1 DEF ArchMem, Memory!WriteData, Memory!DataIndex, Memory!Writable
  <2> QED
    BY <1>6, <2>3, <2>4
<1> QED
  BY <1>5, <1>6
InOrderInv == WiresInv /\ PcNotWritten /\ FrontEndInOrder

ArchState == [pc |-> ArchPc, regs |-> ArchRegs, mem |-> ArchMem]

(* No instruction leaves EX: HALT is behind it, or there is a bubble in it. *)
LEMMA NothingLeavesEX ==
    ASSUME InOrderInv, FetchesInside, Step, opcode.mem = "HALT" \/ IsBubble(id_ex)
    PROVE  ArchState' = ArchState /\ rom' = rom
<1>1. opcode.wb # "HALT"
  BY DEF Step, Halted
<1>2. CASE opcode.mem = "HALT"
  <2>1. ArchPc = -1 /\ ArchPc' = -1
    BY <1>2, BehindTheEdge DEF ArchPc, InOrderInv
  <2> QED
    BY <1>2, <2>1, ArchitecturalEdge, BehindTheEdge DEF InOrderInv, ArchState
<1>3. CASE opcode.mem # "HALT" /\ IsBubble(id_ex)
  <2>1. opcode.ex = "NOP" /\ ~FlushE /\ ~FlushD /\ ~Stall
    BY <1>3, BubbleWaitsForNothing DEF InOrderInv, FrontEndInOrder
  <2>2. ArchRegs' = ArchRegs /\ ArchMem' = ArchMem
    BY <1>3, <2>1, ArchitecturalEdge DEF InOrderInv, AluOps, TwoSourceAlu
  <2>3. /\ id_ex'.pcplus4 = if_id.pcplus4 /\ if_id'.pcplus4 = pc + 1
        /\ opcode'.mem # "HALT" /\ opcode'.wb # "HALT"
    BY <1>3, <2>1, BehindTheEdge, DecodedInstruction, NextPc
       DEF InOrderInv, Step, FetchStage
  <2>4. ArchPc' = ArchPc
    <3>1. pc \in Nat
      BY DEF InOrderInv, WiresInv, TypeOK
    <3> QED
      BY <1>1, <1>3, <2>3, <3>1 DEF ArchPc, IsBubble
  <2> QED
    BY <2>2, <2>4, BehindTheEdge DEF InOrderInv, ArchState
<1> QED
  BY <1>2, <1>3

(* An instruction leaves EX: it has the effect it has in the single-cycle   *)
(* CPU.                                                                     *)
LEMMA InstructionLeavesEX ==
    ASSUME InOrderInv, FetchesInside, Step, opcode.mem # "HALT", ~IsBubble(id_ex)
    PROVE  Meaning!Retire(1)
<1> DEFINE p   == id_ex.pcplus4 - 1
           ins == Fetched(p)
           x   == ArchRegs[ins.rs1]
           y   == ArchRegs[ins.rs2]
<1>1. opcode.wb # "HALT" /\ ~Halted
  BY DEF Step, Halted
<1>2. /\ ins \in Instruction /\ p \in 0 .. PcMod - 2 /\ p + 1 = id_ex.pcplus4
      /\ ArchPc = p /\ ArchPc # -1
  <2>1. id_ex.pcplus4 \in 0 .. PcMod - 1 /\ id_ex.pcplus4 # 0
    BY DEF InOrderInv, WiresInv, WiresOK, IsBubble
  <2>2. p \in 0 .. PcMod - 2 /\ p + 1 = id_ex.pcplus4
    BY <2>1, SizeAssumption
  <2>3. ArchPc = p
    BY <1>1 DEF ArchPc
  <2>4. ins \in Instruction
    BY FetchedTyped DEF InOrderInv, WiresInv, WiresOK
  <2>5. p # -1
    BY <2>2
  <2> QED
    BY <2>2, <2>3, <2>4, <2>5
<1>3. /\ opcode.ex = ins.op /\ id_ex.controls = Controls(ins.op)
      /\ id_ex.immediate = ins.imm
      /\ id_ex.rs = ins.rs1 /\ id_ex.rt = ins.rs2 /\ id_ex.rd = ins.rd
  BY DEF InOrderInv, FrontEndInOrder, Holds, WiresInv, OpcodesFollowPipeline
<1>4. SrcA = x /\ WriteDataE = y /\ x \in Word /\ y \in Word
  <2>1. ins.rs1 \in Register /\ ins.rs2 \in Register
    BY <1>2 DEF Instruction
  <2>2. x \in Word /\ y \in Word
    BY <2>1, ArchRegsTyped DEF InOrderInv
  <2>3. /\ id_ex.data1 = regs[ins.rs1] /\ id_ex.data2 = regs[ins.rs2]
        /\ ex_mem.controls.memToReg => ex_mem.rd \notin {ins.rs1, ins.rs2}
    BY <1>3 DEF InOrderInv, FrontEndInOrder
  <2>4. SrcA = x
    BY <1>1, <1>3, <2>1, <2>3, ForwardedIsArchitectural DEF InOrderInv, SrcA
  <2>5. WriteDataE = y
    BY <1>1, <1>3, <2>1, <2>3, ForwardedIsArchitectural DEF InOrderInv, WriteDataE
  <2> QED
    BY <2>2, <2>4, <2>5
<1>5. /\ ins.op \in AluOps => AluE = Meaning!AluResult(ins, x, y)
      /\ ins.op \in {"LW", "SW"} => AluE = Meaning!EffectiveAddress(ins, x)
      /\ ins.op \in BranchOps => (AluE = 0 <=> x = y)
  <2>1. AluE = Alu(Controls(ins.op).aluOp, x,
                   IF Controls(ins.op).aluSrc THEN ins.imm % WordMod ELSE y)
    BY <1>3, <1>4 DEF AluE, SrcB
  <2> HIDE DEF x, y, ins
  <2> QED
    BY <1>2, <1>4, <2>1, AluAgrees
<1> HIDE DEF x, y, ins
<1>6. BranchTaken <=> Meaning!IsControlFlow(ins) /\ Meaning!Taken(ins, x, y)
  <2>1. id_ex.controls.branch <=> ins.op \in BranchOps \cup {"J"}
    BY <1>3, ControlsOf
  <2> QED
    BY <1>3, <1>5, <2>1 DEF BranchTaken, BranchOps, Meaning!IsControlFlow, Meaning!Taken,
                            Meaning!BranchOps
<1>7. BranchTarget = Meaning!Target(ins, p) /\ (p + 1) % PcMod = p + 1
  <2>1. id_ex.pcplus4 + ins.imm = p + 1 + ins.imm
    BY <1>2
  <2>2. Meaning!Target(ins, p) = (p + 1 + ins.imm) % PcMod
    BY SizeAssumption DEF Meaning!Target
  <2>3. (p + 1) % PcMod = p + 1
    BY <1>2, SizeAssumption
  <2> QED
    BY <1>3, <2>1, <2>2, <2>3 DEF BranchTarget
<1>8. ArchPc' = CASE ins.op = "HALT" -> -1
                  [] BranchTaken -> BranchTarget
                  [] OTHER -> p + 1
  <2>1. opcode'.mem = ins.op /\ opcode'.wb # "HALT"
    BY <1>3, BehindTheEdge DEF InOrderInv
  <2>2. ins.op = "HALT" => ~BranchTaken
    BY <1>6 DEF Meaning!IsControlFlow, Meaning!BranchOps
  <2>3. CASE ins.op = "HALT"
    BY <2>1, <2>2, <2>3 DEF ArchPc
  <2>4. CASE ins.op # "HALT" /\ BranchTaken
    <3>1. if_id'.pcplus4 = 0 /\ id_ex'.pcplus4 = 0 /\ pc' = BranchTarget
      BY <2>4, EmptyPipeline, BehindTheEdge, NextPc
         DEF InOrderInv, Step, FetchStage, FlushD, FlushE
    <3> QED
      BY <2>1, <2>4, <3>1 DEF ArchPc, IsBubble
  <2>5. CASE ins.op # "HALT" /\ ~BranchTaken
    <3>1. if_id.pcplus4 = p + 2
      BY <1>1, <1>2, <1>3, <2>5 DEF InOrderInv, FrontEndInOrder, Running
    <3>2. CASE LoadUse(id_ex, if_id)
      <4>1. if_id' = if_id /\ id_ex'.pcplus4 = 0
        BY <2>5, <3>2, EmptyPipeline, BehindTheEdge
           DEF InOrderInv, Step, FetchStage, FlushD, FlushE, Stall
      <4> QED
        BY <1>2, <2>1, <2>5, <3>1, <4>1 DEF ArchPc, IsBubble
    <3>3. CASE ~LoadUse(id_ex, if_id)
      <4>1. id_ex'.pcplus4 = if_id.pcplus4
        BY <2>5, <3>3, DecodedInstruction DEF FlushE
      <4> QED
        BY <1>2, <2>1, <2>5, <3>1, <4>1 DEF ArchPc, IsBubble
    <3> QED
      BY <3>2, <3>3
  <2> HIDE DEF p
  <2> QED
    BY <2>3, <2>4, <2>5
<1>9. Meaning!InstructionAt(rom, p) = ins
  BY DEF ins, Fetched, Memory!InstructionAt, Meaning!InstructionAt, Memory!Nop, Meaning!Nop,
         Memory!Instr, Meaning!Instr
<1>10. ArchState' = Meaning!Execute(ins, ArchState)
  <2>1. /\ ArchState.pc = p /\ ArchState.regs = ArchRegs /\ ArchState.mem = ArchMem
        /\ x = ArchState.regs[ins.rs1] /\ y = ArchState.regs[ins.rs2]
    BY <1>2 DEF ArchState, x, y
  <2>2. ArchPc' = CASE ins.op = "HALT" -> Meaning!Stopped
                    [] Meaning!IsControlFlow(ins) /\ Meaning!Taken(ins, x, y) ->
                          Meaning!Target(ins, p)
                    [] OTHER -> (p + 1) % PcMod
    BY <1>6, <1>7, <1>8 DEF Meaning!Stopped
  <2>3. ArchRegs' = CASE ins.op \in Meaning!AluOps ->
                            [ArchRegs EXCEPT ![ins.rd] = Meaning!AluResult(ins, x, y)]
                      [] ins.op = "LW" ->
                            [ArchRegs EXCEPT ![ins.rd] =
                               Meaning!ReadData(ArchMem, Meaning!EffectiveAddress(ins, x))]
                      [] OTHER -> ArchRegs
    BY <1>3, <1>5, ArchitecturalEdge
       DEF InOrderInv, Meaning!AluOps, Meaning!TwoSourceAlu, AluOps, TwoSourceAlu,
           Memory!ReadData, Memory!DataIndex, Meaning!ReadData, Meaning!DataIndex
  <2>4. ArchMem' = IF ins.op = "SW"
                   THEN Meaning!WriteData(ArchMem, Meaning!EffectiveAddress(ins, x), y)
                   ELSE ArchMem
    BY <1>3, <1>4, <1>5, ArchitecturalEdge
       DEF InOrderInv, Memory!WriteData, Memory!DataIndex, Memory!Writable,
           Meaning!WriteData, Meaning!DataIndex, Meaning!Writable
  <2> QED
    BY <2>1, <2>2, <2>3, <2>4 DEF ArchState, Meaning!Execute
<1>11. rom' = rom
  BY BehindTheEdge DEF InOrderInv
<1>12. Meaning!After(ArchState, 1) = Meaning!Execute(ins, ArchState)
  <2>1. ArchState.pc = p /\ p # Meaning!Stopped
    BY <1>2 DEF ArchState, Meaning!Stopped
  <2> QED
    BY <1>9, <2>1, OneInstruction
<1> QED
  BY <1>2, <1>10, <1>11, <1>12 DEF Meaning!Retire, Meaning!Stopped, ArchState
LEMMA ResetRestarts ==
    ASSUME InOrderInv, Reset
    PROVE  Meaning!Restart
<1>1. /\ opcode' = [id |-> "NOP", ex |-> "NOP", mem |-> "NOP", wb |-> "NOP"]
      /\ pc' = 0 /\ if_id' = EmptyIF_ID /\ id_ex' = EmptyID_EX
      /\ ex_mem' = EmptyEX_MEM /\ mem_wb' = EmptyMEM_WB
      /\ regs' = [r \in Register |-> 0] /\ rom' = rom
  BY DEF Reset
<1>2. ~Halted' /\ ~ex_mem'.controls.regWrite /\ ~ex_mem'.controls.memWrite
      /\ ~mem_wb'.controls.regWrite
  BY <1>1, EmptyPipeline, ControlsOf DEF Halted, AluOps, TwoSourceAlu
<1>3. ArchPc' = 0
  BY <1>1, EmptyPipeline DEF ArchPc, IsBubble
<1>4. ArchRegs' = [r \in Meaning!Register |-> 0]
  BY <1>1, <1>2 DEF ArchRegs, WrittenBack, Register, Meaning!Register
<1>5. ArchMem' = mem'
  BY <1>2 DEF ArchMem
<1>6. mem' \in [0 .. DataWords - 1 -> Word]
  BY WiresReset DEF InOrderInv, WiresInv, TypeOK
<1>7. DOMAIN ArchMem = 0 .. DataWords - 1
  BY DEF ArchMem, Memory!WriteData, InOrderInv, WiresInv, TypeOK
<1>8. ArchMem' \in [DOMAIN ArchMem -> Meaning!Word]
  BY <1>5, <1>6, <1>7 DEF Word, Meaning!Word
<1> QED
  BY <1>1, <1>3, <1>4, <1>8 DEF Meaning!Restart

(* Forwarding, stalls, flushes and resets do not show: for every program    *)
(* whose instructions do not write the PC like a register, and as long as   *)
(* the PC does not wrap, the instructions leave EX in program order and     *)
(* with the effect they have in the single-cycle CPU.                       *)
THEOREM ExecutesInProgramOrder ==
    ASSUME \A p \in Programs : LeavesPcAlone(p)
    PROVE  Spec /\ []FetchesInside => SequentialMeaning
<1>1. Init => InOrderInv /\ Meaning!Init
  <2> SUFFICES ASSUME Init PROVE InOrderInv /\ Meaning!Init
    OBVIOUS
  <2>1. InOrderInv
    BY WiresInit, FrontEndInit DEF InOrderInv
  <2>2. /\ ~Halted /\ ~ex_mem.controls.regWrite /\ ~ex_mem.controls.memWrite
        /\ ~mem_wb.controls.regWrite
    BY EmptyPipeline, ControlsOf DEF Init, Halted, AluOps, TwoSourceAlu
  <2>3. ArchPc = 0
    BY EmptyPipeline DEF Init, ArchPc, IsBubble
  <2>4. ArchRegs = regs /\ ArchMem = mem
    BY <2>2 DEF ArchRegs, WrittenBack, ArchMem
  <2>5. mem = Meaning!LoadedMemory(rom)
    BY DEF Init, Meaning!LoadedMemory
  <2>6. regs = [r \in Meaning!Register |-> 0]
    BY DEF Init, Register, Meaning!Register
  <2> QED
    BY <2>1, <2>3, <2>4, <2>5, <2>6 DEF Init, Meaning!Init
<1>2. InOrderInv /\ FetchesInside /\ [Next]_vars =>
         InOrderInv' /\ [Meaning!Next \/ Meaning!Restart]_(Meaning!vars)
  <2> SUFFICES ASSUME InOrderInv, FetchesInside, [Next]_vars
               PROVE  InOrderInv' /\ [Meaning!Next \/ Meaning!Restart]_(Meaning!vars)
    OBVIOUS
  <2>1. CASE Step
    <3>1. InOrderInv'
      BY <2>1, WiresStep, PcNotWrittenStep, FrontEndStep DEF InOrderInv
    <3>2. CASE opcode.mem = "HALT" \/ IsBubble(id_ex)
      BY <2>1, <3>1, <3>2, NothingLeavesEX DEF ArchState, Meaning!vars
    <3>3. CASE ~(opcode.mem = "HALT" \/ IsBubble(id_ex))
      <4>1. Meaning!Retire(1)
        BY <2>1, <3>3, InstructionLeavesEX
      <4>2. 1 \in 1 .. 1
        OBVIOUS
      <4> QED
        BY <3>1, <4>1, <4>2 DEF Meaning!Next
    <3> QED
      BY <3>2, <3>3
  <2>2. CASE Reset
    BY <2>2, WiresReset, FrontEndReset, ResetRestarts DEF InOrderInv
  <2>3. CASE UNCHANGED vars
    <3>1. InOrderInv'
      <4>1. WiresInv'
        BY <2>3 DEF vars, pipeline, InOrderInv, WiresInv, TypeOK, WiresOK,
                    OpcodesFollowPipeline, BackEndFollowsOpcodes, Controlled, LoadUse
      <4>2. PcNotWritten'
        BY <2>3 DEF vars, pipeline, InOrderInv, PcNotWritten
      <4>3. FrontEndInOrder'
        BY <2>3 DEF vars, pipeline, InOrderInv, FrontEndInOrder, IsBubble, Holds, Running,
                    Fetched, Memory!InstructionAt
      <4> QED
        BY <4>1, <4>2, <4>3 DEF InOrderInv
    <3>2. UNCHANGED Meaning!vars
      BY <2>3 DEF vars, pipeline, Meaning!vars, ArchPc, ArchRegs, ArchMem, WrittenBack,
                  IsBubble, Halted, ResultW, ReadDataM, Memory!ReadData, Memory!DataIndex,
                  Memory!WriteData, Memory!Writable
    <3> QED
      BY <3>1, <3>2
  <2> QED
    BY <2>1, <2>2, <2>3 DEF Next
<1> QED
  BY <1>1, <1>2, PTL DEF Spec, SequentialMeaning, Meaning!RestartableSpec
=============================================================================
