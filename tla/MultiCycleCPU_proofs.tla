-------------------------- MODULE MultiCycleCPU_proofs --------------------------
(***************************************************************************)
(* For every program, every width of words and every size of the register  *)
(* file and of the memory: the latches hold what the instruction needs,    *)
(* and the cycles of an instruction together are its effect in the single- *)
(* cycle CPU.                                                              *)
(***************************************************************************)
EXTENDS MultiCycleProperties, Arithmetic_proofs, TLAPS

-----------------------------------------------------------------------------
(* The inductive invariant: every register of the datapath holds what its   *)
(* wires can carry, the control unit is only in states that belong to the   *)
(* opcode in the instruction register, and the latches serve it.            *)

LatchesTyped ==
    /\ rom \in Programs
    /\ pc \in 0 .. PcMod - 1
    /\ ir \in Instruction
    /\ mdr \in Word /\ a \in Word /\ b \in Word /\ alu_out \in Word
    /\ regs \in [Register -> Word]
    /\ mem \in [0 .. DataWords - 1 -> Word]

StateFollowsOpcode ==
    /\ state \in State
    /\ state = "EXECUTE_R" => ir.op \in TwoSourceAlu \cup {"NOT"}
    /\ state = "EXECUTE_I" => ir.op \in {"LI", "ADDI"}
    /\ state = "ALU_WB"    => ir.op \in AluOps
    /\ state = "MEM_ADDR"  => ir.op \in {"LW", "SW"}
    /\ state \in {"MEM_READ", "MEM_WB"} => ir.op = "LW"
    /\ state = "MEM_WRITE" => ir.op = "SW"
    /\ state = "BRANCH"    => ir.op \in BranchOps
    /\ state = "JUMP"      => ir.op = "J"
    /\ state = "HALT"      => ir.op = "HALT"

ServesInv == LatchesTyped /\ StateFollowsOpcode /\ LatchesServeInstruction

-----------------------------------------------------------------------------
(* Words, instructions and memories. *)

LEMMA WordOf ==
    ASSUME NEW x \in Int
    PROVE  x % WordMod \in Word
BY SizeAssumption DEF Word

LEMMA WordIsInt == Word \subseteq Int /\ 0 \in Word /\ Word = 0 .. PcMod - 1
BY SizeAssumption, WidthAssumption DEF Word

LEMMA NopTyped == Nop \in Instruction /\ Nop.op = "NOP"
BY SizeAssumption DEF Nop, Instr, Instruction, Opcode, Register

LEMMA FetchedTyped ==
    ASSUME NEW p \in Programs, NEW x
    PROVE  Memory!InstructionAt(p, x) \in Instruction
BY ProgramsAssumption, NopTyped DEF Memory!InstructionAt, Memory!Nop, Nop, Memory!Instr, Instr

LEMMA LoadedTyped ==
    ASSUME NEW p \in Programs
    PROVE  Memory!LoadedMemory(p) \in [0 .. DataWords - 1 -> Word]
<1>1. \A i \in 0 .. DataWords - 1 : Memory!AsData(Memory!InstructionAt(p, i)) \in Word
  BY FetchedTyped, WordOf DEF Instruction, Memory!AsData
<1> QED
  BY <1>1 DEF Memory!LoadedMemory

LEMMA ReadTyped ==
    ASSUME NEW m \in [0 .. DataWords - 1 -> Word], NEW x
    PROVE  Memory!ReadData(m, x) \in Word
BY WordIsInt DEF Memory!ReadData

LEMMA WriteTyped ==
    ASSUME NEW m \in [0 .. DataWords - 1 -> Word], NEW x, NEW v \in Word
    PROVE  Memory!WriteData(m, x, v) \in [0 .. DataWords - 1 -> Word]
BY DEF Memory!WriteData

LEMMA AluTyped ==
    ASSUME NEW x \in Word, NEW y \in Word,
           NEW operation \in TwoSourceAlu \cup {"NOT", "PASS_B"}
    PROVE  Alu(operation, x, y) \in Word
<1>1. x \in Int /\ y \in Int /\ WordMod \in Int
  BY WordIsInt, SizeAssumption
<1>2. (x + y) % WordMod \in Word /\ (x - y) % WordMod \in Word
  BY <1>1, WordOf
<1>3. WordMod - 1 - x \in Word
  BY SizeAssumption DEF Word
<1>4. BitAnd(x, y) \in Word /\ BitOr(x, y) \in Word /\ BitXor(x, y) \in Word
  BY BitwiseAssumption
<1> QED
  BY <1>2, <1>3, <1>4 DEF Alu, TwoSourceAlu

(* What the ALU computes of an instruction's sources. *)
LEMMA AluAgrees ==
    ASSUME NEW ins \in Instruction, NEW x \in Word, NEW y \in Word
    PROVE  /\ ins.op \in TwoSourceAlu \cup {"NOT"} => Alu(ins.op, x, y) = AluResult(ins, x, y)
           /\ ins.op = "LI"   => Alu("PASS_B", x, ins.imm % WordMod) = AluResult(ins, x, y)
           /\ ins.op = "ADDI" => Alu("ADD", x, ins.imm % WordMod) = AluResult(ins, x, y)
           /\ Alu("ADD", x, ins.imm % WordMod) = EffectiveAddress(ins, x)
           /\ Alu("SUB", x, y) = 0 <=> x = y
<1>1. (x + (ins.imm % WordMod)) % WordMod = (x + ins.imm) % WordMod
  <2>1. x \in Int /\ ins.imm \in Int /\ WordMod \in Nat \ {0}
    BY WordIsInt, SizeAssumption DEF Instruction
  <2> QED
    BY <2>1, RemainderOfSum
<1>2. (x - y) % WordMod = 0 <=> x = y
  BY DifferenceIsZero, SizeAssumption DEF Word
<1> QED
  BY <1>1, <1>2 DEF Alu, AluResult, EffectiveAddress, TwoSourceAlu

(* The PC behind an instruction and the PC of the instruction in front.     *)
LEMMA PcMovesOn ==
    ASSUME NEW p \in 0 .. PcMod - 1
    PROVE  /\ (p + 1) % PcMod \in 0 .. PcMod - 1
           /\ (p - 1) % PcMod \in 0 .. PcMod - 1
           /\ (((p + 1) % PcMod) - 1) % PcMod = p
           /\ (((p - 1) % PcMod) + 1) % PcMod = p
<1>1. PcMod \in Nat \ {0} /\ p \in 0 .. PcMod - 1
  BY SizeAssumption, WidthAssumption
<1>2. (p + 1) % PcMod = IF p = PcMod - 1 THEN 0 ELSE p + 1
  BY <1>1
<1>3. (p - 1) % PcMod = IF p = 0 THEN PcMod - 1 ELSE p - 1
  BY <1>1
<1>4. p % PcMod = p /\ (PcMod - 1 + 1) % PcMod = 0 /\ (0 - 1) % PcMod = PcMod - 1
  BY <1>1
<1> QED
  BY <1>1, <1>2, <1>3, <1>4

-----------------------------------------------------------------------------
(* What the control unit asks for in each of its states. *)
LEMMA SignalsOf ==
    /\ state = "FETCH" =>
         /\ Signals.writes = {"ir", "pc"} /\ Signals.branch = FALSE /\ Signals.iorD = FALSE
         /\ Signals.aluSrcA = "pc" /\ Signals.aluSrcB = "constant"
         /\ Signals.aluOperation = "ADD" /\ Signals.pcSource = "aluResult"
    /\ state = "DECODE" =>
         /\ Signals.writes = {"a", "b", "alu_out"} /\ Signals.branch = FALSE
         /\ Signals.aluSrcA = "pc" /\ Signals.aluSrcB = "sign_extend"
         /\ Signals.aluOperation = "ADD"
    /\ state = "MEM_ADDR" =>
         /\ Signals.writes = {"alu_out"} /\ Signals.branch = FALSE
         /\ Signals.aluSrcA = "regA" /\ Signals.aluSrcB = "sign_extend"
         /\ Signals.aluOperation = "ADD"
    /\ state = "MEM_READ" =>
         Signals.writes = {"mdr"} /\ Signals.branch = FALSE /\ Signals.iorD = TRUE
    /\ state = "MEM_WB" =>
         /\ Signals.writes = {"reg"} /\ Signals.branch = FALSE
         /\ Signals.writebackSource = "memoryData"
    /\ state = "MEM_WRITE" =>
         Signals.writes = {"mem"} /\ Signals.branch = FALSE /\ Signals.iorD = TRUE
    /\ state = "EXECUTE_R" =>
         /\ Signals.writes = {"alu_out"} /\ Signals.branch = FALSE
         /\ Signals.aluSrcA = "regA" /\ Signals.aluSrcB = "regB"
         /\ Signals.aluOperation = ir.op
    /\ state = "EXECUTE_I" =>
         /\ Signals.writes = {"alu_out"} /\ Signals.branch = FALSE
         /\ Signals.aluSrcA = "regA" /\ Signals.aluSrcB = "sign_extend"
         /\ Signals.aluOperation = IF ir.op = "LI" THEN "PASS_B" ELSE "ADD"
    /\ state = "ALU_WB" =>
         /\ Signals.writes = {"reg"} /\ Signals.branch = FALSE
         /\ Signals.writebackSource = "aluOut"
    /\ state = "BRANCH" =>
         /\ Signals.writes = {} /\ Signals.branch = TRUE
         /\ Signals.aluSrcA = "regA" /\ Signals.aluSrcB = "regB"
         /\ Signals.aluOperation = "SUB" /\ Signals.pcSource = "aluOut"
    /\ state = "JUMP" =>
         /\ Signals.writes = {"pc"} /\ Signals.branch = FALSE
         /\ Signals.pcSource = "jumpTarget"
BY DEF Signals, Generate, NoSignals

(* The clock edge of a state: what it loads, and that it keeps the rest. *)
LEMMA FetchEdge ==
    ASSUME Step, state = "FETCH"
    PROVE  /\ state' = "DECODE" /\ ir' = Memory!InstructionAt(rom, pc)
           /\ pc' = (pc + 1) % WordMod
           /\ UNCHANGED <<rom, mdr, a, b, alu_out, regs, mem>>
BY SignalsOf DEF Step, NextState, LoadRegisters, Latched, PcEnable, PcNext, Result, SrcA, SrcB,
                 Alu, MemoryAddress

LEMMA DecodeEdge ==
    ASSUME Step, state = "DECODE"
    PROVE  /\ state' = AfterDecode(ir.op)
           /\ a' = regs[ir.rs1] /\ b' = regs[ir.rs2]
           /\ alu_out' = (pc + Immediate) % WordMod
           /\ UNCHANGED <<rom, pc, ir, mdr, regs, mem>>
BY SignalsOf DEF Step, NextState, LoadRegisters, Latched, PcEnable, Result, SrcA, SrcB, Alu

LEMMA ExecuteEdge ==
    ASSUME Step, state \in {"EXECUTE_R", "EXECUTE_I", "MEM_ADDR"}
    PROVE  /\ state' = IF state # "MEM_ADDR" THEN "ALU_WB"
                       ELSE IF ir.op = "LW" THEN "MEM_READ" ELSE "MEM_WRITE"
           /\ alu_out' = CASE state = "EXECUTE_R" -> Alu(ir.op, a, b)
                           [] state = "EXECUTE_I" ->
                                Alu(IF ir.op = "LI" THEN "PASS_B" ELSE "ADD", a, Immediate)
                           [] state = "MEM_ADDR" -> Alu("ADD", a, Immediate)
           /\ UNCHANGED <<rom, pc, ir, mdr, a, b, regs, mem>>
BY SignalsOf DEF Step, NextState, LoadRegisters, Latched, PcEnable, Result, SrcA, SrcB

LEMMA ReadEdge ==
    ASSUME Step, state = "MEM_READ"
    PROVE  /\ state' = "MEM_WB" /\ mdr' = Memory!ReadData(mem, alu_out)
           /\ UNCHANGED <<rom, pc, ir, a, b, alu_out, regs, mem>>
BY SignalsOf DEF Step, NextState, LoadRegisters, Latched, PcEnable, MemoryAddress

LEMMA WriteBackEdge ==
    ASSUME Step, state \in {"ALU_WB", "MEM_WB"}
    PROVE  /\ state' = "FETCH"
           /\ regs' = [regs EXCEPT ![ir.rd] = IF state = "MEM_WB" THEN mdr ELSE alu_out]
           /\ UNCHANGED <<rom, pc, ir, mdr, a, b, alu_out, mem>>
BY SignalsOf DEF Step, NextState, LoadRegisters, Latched, PcEnable, RegisterWriteData

LEMMA StoreEdge ==
    ASSUME Step, state = "MEM_WRITE"
    PROVE  /\ state' = "FETCH" /\ mem' = Memory!WriteData(mem, alu_out, b)
           /\ UNCHANGED <<rom, pc, ir, mdr, a, b, alu_out, regs>>
BY SignalsOf DEF Step, NextState, LoadRegisters, Latched, PcEnable, MemoryAddress

LEMMA ControlEdge ==
    ASSUME Step, state \in {"BRANCH", "JUMP"}
    PROVE  /\ state' = "FETCH"
           /\ pc' = IF state = "JUMP" THEN Immediate
                    ELSE IF (Alu("SUB", a, b) = 0) = (ir.op # "BNE") THEN alu_out ELSE pc
           /\ UNCHANGED <<rom, ir, mdr, a, b, alu_out, regs, mem>>
BY SignalsOf DEF Step, NextState, LoadRegisters, Latched, PcEnable, PcNext, Result, SrcA, SrcB

-----------------------------------------------------------------------------
(* The invariant, for every program. *)

LEMMA ServesInit == Init => ServesInv
<1> SUFFICES ASSUME Init PROVE ServesInv
  OBVIOUS
<1>1. 0 \in 0 .. PcMod - 1 /\ 0 \in Word /\ [r \in Register |-> 0] \in [Register -> Word]
  BY WordIsInt
<1>2. LatchesTyped
  BY <1>1, NopTyped, LoadedTyped DEF Init, LatchesTyped
<1> QED
  BY <1>2 DEF Init, ServesInv, StateFollowsOpcode, State, LatchesServeInstruction

LEMMA ServesReset == ServesInv /\ Reset => ServesInv'
<1> SUFFICES ASSUME ServesInv, Reset PROVE ServesInv'
  OBVIOUS
<1>1. 0 \in 0 .. PcMod - 1 /\ 0 \in Word /\ [r \in Register |-> 0] \in [Register -> Word]
  BY WordIsInt
<1>2. LatchesTyped'
  BY <1>1, NopTyped, LoadedTyped DEF Reset, ServesInv, LatchesTyped
<1> QED
  BY <1>2 DEF Reset, ServesInv, StateFollowsOpcode, State, LatchesServeInstruction

LEMMA ServesStep == ServesInv /\ Step => ServesInv'
<1> SUFFICES ASSUME ServesInv, Step PROVE ServesInv'
  OBVIOUS
<1> USE DEF ServesInv
<1>0. /\ ir \in Instruction /\ ir.op \in Opcode /\ ir.imm \in Int
      /\ ir.rd \in Register /\ ir.rs1 \in Register /\ ir.rs2 \in Register
      /\ pc \in 0 .. PcMod - 1 /\ pc \in Int /\ PcMod = WordMod
      /\ Immediate \in Word /\ Immediate \in Int
  BY WordOf, WordIsInt, WidthAssumption DEF LatchesTyped, Instruction, Immediate
<1>1. CASE state = "FETCH"
  <2>0. pc' \in 0 .. PcMod - 1 /\ ir' \in Instruction
    <3>1. (pc + 1) % PcMod \in 0 .. PcMod - 1 /\ (pc + 1) % PcMod = (pc + 1) % WordMod
      BY <1>0, PcMovesOn
    <3>2. Memory!InstructionAt(rom, pc) \in Instruction
      BY FetchedTyped DEF LatchesTyped
    <3> QED
      BY <1>1, <3>1, <3>2, FetchEdge
  <2>1. LatchesTyped'
    BY <1>1, <2>0, FetchEdge DEF LatchesTyped
  <2>2. CurrentPc' = pc
    BY <1>0, <1>1, FetchEdge, PcMovesOn DEF CurrentPc
  <2>3. LatchesServeInstruction'
    BY <1>1, <2>2, FetchEdge DEF LatchesServeInstruction, Memory!InstructionAt
  <2> QED
    BY <1>1, <2>1, <2>3, FetchEdge DEF StateFollowsOpcode, State
<1>2. CASE state = "DECODE"
  <2>1. (pc + Immediate) % WordMod \in Word
    BY <1>0, WordOf
  <2>2. LatchesTyped'
    BY <1>0, <1>2, <2>1, DecodeEdge DEF LatchesTyped
  <2>3. StateFollowsOpcode'
    BY <1>0, <1>2, DecodeEdge
       DEF AfterDecode, StateFollowsOpcode, State, TwoSourceAlu, AluOps, BranchOps
  <2>4. state' = "BRANCH" => (pc + Immediate) % WordMod = Target(ir, CurrentPc)
    <3>1. state' = "BRANCH" => ir.op # "J"
      BY <2>3, <1>2, DecodeEdge DEF StateFollowsOpcode, BranchOps
    <3>2. CurrentPc \in 0 .. PcMod - 1 /\ (CurrentPc + 1) % PcMod = pc
      BY <1>0, PcMovesOn DEF CurrentPc
    <3>3. (pc + Immediate) % WordMod = (CurrentPc + 1 + ir.imm) % WordMod
      <4> DEFINE c == CurrentPc + 1
      <4>1. WordMod \in Nat \ {0} /\ c \in Int /\ pc = c % WordMod
        BY <1>0, <3>2, SizeAssumption
      <4> HIDE DEF c
      <4>2. (pc + Immediate) % WordMod = (pc + ir.imm) % WordMod
        BY <1>0, <4>1, RemainderOfSum DEF Immediate
      <4>3. (ir.imm + (c % WordMod)) % WordMod = (ir.imm + c) % WordMod
        BY <1>0, <4>1, RemainderOfSum
      <4>4. pc + ir.imm = ir.imm + (c % WordMod) /\ ir.imm + c = CurrentPc + 1 + ir.imm
        BY <1>0, <3>2, <4>1 DEF c
      <4> QED
        BY <4>2, <4>3, <4>4
    <3> QED
      BY <1>0, <3>1, <3>3, SizeAssumption DEF Target
  <2>5. CurrentPc' = CurrentPc
    BY <1>2, DecodeEdge DEF CurrentPc
  <2>6. state' \notin {"ALU_WB", "MEM_READ", "MEM_WB", "MEM_WRITE"}
    BY <1>2, DecodeEdge DEF AfterDecode
  <2>7. LatchesServeInstruction'
    BY <1>2, <2>4, <2>5, <2>6, DecodeEdge
       DEF LatchesServeInstruction, Memory!InstructionAt, Target
  <2> QED
    BY <2>2, <2>3, <2>7
<1>3. CASE state \in {"EXECUTE_R", "EXECUTE_I", "MEM_ADDR"}
  <2>1. a \in Word /\ b \in Word
    BY DEF LatchesTyped
  <2>2. alu_out' \in Word
    <3>1. state = "EXECUTE_R" => ir.op \in TwoSourceAlu \cup {"NOT", "PASS_B"}
      BY DEF StateFollowsOpcode
    <3>2. {"ADD", "PASS_B"} \subseteq TwoSourceAlu \cup {"NOT", "PASS_B"}
      BY DEF TwoSourceAlu
    <3>3. /\ state = "EXECUTE_R" => Alu(ir.op, a, b) \in Word
          /\ Alu("PASS_B", a, Immediate) \in Word /\ Alu("ADD", a, Immediate) \in Word
      BY <1>0, <2>1, <3>1, <3>2, AluTyped
    <3> QED
      BY <1>3, <3>3, ExecuteEdge
  <2>3. LatchesTyped'
    BY <1>3, <2>2, ExecuteEdge DEF LatchesTyped
  <2>4. StateFollowsOpcode'
    BY <1>3, ExecuteEdge DEF StateFollowsOpcode, State, AluOps
  <2>5. CurrentPc' = CurrentPc
    BY <1>3, ExecuteEdge DEF CurrentPc
  <2>6. /\ state = "MEM_ADDR" => alu_out' = EffectiveAddress(ir, a)
        /\ state # "MEM_ADDR" => alu_out' = AluResult(ir, a, b)
    BY <1>0, <1>3, <2>1, AluAgrees, ExecuteEdge DEF StateFollowsOpcode, Immediate
  <2>7. LatchesServeInstruction'
    BY <1>3, <2>5, <2>6, ExecuteEdge
       DEF LatchesServeInstruction, Memory!InstructionAt, AluResult, EffectiveAddress
  <2> QED
    BY <2>3, <2>4, <2>7
<1>4. CASE state = "MEM_READ"
  <2>1. LatchesTyped'
    BY <1>4, ReadEdge, ReadTyped DEF LatchesTyped
  <2>2. StateFollowsOpcode'
    BY <1>4, ReadEdge DEF StateFollowsOpcode, State
  <2>3. CurrentPc' = CurrentPc
    BY <1>4, ReadEdge DEF CurrentPc
  <2>4. LatchesServeInstruction'
    BY <1>4, <2>3, ReadEdge
       DEF LatchesServeInstruction, Memory!InstructionAt, EffectiveAddress,
           Memory!ReadData, Memory!DataIndex
  <2> QED
    BY <2>1, <2>2, <2>4
<1>5. CASE state \in {"ALU_WB", "MEM_WB", "MEM_WRITE", "BRANCH", "JUMP"}
  <2>1. state' = "FETCH" /\ UNCHANGED <<rom, ir, mdr, a, b, alu_out>>
    BY <1>5, WriteBackEdge, StoreEdge, ControlEdge
  <2>2. pc' \in 0 .. PcMod - 1
    BY <1>0, <1>5, WriteBackEdge, StoreEdge, ControlEdge, WordIsInt DEF LatchesTyped
  <2>3. regs' \in [Register -> Word]
    BY <1>0, <1>5, WriteBackEdge, StoreEdge, ControlEdge DEF LatchesTyped
  <2>4. mem' \in [0 .. DataWords - 1 -> Word]
    BY <1>5, WriteBackEdge, StoreEdge, ControlEdge, WriteTyped DEF LatchesTyped
  <2> QED
    BY <2>1, <2>2, <2>3, <2>4
       DEF LatchesTyped, StateFollowsOpcode, State, LatchesServeInstruction
<1> QED
  BY <1>1, <1>2, <1>3, <1>4, <1>5 DEF Step, StateFollowsOpcode, State

LEMMA ServesUnchanged == ServesInv /\ UNCHANGED vars => ServesInv'
BY DEF vars, ServesInv, LatchesTyped, StateFollowsOpcode, LatchesServeInstruction, CurrentPc,
       Memory!InstructionAt, Memory!ReadData, Memory!DataIndex, Target, AluResult,
       EffectiveAddress

(* In every state the one ALU and its output register hold what that state  *)
(* needs of the instruction at CurrentPc, for every program.                *)
THEOREM LatchesServe == Spec => []LatchesServeInstruction
<1>1. ServesInv /\ [Next]_vars => ServesInv'
  BY ServesStep, ServesReset, ServesUnchanged DEF Next
<1>2. ServesInv => LatchesServeInstruction
  BY DEF ServesInv
<1> QED
  BY ServesInit, <1>1, <1>2, PTL DEF Spec

-----------------------------------------------------------------------------
(* The cycles of an instruction and the sequential machine.                 *)

ArchState == [pc |-> ArchPc, regs |-> regs, mem |-> mem]

LEMMA OneInstruction ==
    ASSUME NEW s
    PROVE  Meaning!After(s, 1) = IF s.pc = Meaning!Stopped THEN s
                                 ELSE Meaning!Execute(Meaning!InstructionAt(rom, s.pc), s)
<1> DEFINE next(t) == IF t.pc = Meaning!Stopped THEN t
                      ELSE Meaning!Execute(Meaning!InstructionAt(rom, t.pc), t)
           F(f) == [i \in 0 .. 1 |-> IF i = 0 THEN s ELSE next(f[i - 1])]
           g == [i \in 0 .. 1 |-> IF i = 0 THEN s ELSE next(s)]
           run == CHOOSE f : f = F(f)
<1>1. g[0] = s /\ g[1] = next(s)
  OBVIOUS
<1>2. g = F(g)
  <2>1. \A i \in 0 .. 1 : (IF i = 0 THEN s ELSE next(g[i - 1])) = IF i = 0 THEN s ELSE next(s)
    <3> TAKE i \in 0 .. 1
    <3>1. CASE i = 0
      BY <3>1
    <3>2. CASE i = 1
      <4>1. g[i - 1] = s
        BY <1>1, <3>2
      <4> QED
        BY <4>1
    <3> QED
      BY <3>1, <3>2
  <2> QED
    BY <2>1
<1>3. run = F(run)
  <2>1. \E f : f = F(f)
    BY <1>2
  <2> HIDE DEF F
  <2> QED
    BY <2>1
<1>4. Meaning!After(s, 1) = run[1]
  BY DEF Meaning!After
<1>5. run[0] = s /\ run[1] = next(run[0])
  <2>1. \A i \in 0 .. 1 : run[i] = IF i = 0 THEN s ELSE next(run[i - 1])
    <3> HIDE DEF run, next
    <3> QED
      BY <1>3
  <2> HIDE DEF run, next
  <2>2. run[0] = s
    BY <2>1
  <2>3. run[1] = next(run[1 - 1])
    BY <2>1
  <2>4. 1 - 1 = 0
    OBVIOUS
  <2> QED
    BY <2>2, <2>3, <2>4
<1> QED
  BY <1>4, <1>5

(* The operators both machines are built from. *)
LEMMA SameOperators ==
    /\ Meaning!Register = Register /\ Meaning!Word = Word
    /\ \A p, x : Meaning!InstructionAt(p, x) = Memory!InstructionAt(p, x)
    /\ \A m, x : Meaning!ReadData(m, x) = Memory!ReadData(m, x)
    /\ \A m, x, v : Meaning!WriteData(m, x, v) = Memory!WriteData(m, x, v)
    /\ \A p : Meaning!LoadedMemory(p) = Memory!LoadedMemory(p)
    /\ \A ins, x : Meaning!EffectiveAddress(ins, x) = EffectiveAddress(ins, x)
    /\ \A ins, x, y : Meaning!AluResult(ins, x, y) = AluResult(ins, x, y)
    /\ \A ins, x, y : Meaning!Taken(ins, x, y) = Taken(ins, x, y)
    /\ \A ins, x : Meaning!Target(ins, x) = Target(ins, x)
    /\ Meaning!AluOps = AluOps /\ Meaning!BranchOps = BranchOps
BY DEF Meaning!Register, Register, Meaning!Word, Word,
       Meaning!InstructionAt, Memory!InstructionAt, Meaning!Nop, Memory!Nop, Meaning!Instr,
       Memory!Instr, Meaning!ReadData, Memory!ReadData, Meaning!DataIndex, Memory!DataIndex,
       Meaning!WriteData, Memory!WriteData, Meaning!Writable, Memory!Writable,
       Meaning!LoadedMemory, Memory!LoadedMemory, Meaning!AsData, Memory!AsData,
       Meaning!EffectiveAddress, EffectiveAddress, Meaning!AluResult, AluResult,
       Meaning!Taken, Taken, Meaning!Target, Target, Meaning!AluOps, AluOps,
       Meaning!TwoSourceAlu, TwoSourceAlu, Meaning!BranchOps, BranchOps

(* The last cycle of an instruction: what it leaves is the effect of the    *)
(* instruction at CurrentPc.                                                *)
LEMMA LastCycle ==
    ASSUME ServesInv, state \notin {"FETCH", "HALT"}, rom' = rom,
           ArchState' = [pc   |-> CASE ir.op = "HALT" -> -1
                                    [] ir.op \in BranchOps \cup {"J"} /\ Taken(ir, regs[ir.rs1],
                                                                              regs[ir.rs2])
                                         -> Target(ir, CurrentPc)
                                    [] OTHER -> (CurrentPc + 1) % PcMod,
                         regs |-> CASE ir.op \in AluOps ->
                                         [regs EXCEPT ![ir.rd] = AluResult(ir, regs[ir.rs1],
                                                                           regs[ir.rs2])]
                                    [] ir.op = "LW" ->
                                         [regs EXCEPT ![ir.rd] =
                                            Memory!ReadData(mem, EffectiveAddress(ir,
                                                                    regs[ir.rs1]))]
                                    [] OTHER -> regs,
                         mem  |-> IF ir.op = "SW"
                                  THEN Memory!WriteData(mem, EffectiveAddress(ir, regs[ir.rs1]),
                                                        regs[ir.rs2])
                                  ELSE mem]
    PROVE  Meaning!Retire(1)
<1>1. /\ ArchPc = CurrentPc /\ CurrentPc \in 0 .. PcMod - 1
      /\ ir = Meaning!InstructionAt(rom, CurrentPc)
  BY PcMovesOn, SameOperators
     DEF ServesInv, LatchesTyped, LatchesServeInstruction, ArchPc, CurrentPc
<1>2. CurrentPc # -1
  BY <1>1, WordIsInt, SizeAssumption, WidthAssumption
<1>3. ArchState' = Meaning!Execute(ir, ArchState)
  <2>1. ArchState.pc = CurrentPc /\ ArchState.regs = regs /\ ArchState.mem = mem
    BY <1>1 DEF ArchState
  <2>2. Meaning!IsControlFlow(ir) <=> ir.op \in BranchOps \cup {"J"}
    BY SameOperators DEF Meaning!IsControlFlow
  <2> QED
    BY <2>1, <2>2, SameOperators DEF Meaning!Execute, Meaning!Stopped
<1>4. Meaning!After(ArchState, 1) = Meaning!Execute(ir, ArchState)
  BY <1>1, <1>2, OneInstruction DEF ArchState, Meaning!Stopped
<1> QED
  BY <1>1, <1>2, <1>3, <1>4 DEF Meaning!Retire, Meaning!Stopped, ArchState

(* A cycle in the middle of an instruction shows nothing of it; one that    *)
(* brings the control unit back to FETCH, or to HALT, shows all of it.      *)
LEMMA StepMeans ==
    ASSUME ServesInv, Step
    PROVE  Meaning!Retire(1) \/ UNCHANGED Meaning!vars
<1>0. /\ ir.op \in Opcode /\ pc \in 0 .. PcMod - 1
      /\ a \in Word /\ b \in Word
  BY DEF ServesInv, LatchesTyped, Instruction
<1>1. (CurrentPc + 1) % PcMod = pc
  BY <1>0, PcMovesOn DEF CurrentPc
<1>2. CASE state = "FETCH"
  <2>1. ArchPc' = ArchPc
    BY <1>0, <1>2, FetchEdge, PcMovesOn, WidthAssumption DEF ArchPc, CurrentPc
  <2> QED
    BY <1>2, <2>1, FetchEdge DEF Meaning!vars
<1>3. CASE state \in {"EXECUTE_R", "EXECUTE_I", "MEM_ADDR", "MEM_READ"}
  <2>1. state' \notin {"FETCH", "HALT"} /\ UNCHANGED <<rom, pc, regs, mem>>
    BY <1>3, ExecuteEdge, ReadEdge
  <2> QED
    BY <1>3, <2>1 DEF Meaning!vars, ArchPc, CurrentPc
<1>4. CASE state = "DECODE"
  <2>1. CASE ir.op \in {"NOP", "HALT"}
    <3>1. state' = IF ir.op = "HALT" THEN "HALT" ELSE "FETCH"
      BY <1>4, <2>1, DecodeEdge DEF AfterDecode, TwoSourceAlu, BranchOps
    <3>2. /\ ArchPc' = IF ir.op = "HALT" THEN -1 ELSE (CurrentPc + 1) % PcMod
          /\ UNCHANGED <<rom, regs, mem>>
      BY <1>1, <1>4, <3>1, DecodeEdge DEF ArchPc
    <3> QED
      BY <1>4, <2>1, <3>2, LastCycle DEF ArchState, AluOps, TwoSourceAlu, BranchOps
  <2>2. CASE ir.op \notin {"NOP", "HALT"}
    <3>1. state' \notin {"FETCH", "HALT"} /\ UNCHANGED <<rom, pc, regs, mem>>
      BY <1>0, <1>4, <2>2, DecodeEdge
         DEF AfterDecode, TwoSourceAlu, BranchOps, AluOps, Opcode
    <3> QED
      BY <1>4, <3>1 DEF Meaning!vars, ArchPc, CurrentPc
  <2> QED
    BY <2>1, <2>2
<1>5. CASE state = "ALU_WB"
  <2>1. ir.op \in AluOps /\ alu_out = AluResult(ir, regs[ir.rs1], regs[ir.rs2])
    BY <1>5 DEF ServesInv, StateFollowsOpcode, LatchesServeInstruction
  <2>2. ArchPc' = (CurrentPc + 1) % PcMod
    BY <1>1, <1>5, WriteBackEdge DEF ArchPc
  <2> QED
    BY <1>5, <2>1, <2>2, WriteBackEdge, LastCycle
       DEF ArchState, AluOps, TwoSourceAlu, BranchOps
<1>6. CASE state = "MEM_WB"
  <2>1. ir.op = "LW" /\ mdr = Memory!ReadData(mem, EffectiveAddress(ir, regs[ir.rs1]))
    BY <1>6 DEF ServesInv, StateFollowsOpcode, LatchesServeInstruction
  <2>2. ArchPc' = (CurrentPc + 1) % PcMod
    BY <1>1, <1>6, WriteBackEdge DEF ArchPc
  <2> QED
    BY <1>6, <2>1, <2>2, WriteBackEdge, LastCycle
       DEF ArchState, AluOps, TwoSourceAlu, BranchOps
<1>7. CASE state = "MEM_WRITE"
  <2>1. /\ ir.op = "SW" /\ alu_out = EffectiveAddress(ir, regs[ir.rs1])
        /\ b = regs[ir.rs2]
    BY <1>7 DEF ServesInv, StateFollowsOpcode, LatchesServeInstruction
  <2>2. ArchPc' = (CurrentPc + 1) % PcMod
    BY <1>1, <1>7, StoreEdge DEF ArchPc
  <2> QED
    BY <1>7, <2>1, <2>2, StoreEdge, LastCycle
       DEF ArchState, AluOps, TwoSourceAlu, BranchOps
<1>8. CASE state = "BRANCH"
  <2>1. /\ ir.op \in BranchOps /\ alu_out = Target(ir, CurrentPc)
        /\ a = regs[ir.rs1] /\ b = regs[ir.rs2]
    BY <1>8 DEF ServesInv, StateFollowsOpcode, LatchesServeInstruction
  <2>2. (Alu("SUB", a, b) = 0) = (a = b)
    BY <1>0, AluAgrees, NopTyped
  <2>3. ArchPc' = IF Taken(ir, a, b) THEN Target(ir, CurrentPc) ELSE (CurrentPc + 1) % PcMod
    BY <1>1, <1>8, <2>1, <2>2, ControlEdge DEF ArchPc, Taken, BranchOps
  <2> QED
    BY <1>8, <2>1, <2>3, ControlEdge, LastCycle DEF ArchState, AluOps, TwoSourceAlu, BranchOps
<1>9. CASE state = "JUMP"
  <2>1. ir.op = "J"
    BY <1>9 DEF ServesInv, StateFollowsOpcode
  <2>2. Taken(ir, regs[ir.rs1], regs[ir.rs2]) /\ ArchPc' = Target(ir, CurrentPc)
    BY <1>9, <2>1, ControlEdge, SizeAssumption, WidthAssumption
       DEF ArchPc, Target, Taken, Immediate
  <2> QED
    BY <1>9, <2>1, <2>2, ControlEdge, LastCycle DEF ArchState, AluOps, TwoSourceAlu, BranchOps
<1> QED
  BY <1>2, <1>3, <1>4, <1>5, <1>6, <1>7, <1>8, <1>9
     DEF Step, ServesInv, StateFollowsOpcode, State

LEMMA ResetRestarts ==
    ASSUME ServesInv, Reset
    PROVE  Meaning!Restart
<1>1. LatchesTyped /\ LatchesTyped'
  BY ServesReset DEF ServesInv
<1>2. DOMAIN mem = 0 .. DataWords - 1
  BY <1>1 DEF LatchesTyped
<1> QED
  BY <1>1, <1>2, SameOperators DEF Reset, Meaning!Restart, ArchPc, LatchesTyped

(* For every program: registers, memory and the PC of the next instruction  *)
(* change only in the last cycle of an instruction, and together they       *)
(* change as the single-cycle CPU changes them; reset() starts over.        *)
THEOREM ExecutesOneByOne == Spec => SequentialMeaning
<1>1. Init => ServesInv /\ Meaning!Init
  BY ServesInit, SameOperators DEF Init, Meaning!Init, ArchPc
<1>2. ServesInv /\ [Next]_vars =>
         ServesInv' /\ [Meaning!Next \/ Meaning!Restart]_(Meaning!vars)
  <2> SUFFICES ASSUME ServesInv, [Next]_vars
               PROVE  ServesInv' /\ [Meaning!Next \/ Meaning!Restart]_(Meaning!vars)
    OBVIOUS
  <2>1. CASE Step
    <3>1. 1 \in 1 .. 1
      OBVIOUS
    <3> QED
      BY <2>1, <3>1, ServesStep, StepMeans DEF Meaning!Next
  <2>2. CASE Reset
    BY <2>2, ServesReset, ResetRestarts
  <2>3. CASE UNCHANGED vars
    BY <2>3, ServesUnchanged DEF vars, Meaning!vars, ArchPc, CurrentPc
  <2> QED
    BY <2>1, <2>2, <2>3 DEF Next
<1> QED
  BY <1>1, <1>2, PTL DEF Spec, SequentialMeaning, Meaning!RestartableSpec
=============================================================================
