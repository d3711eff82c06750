# A TLA+ model of CPU.cpp

The repository simulates five CPU organisations of one small instruction set on
top of an external gate library (Logic.cpp): single-cycle, multi-cycle,
pipelined, vector and superscalar. This directory holds TLA+ modules that model
the superscalar, the pipelined and the multi-cycle CPU, the sequential machine
they all have to look like from outside, the superscalar CPU's two caches, the
integer back end its units also form without that CPU, and the vector unit; TLC
configurations that check them; and TLAPS proofs about the pipelined and the
multi-cycle CPU, the superscalar CPU and its reorder buffer, the integer back end,
the vector unit, the data cache and the instruction fetch.
`PROJECT.json` maps every definition to the lines it models.

    tlc -config ReOrderBuffer.cfg     ReOrderBuffer.tla
    tlc -config SuperScalarMemory.cfg MCSuperScalar.tla
    tlc -config SuperScalarBranch.cfg MCSuperScalar.tla
    tlc -config Pipelined.cfg         MCPipelined.tla
    tlc -config MultiCycle.cfg        MCMultiCycle.tla
    tlc -config IntegerBackEnd.cfg    MCIntegerBackEnd.tla
    tlc -config VectorCPU.cfg         MCVectorCPU.tla
    tlc -config DataCache.cfg         DataCache.tla
    tlc -config InstructionFetch.cfg  MCInstructionFetch.tla
    tlc -config Find....cfg           MCSuperScalar.tla     (each must fail)
    tlapm Arithmetic_proofs.tla
    tlapm PipelinedCPU_proofs.tla
    tlapm MultiCycleCPU_proofs.tla
    tlapm IntegerBackEnd_proofs.tla                         (four minutes)
    tlapm VectorCPU_proofs.tla
    tlapm Structures_proofs.tla
    tlapm SuperScalarCPU_proofs.tla                         (nine minutes)
    tlapm SuperScalarMeaning_proofs.tla                     (eight minutes)

## The system

| part | state | operations | interacts with |
|---|---|---|---|
| instruction set (`include/isa`) | none | decode | every CPU |
| shared components (`components`) | PC, memories | evaluate on a clock level | every datapath but the superscalar one |
| single-cycle CPU | PC, registers, memory | one instruction per clock | - |
| multi-cycle CPU | the same, FSM state, A/B/IR/MDR/ALUOut | one FSM state per clock | - |
| pipelined CPU | the same, four stage registers | five stages per clock, hazard unit, forwarding | - |
| vector CPU | vector registers and vl, vtype, each with a master latch | configure, decode, execute on all lanes, masked write-back, external write, reset, each at a clock level | control unit, configuration unit and datapath share ports by name; no file joins them |
| superscalar front end | fetch PC, fetch/decode register | fetch two, redirect, flush | predictor, rename |
| branch predictor | counters, tags, targets | predict, update | front end, branch execution |
| rename | alias table, checkpoint stack, free list | rename two, checkpoint, restore | dispatch, commit, recovery |
| reorder buffer | ring of entries, head, tail, count | allocate, complete, commit, squash | all stages behind rename |
| issue queue, physical registers | slots with operands, values with ready bits | insert, wake up, remove, squash | dispatch, execution, recovery |
| load/store queue, store buffer, data memory | entries in program order, words | allocate, resolve, forward, commit, remove, squash | memory execution, commit |
| instruction cache | lines, refill FSM, refill buffer | look up two lanes, refill, install, invalidate | fetch unit and instruction memory in the integration test; not wired into `SuperScalarCPU` |
| data cache | lines with dirty flags | read, write, flush, reset | data memory; not wired into `SuperScalarCPU` |
| IssueUnit, IntegerExecutionPipeline | two lanes that keep nothing from one call to the next | select, execute two, write back, retire two | issue queue, physical registers, reorder buffer, free list; joined to rename, dispatch and recovery by tests, not wired into `SuperScalarCPU` |
| Python package | - | assembler, bindings, benchmarks | loads programs |

What is hard is mostly in the superscalar CPU. Nothing there runs in threads, but
one `step()` runs the stages one after the other on shared structures that refer
to each other by reorder-buffer slot, and the slots are reused. Instructions
execute in an order nobody wrote down, results arrive for what has been
squashed, loads pass stores, recovery must undo renaming exactly, and every
structure has a capacity. `PROJECT.json` lists these hazards at their lines.
What makes each part correct: the reorder buffer keeps program order; the
alias table, the free list and the instructions in flight partition the physical
registers; the issue queue holds exactly what has not executed; a load gets
the value of the youngest older store; and the whole is indistinguishable from
executing one instruction after the other.

The pipelined CPU has the small version of the same problem: five instructions
share a clock edge, operands come from four places, and what a stall holds and a
flush discards must fit together. On top of that its branch conditions and its
halt are decided by opcodes that are tracked beside the pipeline registers and
updated after the clock edge.

The multi-cycle CPU overlaps nothing, but one ALU and one output register serve
as PC adder, target adder, address adder and ALU in turn, and an instruction can
be interrupted by a reset between any two of its cycles. In the vector unit a
register is a pair of latches, the configuration has a clock edge of its own, an
operation may overwrite its own operands, and a unit may be evaluated any number
of times at the same clock level. In the caches a line is
looked up by one part of an address and recognised by another, refills take many
cycles, and what is replaced may be the only copy of a value.

## The modules

| module | models |
|---|---|
| `Isa` | opcodes, operand use and the meaning of instructions |
| `SequentialCPU` | what a program means; the single-cycle CPU retires one instruction per clock, `Width` bounds how many an observer may see retire at once |
| `RobOps`, `ReOrderBuffer` | the ring buffer as operators, and as a state machine with one action per member function |
| `InOrderWindow` | what a reorder buffer promises: a bounded queue |
| `IntegerBackEnd` | `RenameUnit`, two-wide `DispatchUnit`, `IntegerExecutionPipeline`, `IssueUnit` and `BranchRecoveryUnit` on their five structures |
| `InOrderExecution` | what such a back end promises: instructions take effect one after the other |
| `MCIntegerBackEnd` | three instructions and an ALU for TLC |
| `VectorCPU` | the vector control unit, configuration unit and datapath, half a clock at a time |
| `ElementwiseVector` | what a vector unit promises: the edge does what was asked for last, element by element |
| `MCVectorCPU` | the instructions and the ALU for TLC |
| `IssueQueueOps`, `LsqOps`, `StoreBufferOps`, `PredictorOps` | one operator per member function of the class of that name |
| `Queues` | picking entries out of a queue, and a loop over two lanes, written without recursion so that proofs can speak of them |
| `SuperScalarCPU` | `SuperScalarCPU::step()` with all its units |
| `ALUInterface` | the ALU of the pipelined and the multi-cycle datapath |
| `PipelinedCPU` | `PipelinedCycleDatapath::step()` and `reset()`, with hazard unit, forwarding and stage registers |
| `PipelinedProperties` | what the pipeline has to guarantee |
| `MCPipelined` | the programs TLC runs on it |
| `MultiCycleCPU` | control unit, datapath and `reset()` of the multi-cycle CPU |
| `MultiCycleProperties` | what it has to guarantee |
| `MCMultiCycle` | the programs TLC runs on it |
| `SuperScalarProperties` | what the superscalar CPU has to guarantee |
| `MCSuperScalar` | the program classes TLC runs on the superscalar CPU |
| `Mnemonics` | constructors for instructions, and the bitwise operations TLC evaluates them with |
| `DirectMapped` | which line, tag and offset an address has, for both caches |
| `DataCache` | the write-back data cache with the data memory behind it |
| `PersistentMemory` | what such a cache promises: a memory, and another one underneath that follows it |
| `InstructionFetch` | `FetchUnit`, the two-ported cache, its refill machine and the instruction memory, cycle by cycle |
| `InstructionStream` | what fetch promises: the program, two instructions at a time, in order |
| `MCInstructionFetch` | the ROM TLC uses |
| `Arithmetic_proofs` | lemmas about `%` and `\div`: indices of a ring, how allocation, commit and squash move ages in it, and what a cache's lines and tags tell apart |
| `PipelinedCPU_proofs`, `MultiCycleCPU_proofs`, `IntegerBackEnd_proofs`, `VectorCPU_proofs`, `Structures_proofs` (reorder buffer, data cache, instruction fetch), `SuperScalarCPU_proofs`, `SuperScalarMeaning_proofs` | the theorems |

`Isa` takes `&`, `|` and `^` as the constants `BitAnd`, `BitOr` and `BitXor`, of
which `BitwiseAssumption` says that they yield words: no property depends on more,
and the proofs need no theory of bits. The configurations give them the bitwise
operations of `Mnemonics`.

**How `SuperScalarCPU` corresponds to the code.** One clock cycle is one pass
of the variable `stage` through commit, memory, branch, alu0, alu1, rename and
fetch, the order of `step()`. Each stage has one action per outcome:
`CommitStage` is `CommitUnit::step`, two passes of its loop (`RetireHead`), with
the store-buffer drain and the load/store queue removal that follow it; `MemoryIdle`, `ExecuteLoad`, `ExecuteStore` are
`MemoryExecutionUnit::execute`; `NoBranchReady`, `BranchAsPredicted`,
`BranchMispredicted` are the branch block with predictor update and the whole
recovery; `AluIdle`, `ExecuteAlu` are an ALU lane; `RenameIdle`,
`BundleNotRenamed`, `RenameAndDispatch` are prediction, renaming and dispatch
of a bundle; `Fetch` is the clock edge. Invariants therefore hold between
stages as well as between cycles.

Abstractions. Instruction words are records (no bit layout). A slot of the
reorder buffer carries `data`: PC, instruction, destination, replaced register
and checkpoint. A bundle in the fetch/decode register is its PC, because the
program does not change and both ports of the instruction memory always answer.
`redirect` stands for `fetch_redirect_` and `fd_flush_`, which the code always
drives together. `address_ready` and `data_ready` of a store are one flag,
`address_valid` and `data_valid` of the load/store queue are the value
`Unknown`. The checkpoint stack is its depth: restoring uses the copy in the
reorder-buffer entry, which every branch has. Predicted target 0 means none, as in
the code. Statistics, the unread `stalled` and `order_violation` results, and
the test hooks that write registers and memory are left out. `squash(vector)` of
the reorder buffer has no caller and is left out.

**How `IntegerBackEnd` corresponds to the code.** The repository has a second way
to use the superscalar units: `IntegerExecutionPipelineTests.cpp` joins renaming,
two-wide dispatch and `IntegerExecutionPipeline`,
`BranchMispredictionIntegrationTests.cpp` joins renaming, dispatch, `IssueUnit`,
branch execution and recovery. The module is the union of the two. An action is
one round of calls of a caller, written as a composition of operators on the
record `State`, one operator per member function: `EnterOne` and `EnterTwo` rename
and dispatch; `CycleNone`, `CycleOne`, `CycleTwo` are one call of `cycle()`
with as many entries selected; `ResolveBranch` is `IssueUnit::issue` with width one,
the branch's completion, and `BranchRecoveryUnit::recover` when it was mispredicted.
Guards state the discipline the callers keep: `can_rename` and the room in both
queues are asked before anything is renamed (the omission of the second is
`SuperScalarCPU`'s own, below), a branch enters alone, renamed before its
checkpoint is taken, and a caller executes what `IssueUnit` hands out only when it
is a branch. Every branch brings its checkpoint, so that the fallback to
`latest_checkpoint` is never taken. `issued` is set and cleared in one call and is
left out; so are targets: a branch is predicted taken or not, with the right
target. The physical registers of the initial mapping are ready, as
`SuperScalarCPU::reset` makes them. An instruction is a record of its two sources,
its destination and what the ALU makes of them; loads, stores and HALT,
which `ready_for_integer_execution` never selects, do not enter. `alu` says whether
there is an ALU operation: a NOP, which has none, is not selected either and stays
at the head for ever, where `SuperScalarCPU` completes it at dispatch. `Instruction`
may hold one, and the proofs cover it; the stream of the run has none, since
`HeadMovesOn` would fail. A wrong-path
instruction is any instruction: what the front end sends is not restricted.

**How `VectorCPU` corresponds to the code.** No file joins the three vector units;
the model joins the ports of the same name (`rs1`, `rs2`, `rd`, `vl`, the operation
and the write enable) and lets the configuration unit and the datapath see
their clock edges independently. A register of Logic.cpp is two latches: with the
clock low the master takes the input, with the clock high the output takes the
master. Evaluating a unit is therefore one action per clock level
(`ConfigureLow`, `ConfigureHigh`; `InstructionLow`, `WriteLow`, `IdleLow`, `High`),
and they may come in any order and any number, with any inputs. The fields of an
instruction word are a record; `vector` says whether the opcode is the vector
opcode. A configuration input with a bit that is neither high nor low is
`Unknown`. `initialize_register` is `WriteLow`, `High`, `WriteLow`, `IdleLow`.
`presented` is an auxiliary variable of the refinement: what the datapath was asked
for when the clock was last low. The evaluation of the read ports before and after
the write has no state, and every action reads `vreg` at its start, which is what
the first evaluation sees; the second one only changes what a tester reads.

**How `PipelinedCPU` corresponds to the code.** `Step` is one call of `step()`:
the wires of a cycle are operators named after them, grouped by stage, and one
conjunct per stage loads the registers behind it. The gates and the master and
slave latches belong to Logic.cpp and are one synchronous load here.
`TrackOpcodes` is the part of `step()` that runs after the settling evaluation:
it reads `flush_d` and `flush_e` of the cycle that ended but the decoded opcode
and `stall_d` of the next one, hence the primes in it. Instructions are read
from the ROM decoded; `regDst` has no reader and is left out. `Reset` leaves the
data memory to Logic.cpp: kept, cleared, or with a store in MEM still landing.
Stores to the lower half of the data memory are ignored, which is the ROM half of
`logic::Memory`.

**How `MultiCycleCPU` corresponds to the code.** `Step` is one call of
`step_cycle()`: `Generate` is `FSMControlUnit::generate` for the state and the
decoded instruction, each multiplexer is an operator, `LoadRegisters` is the
clock edge, `NextState` is `update_next_state`. A record of signals holds the set
of write signals that are high and the selectors; `memRead` is high whenever what
is read is latched, and `regDst` always selects `rd`, so that both are left out,
like the shifted immediate, which no state selects. The unified memory appears
twice: `rom` is its ROM half decoded, `mem` is all of it as loads read it. A word
of the instance is the low bits of a word of the code, hence an instruction read
as data is its immediate field (the low bits of its encoding) and data fetched as an
instruction is a NOP. Programs that store instructions into RAM are out of the
model. A NOP takes two cycles, DECODE to FETCH, where
`multi_cycle_cpu/README.md:17` says three to five.

**How `DataCache` corresponds to the code.** One action per outcome of a call:
hit or miss, read or write, an address outside, `flush()`, `reset()`. A byte
address is represented by its word, which is all the code uses of it. `Flush`
is a closed form of the loop over the lines, since a word belongs to one line
only. `reset()` drops dirty lines. The statistics are left out.

**How `InstructionFetch` corresponds to the code.** One action is one clock cycle
of the system that `tests/superscalar/test_fetch_icache_integration.cpp` puts
together; which lane's miss is refilled and when fetch stalls (`BothHit`,
`MissAddress`) is that test's glue, as no other part of the repository joins the
two. Addresses count instructions. What the code writes combinationally while the
controller is in a state (a word into the refill buffer, a line into the cache) is
done in the step that leaves the state. The miss-address register has no reader
and is left out; the enable wire is always HIGH there. The memory may take any
number of cycles to answer, the repository's answers in the same one.
`ResetCycle` clears the registers only: the refill buffer and the lines are none.
The refill word counter has 8 bits and wraps; `RefillWords` is 256 there.
`FetchAssumption` asks for lines of at most that many instructions, which the
`static_assert`s do not: a longer line would be refilled from its start again and again.
The counter of the instance has 3 bits; the proofs cover the one that wraps with the
last word of a line, too.
`Invalidate` comes between two cycles. `install_line` duplicates `refill` and is
called by unit tests only. The ROM does not change: reloading it together with
an invalidation while a reset meets INSTALL would install a stale line, which no
caller does.

In `SequentialCPU`, `TargetBase` is where branch offsets start (the branch in the
superscalar CPU, the instruction behind it in the scalar ones), `JumpsAbsolute`
tells the J of the multi-cycle CPU (an instruction number) from that of the others
(an offset), `SplitMemory` and `UnifiedMemory` choose between the memories, and
`RestartableSpec` adds `reset()`. Behind the program's end there are NOPs, as in an
instruction memory that is filled up with zeros. The instruction memories of the code end
somewhere: those of the superscalar and the pipelined CPU have 8 address bits and begin
again from their first word, and the multi-cycle CPU goes on in the RAM half, whose
words `MultiCycleCPU` fetches as NOPs. The runs and the theorems therefore say nothing
about a PC beyond the end of the code's instruction memory, where the code would
execute the program again or its data.

Operators whose comment begins with *Faulty* are not part of the model: each is
a plausible mistake in the definition next to it. Substituting it makes the
property named in `PROJECT.json` fail, which shows that the property notices.

## The runs

| run | bounds | shows |
|---|---|---|
| `rob` | 4 slots, 2 payloads | `RobWindow`, `FreeSlotsAreClean`: flags, count and tail agree and no completion outlives its instruction, for any order of calls; `ImplementsQueue`: the ring implements `InOrderWindow` |
| `cpu_memory` | all 2401 sequences of 4 instructions out of 7 (LI, ADDI, ADD, two stores, two loads), each behind two NOPs and behind a backlog of four branches not taken; reorder buffer and queues of 8 | `SequentialMeaning`, `LoadsSeeOlderStores`, `MemoryQueuesMirrorRob`, `CommittedStoresReachMemory`, `Halts` |
| `cpu_branch` | 863 programs of 4 instructions (three ALU, NOP, four branches, loops included) and `WrongPath`; ROB 8, 4 spare physical registers | `SequentialMeaning` under speculation, `IqMirrorsRob`, `WaitersHaveProducers`, `RatFollowsWindow`, `RegistersPartitioned`, `NoRegisterLeaked`, `NoInstructionSkipped`, `KeepsRetiring` |
| `pipeline` | all 6561 sequences of 4 instructions out of 9 (two ALU, two loads, two stores, a branch forward, a branch back, J) behind two LI and in front of `HALT; SW; HALT`, and one program with the remaining opcodes; 3 registers, words of 3 bits, one reset at any time | `SequentialMeaning`, `OpcodesFollowPipeline`, `KeepsExecuting` |
| `multi_cycle` | all 6561 sequences of 4 instructions out of 9 (two ALU, two loads, two stores, a branch forward, a branch back, J) behind two LI and in front of `HALT; SW`, and one program with the remaining opcodes that runs off its end; 16 words of memory, half of them ROM, words and PC of 5 bits, one reset in any cycle | `SequentialMeaning`, `LatchesServeInstruction`, `InstructionsEnd` |
| `back_end` | NOT, XOR and a branch predicted not taken over 2 registers that read, write and branch on each other, sent in any order for ever; 3 slots, 2 issue-queue entries, 2 spare physical registers, words of one bit | `RegistersConserved`, `OperandsCurrent`, `ImplementsInOrder` (the refinement to `InOrderExecution`), `HeadMovesOn` |
| `vector` | 2 registers of 2 lanes, words of one bit, every choice of sources and destination under two operations, instructions that are not valid, external writes, 5 AVLs and 4 SEWs, unknown ones included | `LengthFitsWidth`, `ImplementsElementwise` (the refinement to `ElementwiseVector`) |
| `data_cache` | 2 lines of 2 words, 7 words of memory, so that lines alias and the last one is covered in part, 2 values; any sequence of calls | `CleanLinesMatch`, `ImplementsMemory` (the refinement to `PersistentMemory`) |
| `instruction_fetch` | 2 lines of 4 instructions, 32 addresses, a ROM of 16 that the addresses wrap around, 3 resets or invalidations in any cycle | `RefillMatchesRom`, `LinesMatchRom`, `DeliversProgram` (the refinement to `InstructionStream`), `KeepsFetching` |
| `find_*` | one program or two | the disagreements below |

Why the bounds are enough to be interesting: two architectural registers make
every RAW, WAR and WAW dependency; the ring wraps in every loop; loads wait for
stores with late addresses and forward from one of several; branches resolve
late enough to have two bundles behind them; a recovery squashes writers that
have and have not executed; the backlog of branches in `cpu_memory` keeps stores
from retiring, so that loads forward (without it memory always has the value);
`WrongPath` exhausts the free list and dispatches a
HALT on a path that is squashed. The bounds are also chosen so that the
structures are large enough for the program class where that is the condition
under which the code is right (see findings). `MaxCheckpoints` saturates the
counted stack depth, `WordMod` and `PcMod` stand for 2^32.

For the back end three slots and two queue entries are the smallest structures in
which both fill up, a pair executes while a third instruction waits, and a branch
has instructions on both sides; two spare registers run out, so that a register is
reused at once. The proofs cover all other sizes. For the vector unit two lanes
give an active and a tail element for every length, and lengths beyond the lanes
(3 and 9, cut to 4 by one width and not by the other) are in force as well.

For the pipeline, a producer and a consumer at every distance from 1 to 4 cover
each forwarding path and the bypass; loads, branches and HALT meet each other in
every order; the store behind the HALT is fetched and runs as far as MEM, and must
not be seen. `PcRegister` is outside the registers of the instance: the
sources give writes to R15 no meaning that could be checked.

For the multi-cycle CPU the loads from an address in the ROM half, the PC that runs
through the RAM half and wraps, and J over and into everything are the cases a unit
test has not; `LatchesServeInstruction` says that whatever came before, each
latch holds what the next state needs of the current instruction. An instruction
counts as executed when the control unit is back in FETCH, and the PC, which FETCH
has already advanced, is one behind in the states between.

For the caches two lines are enough for one to be replaced while the other is
used, and more addresses than cached words make tags alias. With four instructions in a
line, lane 1 misses alone only at a line's end, which an even PC never reaches; the
proofs cover the other geometries. Two lanes that need different lines, and might evict
each other's, are therefore not reached by the run: it takes lines of one
instruction. With two such lines TLC finds `KeepsFetching` to hold as well; with
a single one, which the `static_assert`s allow, the lanes evict each other for ever
and it fails. These geometries are excluded from the run, where a refill is to have
several words, and not from the proofs of safety.

For the pipeline `SequentialMeaning` counts an instruction as executed when it
leaves EX: the architectural registers are the register file with the results
in MEM/WB and EX/MEM applied, the memory is the data memory with the store in
EX/MEM applied, and the PC is that of the oldest instruction that has not left
EX, which `pcplus4` of the stage registers gives (0 in a bubble). When the HALT
is in WB the two files themselves are compared, because that is when a caller
of `run()` reads them.

`SequentialMeaning` is the refinement `SuperScalarCPU => SequentialCPU` with
`arf` for the registers, `dmem` for the memory and, for the PC, the PC of the
oldest instruction in flight (or of the bundle waiting for decode, or the fetch
PC). Nothing else is a step visible from outside: only `CommitStage` may change
these, and only by one or two instructions.

**Fairness.** `FairSpec` adds weak fairness of `StageAdvances`: `run()` calls
`step()` until the CPU has halted, and `step()` is a sequential function that
runs every stage. There are no other assumptions; no instruction is
assumed to become ready. `CHECK_DEADLOCK FALSE` is set for the CPU because it
stops after HALT. In `PipelinedCPU` it adds weak fairness of `Step`, by the same
`run()` loop; `MaxResets` bounds the resets, so that they cannot keep a program
from running. The same holds for `MultiCycleCPU`. In `InstructionFetch` it is weak
fairness of `Cycle`: the clock runs, and the memory answers a request that
stays up (the repository's memory is combinational and answers at once);
`MaxDisturbances` bounds resets and invalidations. In `IntegerBackEnd` it is weak
fairness of `Cycle` and of `ResolveBranch`: a caller clocks the pipeline and the
issue unit, the front end may stay silent. Weak fairness is enough although the
issue unit serves the queue by slot: an old branch behind a younger ready
instruction is reached because the pipeline executes that one, and because the
reorder buffer fills up behind an old branch, after which nothing new can come in
front of it. `VectorCPU` has no liveness: nothing
in it waits.

## What the code does not do

Each item is a `find_*` run that TLC refutes, quoted in `PROJECT.json`.

1. `find_rob_full`: `step()` asks only `can_rename`. With a full reorder buffer or
   issue queue `dispatch` refuses a lane that has been renamed already; the lane is
   lost, and whoever reads its register waits for ever. The same missing stall
   loses a whole bundle when registers are short: `fd_enable_` is always HIGH.
   With the default sizes (16 entries, 48 spare registers) the reorder buffer is
   what fills up.
2. `find_checkpoint_lane`: the checkpoint of a branch in lane 0 is taken after lane
   1 has been renamed, so a misprediction restores lane 1's squashed mapping.
   `cpu_branch` therefore runs programs that write no register directly behind a
   branch.
3. `find_stale_memory_queues`: recovery squashes the reorder buffer first and then
   asks it again what to squash in the load/store queue and the store buffer: nothing.
   `cpu_branch` therefore has no memory instruction behind a branch.

More was seen while modelling and has no run. In `SuperScalarCPU` a J never
executes: neither the branch stage nor the ALU lanes select it, it never completes,
and retirement stops there. A taken branch predicted taken by another branch's counter,
without a target, is taken for correctly predicted although fetch went straight on;
`cpu_branch` gives every slot its own predictor entry, and the programs have no J. Every lane pushes a
checkpoint of the alias table but only branches pop one, so that stack grows. The register
renamed in lane 1 behind a HALT in lane 0 is lost when the HALT is squashed; no program
of `cpu_branch` does that, so `NoRegisterLeaked` does not show it. The results of
`lsq_.allocate` and `store_buffer_.allocate` are ignored; the queues of the runs, like
the default ones, are large enough never to refuse.
`SuperScalarCPU::reset()`, which the constructor ends with, resets the free list to its
default sizes, 64 and 16, whatever `PRFCount` and `ARFCount` are: with fewer
physical registers it hands out numbers the register file does not have, with more it
forgets some. The model states this as `DefaultPRFCount` and `DefaultARFCount` of
`ResetFreeList` and assumes with `FreeListAssumption` that the sizes agree; the small
instances, and the theorems at sizes other than these two, are about the code with
these defaults adapted.
Forwarding compares byte addresses while memory holds words, so that byte 4 does
not see a store in flight to byte 5. Forwarding also serves addresses outside the
data memory, where a load from memory reads 0; `cpu_memory` has a memory as large
as its address space, as the source gives no meaning to addresses outside. In the pipelined CPU a write
to R15 redirects the PC only if decode does not stall and no HALT is in flight in
the cycle it is in WB. In the vector unit the lane mask compares lane numbers with
`vl` whatever `vtype` says, so that three elements of 8 bits activate three lanes of
32; and a `VectorDatapath` that is given a `Clock` object overwrites the pulses
of `initialize_register` with the level of that object, which then writes nothing
(no file of the repository makes one).

## What is proved

`Structures_proofs` about the reorder buffer, for every capacity and every payload, from
`CapacityAssumption` (the capacity is positive) alone:

- `IndicesInRange`, `WindowConsistent`, `NoStaleCompletion`: `RobSpec => []RobTypeOK`,
  `[]RobWindow`, `[]FreeSlotsAreClean`, the invariants of the run `rob`.

- `RingImplementsQueue`: `RobSpec => ImplementsQueue`, the refinement to `InOrderWindow`.

The first three follow from `InvariantHolds`, `RobSpec => []RobIInv`, with `RobIInv` the
conjunction of the three. None is inductive alone: that an allocation does not
overwrite an instruction needs `tail = (head + count) % Capacity`; that the
window's valid flags survive a commit or a squash needs the positions of slots,
hence the index ranges; that a completion of a free slot changes nothing needs
the valid flags. There is one lemma per call (`AllocateIInv`, `CompleteIInv`,
`CommitIInv`, `SquashIInv`), and lemmas in `Arithmetic_proofs` turn `%` into case distinctions for the SMT solver.
The same module shows how allocation, commit and squash move the ages of what
stays in the ring (`AllocateAges`, `CommitAges`, `SquashAges`); the refinement, and
the back end below, speak of ages only.

`IntegerBackEnd_proofs`, for every number of architectural and physical registers,
every size of the two queues, every instruction set, ALU and branch condition, from
`CapacityAssumption`, `RegistersAssumption` (at least as many physical registers as
architectural ones), `InstructionAssumption` (fields and results have their types, a
branch writes no register) and `QueueAssumption`:

- `BackEndTypes`, `NoRegisterLostOrShared`, `NoOperandStale`: the invariants of the
  run `back_end`;
- `BackEndImplementsInOrder`: `Spec => ImplementsInOrder`.

All follow from `BackEndInvariant`, `Spec => []IInv(State)`. Seen in program order,
the mapping of a register at an age is what the next younger writer will
replace, or the alias table. `RegistersConserved` alone is not inductive: that a
retirement frees the right register needs the mapping an instruction replaced to be
what the writer before it allocated (`AllTracked`); that a recovery restores the right
mapping needs the checkpoints to be the mapping at their age (`Checkpoints`). That
operands stay current needs ready bits to mean completed (`ReadyOK`) and queue entries
to be instructions in flight (`QueueOK`). The refinement needs results to be those of
the sources as they are now (`ResultsOK`), because an instruction retires long after it
read them. Every action is a composition of four steps on the record of
structures, so the proof has one lemma per step (`EnterKeeps`, `ExecKeeps`,
`RetireKeeps`, `RecoverKeeps`), one per step on what it does to the instructions in
flight (`FlightEnters`, `FlightExecutes`, `FlightRetires`, `FlightRecovers`), and
composes them per action; a pair of lanes is two such steps.

`VectorCPU_proofs`, for every number of registers and lanes, every set of words
and every lane operation, from `VectorAssumption` and `ConfigurationAssumption`
(operations yield words, instruction fields name registers, inputs are within their
buses or unknown):

- `LengthAlwaysFits`: `Spec => []LengthFitsWidth`;
- `VectorImplementsElementwise`: `Spec => ImplementsElementwise`.

Both follow from `VectorInvariant`. Its core is one equation: the master latches hold
`After(presented, vreg)`, what the request presented last makes of the registers
as they are. An edge turns that into the new registers, and since it leaves `presented`
at `Hold`, a second one changes nothing.

`PipelinedCPU_proofs`, for every program, every width of words and program
counters and every size of the register file and of the memories, from
`SizeAssumption` (the sizes are positive, branch offsets start behind the branch and
J takes one), `ProgramsAssumption` (programs are sequences of instructions) and
`BitwiseAssumption`:

- `TypeCorrect`, `OpcodesTracked`: `Spec => []TypeOK`, `[]OpcodesFollowPipeline`;
- `ExecutesInProgramOrder`: `Spec /\ []FetchesInside => SequentialMeaning`, for
  programs that do not write R15 (`LeavesPcAlone`).

The invariant has three parts. `WiresInv` types what the wires carry and ties the
control bits of every stage to the opcode tracked beside it: `OpcodesFollowPipeline`
speaks of EX only, while forwarding and write-back act on the bits that came
from there. `PcNotWritten` says no instruction in flight writes the PC.
`FrontEndInOrder` is the heart: until a HALT is met, what is in EX, in ID and at the
PC are consecutive instructions of the program, a bubble in ID has a bubble in front of
it, the operands in ID/EX are those of the register file, and no load stands directly
before its reader. With it a step either lets no instruction leave EX, and then
`NothingLeavesEX` says that the architectural state stays, or exactly one, and then
`InstructionLeavesEX` says that it has the effect it has in the single-cycle
CPU: `ForwardedIsArchitectural` shows that the forwarding muxes read the
architectural registers and `ArchitecturalEdge` that MEM and WB finish what EX
began. The two hypotheses are conditions under which the code is right.
A write to R15 is the exception described above. `FetchesInside` keeps the PC below
the last slot of the instruction memory: there `pcplus4` wraps to 0, so that
the mapping of the refinement cannot tell the instruction from a bubble; in the
code that slot is at 2^32 - 4. Every state of the run `pipeline` satisfies both.

`MultiCycleCPU_proofs`, for every program, width and size, from the same kind of
assumptions (`SizeAssumption`, `WidthAssumption`, `ProgramsAssumption`,
`BitwiseAssumption`) and no hypothesis:

- `LatchesServe`: `Spec => []LatchesServeInstruction`;
- `ExecutesOneByOne`: `Spec => SequentialMeaning`.

`LatchesServeInstruction` is not inductive: that `a` and `b` still are the source
registers, and `alu_out` still is what was computed, needs that the state is one the
opcode leads to (`StateFollowsOpcode`), and that what is computed equals what the
single-cycle CPU computes needs the latches to hold words (`LatchesTyped`).
There is one lemma per state of the control unit; the last cycle of every instruction
has the latches to hand that make its write the one of `SequentialCPU!Execute`,
and the cycles before it change nothing that is visible from outside.

`Arithmetic_proofs` also proves, for every number of lines and every line size
(`GeometryAssumption`: both positive), that block, line, tag and offset determine an
address and that a line with its tag holds exactly its own words. The two
modules below rest on it.

`Structures_proofs` about the data cache, for every geometry, memory size and set of values, from
`GeometryAssumption`, `SizeAssumption` (the size is a natural number) and
`WordsAssumption` (0 is a word):

- `CacheInvariant`: `Spec => []IInv` with `IInv` the conjunction of `TypeOK` and
  `CleanLinesMatch`; `TypesAlways` and `CleanLinesMatchAlways` follow. A write-back
  lands in the right place only if a valid line's block lies in the memory, which
  is in `TypeOK`; a clean line may be dropped only because it matches.
- `CacheIsMemory`: `Spec => ImplementsMemory`. The refinement maps `store` to the
  cached value of a word if there is one and to memory otherwise. `EvictValue`
  (an eviction stores the current values and changes nothing else) and
  `LineReplaced` (a line in place of another changes no value outside its block)
  carry the argument; there is one lemma per call above them.

`Structures_proofs` about the instruction fetch, for every geometry, ROM and address space, from
`GeometryAssumption` and `FetchAssumption` (ROM and address space are not empty, the
refill counter tells the words of a line apart):

- `FetchInvariant`: `FetchSpec => []FetchInv`, the conjunction of `FetchTypeOK`,
  `RefillMatchesRom` and `LinesMatchRom`; `FetchTypes`, `BufferMatches` and
  `CachedIsRom` follow. Lines match the ROM because an installed buffer does;
  the buffer does because the words received are those below `refill_word`, which
  needs the alignment of `line_base` and the range of `refill_word`, and all of them
  in INSTALL, where the counter may have wrapped (`CounterStep`).
- `FetchImplementsStream`: `FetchSpec => DeliversProgram`.

`SuperScalarCPU_proofs` and `SuperScalarMeaning_proofs`, for every program, every size of the reorder buffer, the
queues, the register files, the predictor and the memory, from `SizeAssumption`,
`FreeListAssumption`, `ProgramsAssumption`, `CapacityAssumption` and `BitwiseAssumption`.
It has five parts,
each an invariant that rests on ones before it. What the code gets wrong
(findings 1 and 3 and the hazard of finding 2) is a hypothesis of the part it
would break, and of that part only.

- `MachineHolds`: `Spec => []MachineOK`, without a hypothesis: `Ring(rob)` (the window
  is what the buffer holds) and `Linked(iq, rob)` (the valid entries of the issue
  queue are the instructions in flight that have not executed, one entry each), with
  the types of everything else. `TypesHold` and `IssueQueueMirrors` (`TypeOK`,
  `IqMirrorsRob`) follow. There is one lemma per member function of the reorder
  buffer and of the queues, and the actions are compositions of these.
- `MemoryHolds`: `[]MemoryOK`, from which `MemoryQueuesMirror`, `LoadsSeeStores` and
  `StoresReachMemory` follow (`MemoryQueuesMirrorRob`, `LoadsSeeOlderStores`,
  `CommittedStoresReachMemory`). The two queues hold the memory instructions of the
  window in its order (`Tracks`); an entry knows its address and data as far as its
  instruction has executed (`Progress`); a load that has executed has the value of
  the youngest older store to its address (`Sees`), which the scan of a later cycle
  leaves alone; the stores that have retired are at the front of the store buffer,
  so that a pop finds the one that retires. Hypotheses: the queues are at least as
  large as the reorder buffer, as the defaults (16, 32, 16) are, and
  `WrongPathSparesMemory`: no recovery squashes a memory instruction (finding 3).
- `RenamingHolds`: `[]RenamingOK`, from which `EveryWaiterHasProducer`,
  `RatMapsYoungestWriter`, `RegistersHaveOneOwner` and `RegistersReturn` follow
  (`WaitersHaveProducers`, `RatFollowsWindow`, `RegistersPartitioned`,
  `NoRegisterLeaked`). None of these is inductive. A retirement frees the right
  register because there is a history `m`, in which `m[k]` is the alias table as the `k`
  oldest instructions in flight have made it: each writer has replaced what the
  history says, and a branch's checkpoint is the history behind it (`History`).
  The free list, the destinations in flight and `m[0]` partition the physical
  registers (`Partitioned`), a destination is ready exactly when its instruction has
  executed (`Computed`), and each operand that is not ready has an older producer
  that is pending (`Supplied`). Hypotheses: `WritersDispatched` (finding 1: no lane
  that has been given a register is refused by dispatch) and `NoWriterBehindBranch`
  (finding 2: no such lane directly behind a branch of its bundle). They speak of the
  one state in which a bundle arrives.
- `FetchFollowsProgram`: `[]OrderOK`, from which `NothingSkipped` follows
  (`NoInstructionSkipped`). The window is a path through the program, and what the
  front end brings next (the redirect, the bundle in the register, or the fetch PC,
  whichever counts at this stage) continues it (`Path`); a predictor entry's target is
  that of the branch whose PC is its tag (`PredictsBranches`). Then a predicted
  redirect, a recovery and a plain fetch all continue the path, and a squash cuts it
  where the redirect goes on. Hypothesis: `LanesEnter`, that the registers suffice for
  each bundle that arrives and no lane of it is refused unless it is behind a HALT
  (finding 1).

- `ProgramExecuted` (in `SuperScalarMeaning_proofs`): `SequentialMeaning`, the refinement `SuperScalarCPU => SequentialCPU`:
  what retires is what the single-cycle CPU executes. The invariant says what is in
  flight means. There is a trace `x` of architectural states, `x[0]` the committed
  registers and memory and `x[k + 1]` what `Execute` makes of `x[k]` with the `k`-th
  instruction in flight (`Trace`), next to the history `m` of `RenamingHolds`. A
  destination that is ready holds the result in the trace (`Valued`), and so
  a ready register holds `x[k].regs[a]` wherever `m[k]` maps `a` to it
  (`ReadValue`); an operand in the issue queue has the value that its instruction
  finds, or waits for the register that will have it (`Operands`); the queues know the
  addresses and data of the trace (`Accesses`, `Stored`); behind a branch that has
  executed comes what `Execute` goes on with, behind one that has not what it was
  predicted to go on with (`Goes`). An ALU result is then that of the trace; a load
  gets it from the youngest older store or from memory, because no store in between writes
  its word (`WordKept`); a branch that has gone as predicted needs no repair, and for
  one that has not the trace is cut behind it and continued where the redirect goes;
  a lane that enters makes the trace one longer. When the head retires, `arf`,
  memory with the retired stores drained, and the PC of the next instruction are `x[1]`, so
  that a commit stage is none, one or two steps of `SequentialCPU`, and no other stage is
  visible (`ControlOK` says which PC is the next one while nothing is in flight).
  It has the hypotheses of the three theorems it rests on and two of its own.
  `OwnCounters`: a lane that is predicted taken has a target, which fails only when two
  branches share a predictor counter. `AccessesInside`: an access whose address is
  known is an aligned word of the data memory; the code compares bytes when it
  forwards and forwards what memory would not hold. A J may occur: it never executes, so
  that nothing behind it retires, and what has retired is still right.

TLC has found the hypotheses to hold in every state of `cpu_memory` and
`cpu_branch`, with one exception: `WrongPath` is there to exhaust the free list,
and loses a bundle (of the path that is then squashed), so that `LanesEnter` does
not hold for this program. `NoInstructionSkipped` and `SequentialMeaning` do, because the
taken branch leads to what happens to be fetched next. In the `find_*` runs the
hypothesis that is named after the finding is what fails.

Only model-checked: liveness (`HeadMovesOn`, `KeepsFetching`, `KeepsExecuting`,
`KeepsRetiring`, `Halts`, `InstructionsEnd`), which is out of the prover's reach. Every
other property of the runs is a theorem.

## Not modelled

- The gate-level wiring of `components` and of the single-cycle datapath: its effect is
  in the modules of the CPUs. Logic.cpp is external.
- The Python assembler and bindings: text processing, no state shared with the machines
  beyond loading a program.
- Bit layouts of instruction words and sign extension of immediates.
- `IssueUnit` with a width above one, and as a source of ALU requests: no caller
  executes what it would then hand out.
- The datapath constructor that takes a `Clock` object.
- Test hooks that write registers and memory from outside.
- Wiring of the caches into `SuperScalarCPU`, which the code does not have: it
  fetches from and stores to memories without caches.
