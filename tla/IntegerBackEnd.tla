--------------------------- MODULE IntegerBackEnd ---------------------------
(***************************************************************************)
(* The integer back end the repository's units make without a memory:      *)
(* RenameUnit over the register alias table and the free list, two-wide    *)
(* DispatchUnit into reorder buffer and issue queue, the two-lane          *)
(* IntegerExecutionPipeline with its write-back and retirement, IssueUnit  *)
(* for branches and BranchRecoveryUnit.  The units are joined as            *)
(* IntegerExecutionPipelineTests.cpp and                                   *)
(* BranchMispredictionIntegrationTests.cpp join them; SuperScalarCPU has   *)
(* stages of its own in place of the pipeline.                             *)
(*                                                                         *)
(* The five structures are one record of operators (State); an action is a *)
(* composition of the calls its caller makes.                              *)
(***************************************************************************)
EXTENDS RobOps, IssueQueueOps

CONSTANTS NumRegisters,     \* architectural registers, REGISTER_COUNT
          PRFCount,         \* physical registers
          Value,            \* what a register holds
          Instruction,      \* the instructions the front end may send
          Alu(_, _, _),     \* ALUInterface on an instruction and its operands
          Taken(_, _, _)    \* whether a branch is taken on its operands

Reg      == 0 .. NumRegisters - 1
Physical == 0 .. PRFCount - 1

ASSUME RegistersAssumption == /\ NumRegisters \in Nat \ {0}
                              /\ PRFCount \in Nat /\ PRFCount >= NumRegisters

ASSUME InstructionAssumption ==
    /\ 0 \in Value
    /\ \A i \in Instruction :
          /\ i.rd \in Reg /\ i.rs1 \in Reg /\ i.rs2 \in Reg
          /\ i.use1 \in BOOLEAN /\ i.use2 \in BOOLEAN /\ i.write \in BOOLEAN
          /\ i.branch \in BOOLEAN /\ i.predicted \in BOOLEAN
          /\ i.alu \in BOOLEAN              \* has an ALU operation
          /\ i.branch => ~i.write           \* BEQ and BNE have no destination
          /\ \A v, w \in Value : Alu(i, v, w) \in Value /\ Taken(i, v, w) \in BOOLEAN

ASSUME QueueAssumption == IQCapacity \in Nat \ {0}

VARIABLES rat,          \* RegisterAliasTable: the current mapping
          freeList,     \* PhysicalRegisterFreeList, front first
          prf,          \* PhysicalRegisterFile
          rob,          \* ReOrderBuffer
          iq            \* IssueQueue

vars == <<rat, freeList, prf, rob, iq>>

State == [rat |-> rat, free |-> freeList, prf |-> prf, rob |-> rob, iq |-> iq]

Becomes(s) == /\ rat' = s.rat /\ freeList' = s.free /\ prf' = s.prf
              /\ rob' = s.rob /\ iq' = s.iq

Init == /\ rat = [a \in Reg |-> a]
        /\ freeList = [k \in 1 .. PRFCount - NumRegisters |-> NumRegisters + k - 1]
        /\ prf = [p \in Physical |-> [value |-> 0, ready |-> p \in Reg]]
        /\ rob = ResetRob
        /\ iq = ResetIQ

-----------------------------------------------------------------------------
(* Renaming and dispatch. *)

CanRename(s, i) == i.write => s.free # << >>

Bundle(s, i) == [ins |-> i,
                 src1 |-> s.rat[i.rs1],
                 src2 |-> s.rat[i.rs2],
                 old  |-> IF i.write THEN s.rat[i.rd] ELSE NoData,
                 prd  |-> IF i.write THEN Head(s.free) ELSE NoData]

(* Faulty: the register still counts as ready, with its value of before. *)
RenameKeepingReady(s, i) ==
    IF i.write
    THEN [s EXCEPT !.rat = [@ EXCEPT ![i.rd] = Head(s.free)], !.free = Tail(@)]
    ELSE s

Rename(s, i) ==
    IF i.write
    THEN [s EXCEPT !.rat  = [@ EXCEPT ![i.rd] = Head(s.free)],
                   !.free = Tail(@),
                   !.prf  = [@ EXCEPT ![Head(s.free)] = [value |-> 0, ready |-> FALSE]]]
    ELSE s

HasRoom(s) == ~Full(s.rob) /\ ~IQFull(s.iq)

Operand(file, used, p) == IF used THEN [reg |-> p, ready |-> file[p].ready,
                                        value |-> file[p].value]
                          ELSE [reg |-> p, ready |-> TRUE, value |-> 0]

IssueEntry(s, b) == [valid |-> TRUE,
                     rob   |-> s.rob.tail,
                     ins   |-> b.ins,
                     prd   |-> b.prd,
                     op1   |-> Operand(s.prf, b.ins.use1, b.src1),
                     op2   |-> Operand(s.prf, b.ins.use2, b.src2)]

Dispatch(s, b, checkpoint) ==
    [s EXCEPT !.rob = Allocate(@, [ins |-> b.ins, prd |-> b.prd, old |-> b.old,
                                   cp |-> checkpoint]),
              !.iq  = Insert(@, IssueEntry(s, b))]

(* One instruction; a branch takes the checkpoint of the alias table along. *)
EnterOne(i) ==
    LET renamed == Rename(State, i)
    IN  /\ CanRename(State, i) /\ HasRoom(renamed)
        /\ Becomes(Dispatch(renamed, Bundle(State, i),
                            IF i.branch THEN renamed.rat ELSE NoData))

(* Both lanes are renamed before either is dispatched, and the pair is      *)
(* taken whole: can_rename and the room in both queues are for two.         *)
EnterTwo(i, j) ==
    LET s1 == Rename(State, i)
        s2 == Rename(s1, j)
        s3 == Dispatch(s2, Bundle(State, i), NoData)
    IN  /\ ~i.branch /\ ~j.branch
        /\ CanRename(State, i) /\ CanRename(s1, j)
        /\ HasRoom(s2) /\ HasRoom(s3)
        /\ Becomes(Dispatch(s3, Bundle(s1, j), NoData))

-----------------------------------------------------------------------------
(* Execution and retirement: IntegerExecutionPipeline::cycle. *)

Removed(s, slots) == [s EXCEPT !.iq = [q \in IQSlot |-> IF q \in slots THEN FreeSlot
                                                        ELSE @[q]]]

(* Faulty: the broadcast only reaches the register file. *)
WriteBackSilently(s, e) ==
    IF ~s.rob.slot[e.rob].valid THEN s
    ELSE [s EXCEPT
            !.prf = IF e.ins.write
                    THEN [@ EXCEPT ![e.prd] = [value |-> Alu(e.ins, e.op1.value, e.op2.value),
                                               ready |-> TRUE]]
                    ELSE @,
            !.rob = Complete(@, e.rob)]

(* The result of issue-queue entry e. *)
WriteBack(s, e) ==
    LET result == Alu(e.ins, e.op1.value, e.op2.value)
    IN  IF ~s.rob.slot[e.rob].valid THEN s
        ELSE IF e.ins.write
        THEN [s EXCEPT !.prf = [@ EXCEPT ![e.prd] = [value |-> result, ready |-> TRUE]],
                       !.iq  = Wakeup(@, e.prd, result),
                       !.rob = Complete(@, e.rob)]
        ELSE [s EXCEPT !.rob = Complete(@, e.rob)]

(* Faulty: frees the register the instruction wrote. *)
RetireReleasingNew(s) ==
    IF ~CanCommit(s.rob) THEN s
    ELSE LET data == s.rob.slot[s.rob.head].data
         IN  [s EXCEPT !.rob  = Commit(@),
                       !.free = IF data.ins.write THEN <<data.prd>> \o @ ELSE @]

(* The head retires if it can; the register its destination had before goes *)
(* to the front of the free list.                                           *)
Retire(s) ==
    IF ~CanCommit(s.rob) THEN s
    ELSE LET data == s.rob.slot[s.rob.head].data
         IN  [s EXCEPT !.rob  = Commit(@),
                       !.free = IF data.ins.write THEN <<data.old>> \o @ ELSE @]

(* What the pipeline selects.  A NOP has no ALU operation: it stays.        *)
Executable == {q \in IQSlot : Ready(iq[q]) /\ ~iq[q].ins.branch /\ iq[q].ins.alu}

(* One call of cycle: none, one or two entries execute, the first ones by   *)
(* slot, with the operands they hold when the cycle begins; then up to two  *)
(* instructions retire.                                                     *)
CycleNone == /\ Executable = {}
             /\ Becomes(Retire(Retire(State)))

CycleOne == \E q \in Executable :
    /\ Executable = {q}
    /\ Becomes(Retire(Retire(WriteBack(Removed(State, {q}), iq[q]))))

CycleTwo == \E q \in FirstSlot(Executable) : \E p \in FirstSlot(Executable \ {q}) :
    Becomes(Retire(Retire(WriteBack(WriteBack(Removed(State, {q, p}), iq[q]), iq[p]))))

Cycle == CycleNone \/ CycleOne \/ CycleTwo

-----------------------------------------------------------------------------
(* Branches: IssueUnit of width one, BranchExecutionUnit, recovery. *)

(* The registers squashed behind branch b, in the order of the free list    *)
(* once each has been pushed to its front, oldest first.                    *)
SquashedWriters(r, b) == {i \in Younger(r, b) : r.slot[i].data.ins.write}

Released(r, b) ==
    {order \in [1 .. Cardinality(SquashedWriters(r, b)) -> SquashedWriters(r, b)] :
        \A x, y \in DOMAIN order : x < y => Position(r, order[x]) > Position(r, order[y])}

(* Faulty: the mapping of before the recovery stays. *)
RecoverKeepingRat(s, b, order) ==
    [s EXCEPT !.rob  = SquashYoungerThan(@, b),
              !.free = [k \in DOMAIN order |-> s.rob.slot[order[k]].data.prd] \o @,
              !.iq   = IQSquash(@, Younger(s.rob, b))]

Recover(s, b, order) ==
    [s EXCEPT !.rat  = s.rob.slot[b].data.cp,
              !.rob  = SquashYoungerThan(@, b),
              !.free = [k \in DOMAIN order |-> s.rob.slot[order[k]].data.prd] \o @,
              !.iq   = IQSquash(@, Younger(s.rob, b))]

(* IssueUnit hands out the first ready entry.  When it is a branch it is    *)
(* executed and completed, and recovered from if it was mispredicted.       *)
ResolveBranch ==
    \E q \in FirstSlot({x \in IQSlot : Ready(iq[x])}) :
        LET e == iq[q]
            gone == Removed(State, {q})
            done == [gone EXCEPT !.rob = Complete(@, e.rob)]
        IN  /\ e.ins.branch
            /\ IF Taken(e.ins, e.op1.value, e.op2.value) = e.ins.predicted
               THEN Becomes(done)
               ELSE \E order \in Released(done.rob, e.rob) : Becomes(Recover(done, e.rob, order))

Next == \/ \E i \in Instruction : EnterOne(i)
        \/ \E i, j \in Instruction : EnterTwo(i, j)
        \/ CycleNone
        \/ CycleOne
        \/ CycleTwo
        \/ ResolveBranch

(* Every clock has a cycle and offers the issue unit its turn; the front    *)
(* end may stay silent.                                                     *)
Fairness == WF_vars(Cycle) /\ WF_vars(ResolveBranch)

Spec     == Init /\ [][Next]_vars
FairSpec == Spec /\ Fairness

-----------------------------------------------------------------------------
(* The back end seen in program order.  Ages are positions in the reorder   *)
(* buffer, 0 for the head.                                                  *)
InFlight(s) == {i \in Index : InWindow(s.rob, i)}
Data(s, i)  == s.rob.slot[i].data
Writers(s)  == {i \in InFlight(s) : Data(s, i).ins.write}

(* The instructions from age k on that write architectural register a. *)
LaterWriters(s, k, a) ==
    {i \in Writers(s) : Data(s, i).ins.rd = a /\ Position(s.rob, i) >= k}

Oldest(r, slots) == CHOOSE i \in slots : \A j \in slots : Position(r, i) <= Position(r, j)

(* The mapping of a as the instruction of age k finds it: what the next     *)
(* writer replaces, or the alias table when there is none.                  *)
Mapping(s, k, a) ==
    IF LaterWriters(s, k, a) = {} THEN s.rat[a]
    ELSE Data(s, Oldest(s.rob, LaterWriters(s, k, a))).old

(* The committed home of a, and the mapping the instruction in slot i reads. *)
Home(s, a)      == Mapping(s, 0, a)
Before(s, i, a) == Mapping(s, Position(s.rob, i), a)

TypeOK == /\ rat \in [Reg -> Physical]
          /\ freeList \in Seq(Physical)
          /\ prf \in [Physical -> [value : Value, ready : BOOLEAN]]
          /\ rob.head \in Index /\ rob.count \in 0 .. Capacity
          /\ \A q \in IQSlot : iq[q].valid => iq[q].rob \in Index

(* No physical register is lost and none has two owners: each is free, the  *)
(* destination of one instruction in flight, or the committed home of one   *)
(* architectural register, whatever was executed out of order, retired in   *)
(* pairs or squashed in between.                                            *)
EveryRegisterOwned(s) ==
    \A p \in Physical : \/ \E n \in DOMAIN s.free : s.free[n] = p
                        \/ \E i \in Writers(s) : Data(s, i).prd = p
                        \/ \E a \in Reg : Home(s, a) = p

OneOwner(s) ==
    /\ \A m, n \in DOMAIN s.free : s.free[m] = s.free[n] => m = n
    /\ \A i, j \in Writers(s) : Data(s, i).prd = Data(s, j).prd => i = j
    /\ \A a, b \in Reg : Home(s, a) = Home(s, b) => a = b
    /\ \A n \in DOMAIN s.free : /\ \A i \in Writers(s) : Data(s, i).prd # s.free[n]
                                /\ \A a \in Reg : Home(s, a) # s.free[n]
    /\ \A i \in Writers(s), a \in Reg : Data(s, i).prd # Home(s, a)

RegistersConserved == EveryRegisterOwned(State) /\ OneOwner(State)

(* No operand is stale and no wake-up is missed: an operand in the issue    *)
(* queue names the register its instruction found in the alias table, is    *)
(* ready exactly when that register is, and then holds its value; and an    *)
(* operand that waits waits for an older instruction that is yet to execute. *)
Current(s, i, op, a) ==
    /\ op.reg = Before(s, i, a)
    /\ op.ready = s.prf[op.reg].ready
    /\ op.ready => op.value = s.prf[op.reg].value

HasProducer(s, i, op) ==
    \E j \in Writers(s) : /\ Position(s.rob, j) < Position(s.rob, i)
                          /\ Data(s, j).prd = op.reg /\ ~s.rob.slot[j].completed

OperandsCurrent ==
    \A q \in IQSlot : iq[q].valid =>
        LET e == iq[q]
        IN  /\ e.rob \in InFlight(State) /\ ~rob.slot[e.rob].completed
            /\ e.ins.use1 => Current(State, e.rob, e.op1, e.ins.rs1)
            /\ e.ins.use2 => Current(State, e.rob, e.op2, e.ins.rs2)
            /\ e.op1.ready \/ HasProducer(State, e.rob, e.op1)
            /\ e.op2.ready \/ HasProducer(State, e.rob, e.op2)

(* The refinement mapping: the instructions in flight with the branches     *)
(* decided so far, and the registers as committed.                          *)
SourceValue(s, i, used, a) == IF used THEN s.prf[Before(s, i, a)].value ELSE 0

FirstSource(s, i)  == SourceValue(s, i, Data(s, i).ins.use1, Data(s, i).ins.rs1)
SecondSource(s, i) == SourceValue(s, i, Data(s, i).ins.use2, Data(s, i).ins.rs2)

Item(s, i) == [ins     |-> Data(s, i).ins,
               decided |-> IF Data(s, i).ins.branch /\ s.rob.slot[i].completed
                           THEN {Taken(Data(s, i).ins, FirstSource(s, i), SecondSource(s, i))}
                           ELSE {}]

FlightOf(s) == [k \in 1 .. s.rob.count |-> Item(s, SlotAt(s.rob, k))]
RegsOf(s)   == [a \in Reg |-> s.prf[Home(s, a)].value]

Program == INSTANCE InOrderExecution WITH flight <- FlightOf(State), regs <- RegsOf(State)

(* Renaming, out-of-order execution, paired retirement and recovery cannot  *)
(* be told from executing the instructions one by one in program order.     *)
ImplementsInOrder == Program!Spec

(* Every instruction in flight leaves: the head always moves on, although   *)
(* IssueUnit serves the queue by slot and not by age.                       *)
HeadMovesOn == \A h \in Index : (rob.head = h /\ rob.count > 0) ~> (rob.head # h)
=============================================================================
