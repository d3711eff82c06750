---------------------------- MODULE SuperScalarCPU ----------------------------
(***************************************************************************)
(* The superscalar CPU (superscalar/datapath/SuperScalarCPU.hpp): a two-   *)
(* wide front end with branch prediction and register renaming, out-of-    *)
(* order execution from an issue queue, a load/store queue with store      *)
(* forwarding, and in-order retirement.                                    *)
(*                                                                         *)
(* step() runs its stages in a fixed order inside one clock cycle; stage   *)
(* says which one is next, and every stage is one or more actions.  The    *)
(* state the components keep is in the variables named after them, and     *)
(* the operators on it are those of the component's module.                *)
(*                                                                         *)
(* Program counters and data addresses are byte addresses.  The program is *)
(* chosen from Programs in the initial state; everything else the CPU does *)
(* is determined.                                                          *)
(***************************************************************************)
EXTENDS Isa, RobOps, IssueQueueOps, LsqOps, StoreBufferOps, PredictorOps

CONSTANTS PRFCount, DMemWords,
          DefaultPRFCount,  \* the default arguments of
          DefaultARFCount,  \* PhysicalRegisterFreeList::reset
          Programs,
          MaxCheckpoints    \* bound on the counted depth of the checkpoint stack

(* The sizes are template parameters; branch offsets are in bytes.          *)
ASSUME SizeAssumption ==
    /\ {NumRegisters, WordMod, PcMod, IQCapacity, BPTableSize} \subseteq Nat \ {0}
    /\ {LSQCapacity, SBCapacity, DMemWords, PRFCount, MaxCheckpoints} \subseteq Nat
    /\ PRFCount > NumRegisters /\ PcMod % 4 = 0 /\ TargetBase \in Int

(* SuperScalarCPU::reset() resets the free list to the default sizes and    *)
(* not to the template parameters: the code is right for these sizes only.  *)
ASSUME FreeListAssumption == DefaultPRFCount = PRFCount /\ DefaultARFCount = NumRegisters

(* What the decoder makes of a program's words. *)
ASSUME ProgramsAssumption == \A p \in Programs : \A i \in DOMAIN p : p[i] \in Instruction

VARIABLES rom,              \* the program
          stage,            \* the next stage of step()
          fetchPc, fd,      \* fetch PC; the bundle in the fetch/decode register
          redirect,         \* fetch_redirect_ and fd_flush_, always driven together
          halted, haltDispatched,
          rob, iq, prf, arf,
          rat, freeList,
          lsq, storeBuffer, dmem,
          predictor,
          checkpoints       \* depth of the RAT's checkpoint stack

frontend  == <<fetchPc, fd, redirect>>
memory    == <<lsq, storeBuffer, dmem>>
renaming  == <<rat, freeList, checkpoints>>
vars == <<rom, stage, frontend, halted, haltDispatched, rob, iq, prf, arf,
          renaming, memory, predictor>>

InsnBytes == 4
WordBytes == 4
FetchWidth == 2
CommitWidth == 2

(* What the program means; also used for the memories' contents. *)
NextPc == IF halted THEN -1
          ELSE IF rob.count > 0 THEN rob.slot[rob.head].data.pc
          ELSE IF fd.valid THEN fd.pc
          ELSE fetchPc

Meaning == INSTANCE SequentialCPU WITH
              Width <- CommitWidth, DataWords <- DMemWords, SplitMemory <- FALSE,
              UnifiedMemory <- FALSE,
              pc <- NextPc, regs <- arf, mem <- dmem

-----------------------------------------------------------------------------
(* The CPU after reset() and load_program(). *)
Physical == 0 .. PRFCount - 1

ResetFreeList == [k \in 1 .. DefaultPRFCount - DefaultARFCount |-> DefaultARFCount + k - 1]

NoRedirect == [on |-> FALSE, pc |-> 0]
Bubble     == [valid |-> FALSE, pc |-> 0]

Init == /\ rom \in Programs
        /\ stage = "commit"
        /\ fetchPc = 0
        /\ fd = Bubble
        /\ redirect = NoRedirect
        /\ halted = FALSE
        /\ haltDispatched = FALSE
        /\ rob = ResetRob
        /\ iq = ResetIQ
        /\ prf = [p \in Physical |-> [ready |-> p \in Register, value |-> 0]]
        /\ arf = [r \in Register |-> 0]
        /\ rat = [r \in Register |-> r]
        /\ freeList = ResetFreeList
        /\ lsq = << >>
        /\ storeBuffer = << >>
        /\ dmem = [i \in 0 .. DMemWords - 1 |-> 0]
        /\ predictor = ResetPredictor
        /\ checkpoints = 0

-----------------------------------------------------------------------------
(* Stage 7: commit.  Up to two completed instructions leave from the head;  *)
(* HALT is the last one to leave.  What an instruction writes becomes       *)
(* architectural, the register it has replaced is free, and a store marks   *)
(* its entry in the store buffer.                                           *)
RetireHead(s) ==
    LET h == s.rob.head
        d == s.rob.slot[h].data
    IN  IF s.halted \/ ~CanCommit(s.rob) THEN s
        ELSE [rob  |-> Commit(s.rob),
              arf  |-> IF WritesRegister(d.ins)
                       THEN [s.arf EXCEPT ![d.ins.rd] = prf[d.prd].value] ELSE s.arf,
              free |-> IF WritesRegister(d.ins) THEN Append(s.free, d.old) ELSE s.free,
              checkpoints |-> IF d.ins.op \in BranchOps /\ s.checkpoints > 0
                              THEN s.checkpoints - 1 ELSE s.checkpoints,
              lsq    |-> LsqRemove(s.lsq, h),
              buffer |-> IF d.ins.op = "SW" THEN MarkCommitted(s.buffer, h) ELSE s.buffer,
              stores |-> IF d.ins.op = "SW" THEN s.stores + 1 ELSE s.stores,
              halted |-> d.ins.op = "HALT"]

(* Each retired store pops the oldest entry of the store buffer, if that is *)
(* committed, and writes it to memory.                                      *)
Drain(s) == IF CanPop(s.buffer)
            THEN [buffer |-> Tail(s.buffer),
                  mem |-> Meaning!WriteData(s.mem, Head(s.buffer).addr, Head(s.buffer).data)]
            ELSE s

Drained(retired) ==
    LET s == [buffer |-> retired.buffer, mem |-> dmem]
    IN  CASE retired.stores = 0 -> s
          [] retired.stores = 1 -> Drain(s)
          [] retired.stores = 2 -> Drain(Drain(s))

CommitStage ==
    LET retired == RetireHead(RetireHead(
                      [rob |-> rob, arf |-> arf, free |-> freeList,
                       checkpoints |-> checkpoints, lsq |-> lsq, buffer |-> storeBuffer,
                       stores |-> 0, halted |-> FALSE]))
    IN  /\ stage = "commit"
        /\ ~halted
        /\ rob' = retired.rob
        /\ arf' = retired.arf
        /\ freeList' = retired.free
        /\ checkpoints' = retired.checkpoints
        /\ lsq' = retired.lsq
        /\ storeBuffer' = Drained(retired).buffer
        /\ dmem' = Drained(retired).mem
        /\ halted' = retired.halted
        /\ stage' = "memory"
        /\ UNCHANGED <<rom, frontend, haltDispatched, iq, prf, rat, predictor>>

-----------------------------------------------------------------------------
(* Stage 6 (A): one load or store.  The unit scans the issue queue; a load  *)
(* it passes over because it has to wait has got its address nevertheless.  *)
ReadyForMemory(e) == Ready(e) /\ e.ins.op \in {"LW", "SW"}

Address(e) == EffectiveAddress(e.ins, e.op1.value)

(* The load/store queue when the scan has looked at slots 0 to i. *)
Addressed(i) ==
    LET loads == {j \in 0 .. i : ReadyForMemory(iq[j]) /\ iq[j].ins.op = "LW"}
        of(k) == {j \in loads : Find(lsq, iq[j].rob) = k}
    IN  [k \in DOMAIN lsq |->
            IF of(k) = {} THEN lsq[k]
            ELSE [lsq[k] EXCEPT !.addr = Address(iq[Max(of(k))])]]

Proceeds(i) == /\ ReadyForMemory(iq[i])
               /\ iq[i].ins.op = "LW" => ~LoadResult(Addressed(i), iq[i].rob).wait

FirstToProceed == FirstSlot({i \in IQSlot : Proceeds(i)})

MemoryIdle == /\ stage = "memory"
              /\ FirstToProceed = {}
              /\ lsq' = Addressed(IQCapacity - 1)
              /\ stage' = "branch"
              /\ UNCHANGED <<rom, frontend, halted, haltDispatched, rob, iq, prf, arf,
                             renaming, storeBuffer, dmem, predictor>>

ExecuteLoad == \E i \in FirstToProceed :
    LET e == iq[i]
        found == LoadResult(Addressed(i), e.rob)
        value == IF found.hit THEN found.data ELSE Meaning!ReadData(dmem, Address(e))
    IN  /\ stage = "memory"
        /\ e.ins.op = "LW"
        /\ lsq' = CompleteLoad(Addressed(i), e.rob, value)
        /\ prf' = [prf EXCEPT ![e.prd] = [ready |-> TRUE, value |-> value]]
        /\ iq' = Wakeup(RemoveSlot(iq, i), e.prd, value)
        /\ rob' = Complete(rob, e.rob)
        /\ stage' = "branch"
        /\ UNCHANGED <<rom, frontend, halted, haltDispatched, arf, renaming,
                       storeBuffer, dmem, predictor>>

ExecuteStore == \E i \in FirstToProceed :
    LET e == iq[i]
    IN  /\ stage = "memory"
        /\ e.ins.op = "SW"
        /\ lsq' = SetStoreData(SetAddress(Addressed(i), e.rob, Address(e)),
                               e.rob, e.op2.value)
        /\ storeBuffer' = SBUpdate(storeBuffer, e.rob, Address(e), e.op2.value)
        /\ iq' = RemoveSlot(iq, i)
        /\ rob' = Complete(rob, e.rob)
        /\ stage' = "branch"
        /\ UNCHANGED <<rom, frontend, halted, haltDispatched, prf, arf, renaming,
                       dmem, predictor>>

-----------------------------------------------------------------------------
(* Stage 6 (B): one branch, the first ready one of the issue queue, which   *)
(* need not be the oldest.  A jump (J) is never selected.                   *)
(* Faulty: BNE is forgotten. *)
ReadyBeq(e) == Ready(e) /\ e.ins.op = "BEQ"

ReadyBranch(e) == Ready(e) /\ e.ins.op \in BranchOps

ReadyBranches == {i \in IQSlot : ReadyBranch(iq[i])}

NoBranchReady == /\ stage = "branch"
                 /\ ReadyBranches = {}
                 /\ stage' = "alu0"
                 /\ UNCHANGED <<rom, frontend, halted, haltDispatched, rob, iq, prf, arf,
                                renaming, memory, predictor>>

Outcome(e) == Taken(e.ins, e.op1.value, e.op2.value)

(* Faulty: a branch predicted taken that falls through is not noticed. *)
MispredictedTakenOnly(e) == Outcome(e) /\ e.predTarget # Target(e.ins, e.pc)

(* A predicted target of 0 counts as no target. *)
Mispredicted(e) ==
    \/ e.predTaken # Outcome(e)
    \/ Outcome(e) /\ e.predTarget # 0 /\ e.predTarget # Target(e.ins, e.pc)

BranchAsPredicted == \E i \in FirstSlot(ReadyBranches) :
    LET e == iq[i]
    IN  /\ stage = "branch"
        /\ ~Mispredicted(e)
        /\ iq' = RemoveSlot(iq, i)
        /\ predictor' = Update(predictor, e.pc, Outcome(e), Target(e.ins, e.pc))
        /\ rob' = Complete(rob, e.rob)
        /\ stage' = "alu0"
        /\ UNCHANGED <<rom, frontend, halted, haltDispatched, prf, arf, renaming, memory>>

(* What is younger than slot b, the youngest first. *)
YoungestFirst(r, b) ==
    [k \in 1 .. YoungerCount(r, b) |-> r.slot[SlotAt(r, r.count + 1 - k)].data]

SquashedWriters(r, b) ==
    LET squashed == YoungestFirst(r, b)
    IN  SubQueue(squashed, {k \in DOMAIN squashed : WritesRegister(squashed[k].ins)})

(* Faulty: frees what commit would have freed. *)
SquashedOldRegisters(writers) == [k \in DOMAIN writers |-> writers[k].old]

(* Faulty: misses the oldest squashed writer. *)
SquashedButOldest(writers) == [k \in 1 .. Len(writers) - 1 |-> writers[k].prd]

(* The registers squashed instructions would have written.                  *)
SquashedRegisters(writers) == [k \in DOMAIN writers |-> writers[k].prd]

(* Recovery: the RAT goes back to the branch's checkpoint, the younger      *)
(* instructions leave the reorder buffer and the issue queue, and the       *)
(* registers they would have written are free again, the last one first.   *)
(* Then the CPU asks the reorder buffer a second time for what is younger   *)
(* than the branch, and squashes that in the load/store queue and the store *)
(* buffer.                                                                  *)
BranchMispredicted == \E i \in FirstSlot(ReadyBranches) :
    LET e == iq[i]
        completed == Complete(rob, e.rob)
        recovered == SquashYoungerThan(completed, e.rob)
        stillYounger == Younger(recovered, e.rob)
    IN  /\ stage = "branch"
        /\ Mispredicted(e)
        /\ predictor' = Update(predictor, e.pc, Outcome(e), Target(e.ins, e.pc))
        /\ rob' = recovered
        /\ rat' = rob.slot[e.rob].data.cp
        /\ freeList' = SquashedRegisters(SquashedWriters(completed, e.rob)) \o freeList
        /\ iq' = IQSquash(RemoveSlot(iq, i), Younger(completed, e.rob))
        /\ lsq' = LsqSquash(lsq, stillYounger)
        /\ storeBuffer' = SBSquash(storeBuffer, stillYounger)
        /\ haltDispatched' = FALSE
        /\ redirect' = [on |-> TRUE,
                        pc |-> IF Outcome(e) THEN Target(e.ins, e.pc)
                               ELSE (e.pc + InsnBytes) % PcMod]
        /\ stage' = "alu0"
        /\ UNCHANGED <<rom, fetchPc, fd, halted, prf, arf, checkpoints, dmem>>

-----------------------------------------------------------------------------
(* Stage 6 (C): two ALU lanes, one after the other; what the first one      *)
(* computes can make the instruction of the second one ready.               *)
ReadyAlus == {i \in IQSlot : Ready(iq[i]) /\ iq[i].ins.op \in AluOps}

AluIdle == /\ stage \in {"alu0", "alu1"}
           /\ ReadyAlus = {}
           /\ stage' = "rename"
           /\ UNCHANGED <<rom, frontend, halted, haltDispatched, rob, iq, prf, arf,
                          renaming, memory, predictor>>

ExecuteAlu == \E i \in FirstSlot(ReadyAlus) :
    LET e == iq[i]
        result == AluResult(e.ins, e.op1.value, e.op2.value)
    IN  /\ stage \in {"alu0", "alu1"}
        /\ prf' = [prf EXCEPT ![e.prd] = [ready |-> TRUE, value |-> result]]
        /\ iq' = Wakeup(RemoveSlot(iq, i), e.prd, result)
        /\ rob' = Complete(rob, e.rob)
        /\ stage' = IF stage = "alu0" THEN "alu1" ELSE "rename"
        /\ UNCHANGED <<rom, frontend, halted, haltDispatched, arf, renaming, memory,
                       predictor>>

-----------------------------------------------------------------------------
(* Stages 4 and 5: predict, rename and dispatch the decoded bundle.         *)
NotPredicted == [taken |-> FALSE, target |-> 0, hit |-> FALSE]

Lane(pc) == LET ins == Meaning!InstructionAt(rom, pc)
            IN  [pc |-> pc, ins |-> ins,
                 pred |-> IF IsControlFlow(ins) THEN Predict(predictor, pc)
                          ELSE NotPredicted]

Bundle == <<Lane(fd.pc), Lane((fd.pc + InsnBytes) % PcMod)>>

(* A lane redirects the fetch unit when it is predicted taken with a known  *)
(* target; lane 0 wins, and what follows it in the bundle is invalid.       *)
Redirects(l) == l.pred.taken /\ l.pred.hit

(* Faulty: lane 1 is kept behind a branch predicted taken in lane 0. *)
LanesKept == Bundle

Lanes == LET both == Bundle IN IF Redirects(both[1]) THEN <<both[1]>> ELSE both

PredictedRedirect(lanes) ==
    IF \E k \in DOMAIN lanes : Redirects(lanes[k])
    THEN [on |-> TRUE, pc |-> Last(lanes).pred.target]
    ELSE redirect

CanRename(lanes) ==
    Cardinality({k \in DOMAIN lanes : WritesRegister(lanes[k].ins)}) <= Len(freeList)

(* What the destination register of a lane was mapped to before.            *)
OldMapping(s, l) == s.rat[l.ins.rd]

(* One lane through the rename unit; s is the rename state and the bundles. *)
Rename(s, l) ==
    LET writes == WritesRegister(l.ins)
        p == Head(s.freeList)
    IN  [rat      |-> IF writes THEN [s.rat EXCEPT ![l.ins.rd] = p] ELSE s.rat,
         freeList |-> IF writes THEN Tail(s.freeList) ELSE s.freeList,
         prf      |-> IF writes THEN [s.prf EXCEPT ![p] = [ready |-> FALSE, value |-> 0]]
                      ELSE s.prf,
         out      |-> Append(s.out, [lane |-> l,
                                     rs1 |-> s.rat[l.ins.rs1], rs2 |-> s.rat[l.ins.rs2],
                                     prd |-> IF writes THEN p ELSE 0,
                                     old |-> IF writes THEN OldMapping(s, l) ELSE 0])]

Renamed(lanes) ==
    ForEach(Rename, [rat |-> rat, freeList |-> freeList, prf |-> prf, out |-> << >>], lanes)

Operand(isRegister, p, registers) ==
    IF isRegister
    THEN [reg |-> p, ready |-> registers[p].ready, value |-> registers[p].value]
    ELSE [reg |-> p, ready |-> TRUE, value |-> 0]

IssueEntry(renamed, b, r) ==
    LET ins == b.lane.ins
    IN  [valid |-> TRUE, pc |-> b.lane.pc, ins |-> ins, rob |-> r, prd |-> b.prd,
         op1 |-> Operand(ReadsRs1(ins), b.rs1, renamed.prf),
         op2 |-> Operand(ReadsRs2(ins), b.rs2, renamed.prf),
         predTaken |-> b.lane.pred.taken, predTarget |-> b.lane.pred.target]

(* Faulty: the checkpoint is the RAT before the branch's own bundle. *)
RobDataEarlyCheckpoint(renamed, b) ==
    [pc |-> b.lane.pc, ins |-> b.lane.ins, prd |-> b.prd, old |-> b.old,
     cp |-> IF b.lane.ins.op \in BranchOps THEN rat ELSE << >>]

(* The branch's checkpoint is the RAT after both lanes have been renamed.   *)
RobData(renamed, b) ==
    [pc |-> b.lane.pc, ins |-> b.lane.ins, prd |-> b.prd, old |-> b.old,
     cp |-> IF b.lane.ins.op \in BranchOps THEN renamed.rat ELSE << >>]

(* Faulty: a NOP waits for an execution unit that will never take it. *)
OnlyHaltCompletesAtDispatch(ins) == ins.op = "HALT"

(* HALT and NOP leave the issue queue at once and are complete.             *)
CompletesAtDispatch(ins) == ins.op \in {"HALT", "NOP"}

(* One lane through dispatch.  With the reorder buffer or the issue queue   *)
(* full nothing is dispatched; no lane follows a HALT.                      *)
Dispatch(renamed, s, b) ==
    LET ins == b.lane.ins
        r == s.rob.tail
        allocated == Allocate(s.rob, RobData(renamed, b))
    IN  IF s.halt THEN s
        ELSE IF Full(s.rob) \/ IQFull(s.iq) THEN [s EXCEPT !.taken = @ + 1]
        ELSE [rob |-> IF CompletesAtDispatch(ins) THEN Complete(allocated, r)
                      ELSE allocated,
              iq  |-> IF CompletesAtDispatch(ins) THEN s.iq
                      ELSE Insert(s.iq, IssueEntry(renamed, b, r)),
              lsq |-> CASE ins.op = "LW" -> LsqAllocate(s.lsq, "LOAD", r)
                        [] ins.op = "SW" -> LsqAllocate(s.lsq, "STORE", r)
                        [] OTHER -> s.lsq,
              buffer |-> IF ins.op = "SW" THEN SBAllocate(s.buffer, r) ELSE s.buffer,
              halt  |-> ins.op = "HALT",
              taken |-> s.taken + 1]

Dispatched(renamed) ==
    ForEach(LAMBDA s, b : Dispatch(renamed, s, b),
            [rob |-> rob, iq |-> iq, lsq |-> lsq, buffer |-> storeBuffer,
             halt |-> FALSE, taken |-> 0],
            renamed.out)

(* Nothing to rename: a bubble, a recovery in this cycle, or a HALT ahead.  *)
RenameIdle == /\ stage = "rename"
              /\ redirect.on \/ haltDispatched \/ ~fd.valid
              /\ stage' = "fetch"
              /\ UNCHANGED <<rom, frontend, halted, haltDispatched, rob, iq, prf, arf,
                             renaming, memory, predictor>>

(* Too few free registers: the bundle is not renamed, and the front end,    *)
(* which has no stall input, goes on.                                       *)
BundleNotRenamed == /\ stage = "rename"
                    /\ ~redirect.on /\ ~haltDispatched /\ fd.valid
                    /\ LET lanes == Lanes
                       IN  /\ ~CanRename(lanes)
                           /\ redirect' = PredictedRedirect(lanes)
                    /\ stage' = "fetch"
                    /\ UNCHANGED <<rom, fetchPc, fd, halted, haltDispatched, rob, iq, prf,
                                   arf, renaming, memory, predictor>>

RenameAndDispatch ==
    LET lanes == Lanes
        renamed == Renamed(lanes)
        dispatched == Dispatched(renamed)
    IN  /\ stage = "rename"
        /\ ~redirect.on /\ ~haltDispatched /\ fd.valid
        /\ CanRename(lanes)
        /\ redirect' = PredictedRedirect(lanes)
        /\ rat' = renamed.rat
        /\ freeList' = renamed.freeList
        /\ prf' = renamed.prf
        /\ rob' = dispatched.rob
        /\ iq' = dispatched.iq
        /\ lsq' = dispatched.lsq
        /\ storeBuffer' = dispatched.buffer
        /\ haltDispatched' = dispatched.halt
        /\ checkpoints' = Min({MaxCheckpoints, checkpoints + dispatched.taken})
        /\ stage' = "fetch"
        /\ UNCHANGED <<rom, fetchPc, fd, halted, arf, dmem, predictor>>

-----------------------------------------------------------------------------
(* Stages 1 to 3: the clock edge of the fetch PC and of the fetch/decode    *)
(* register.  Both ports of the instruction memory always answer.           *)
Fetch == /\ stage = "fetch"
         /\ fd' = IF redirect.on THEN Bubble ELSE [valid |-> TRUE, pc |-> fetchPc]
         /\ fetchPc' = IF redirect.on THEN redirect.pc
                       ELSE (fetchPc + FetchWidth * InsnBytes) % PcMod
         /\ redirect' = NoRedirect
         /\ stage' = "commit"
         /\ UNCHANGED <<rom, halted, haltDispatched, rob, iq, prf, arf, renaming, memory,
                        predictor>>

-----------------------------------------------------------------------------
Next == \/ CommitStage
        \/ MemoryIdle \/ ExecuteLoad \/ ExecuteStore
        \/ NoBranchReady \/ BranchAsPredicted \/ BranchMispredicted
        \/ AluIdle \/ ExecuteAlu
        \/ RenameIdle \/ BundleNotRenamed \/ RenameAndDispatch
        \/ Fetch

Spec == Init /\ [][Next]_vars

(* run() calls step() until the CPU has halted, and step() runs all its     *)
(* stages: the stage moves on as long as there is a next one.  Every action *)
(* of Next moves it, so this is weak fairness of Next, said of stage alone. *)
Stages == {"commit", "memory", "branch", "alu0", "alu1", "rename", "fetch"}

StageAdvances == /\ ~(halted /\ stage = "commit")
                 /\ stage' \in Stages \ {stage}

FairSpec == Spec /\ WF_stage(StageAdvances)
=============================================================================
