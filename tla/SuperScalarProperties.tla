------------------------ MODULE SuperScalarProperties ------------------------
(***************************************************************************)
(* What the superscalar CPU has to guarantee.  The invariants hold after   *)
(* every stage of a cycle, not only between cycles.                        *)
(***************************************************************************)
EXTENDS SuperScalarCPU

InFlight(r) == InWindow(rob, r)
Older(r, s) == Position(rob, r) < Position(rob, s)
Data(r)     == rob.slot[r].data

(* The k-th oldest instruction in flight. *)
Kth(k) == Data(SlotAt(rob, k))

Writers      == {r \in Index : InFlight(r) /\ WritesRegister(Data(r).ins)}
WritersOf(a) == {r \in Writers : Data(r).ins.rd = a}

-----------------------------------------------------------------------------
(* Every variable stays in its type: queue lengths within their capacity,   *)
(* register numbers within the files, words within the word size.           *)
TypeOK ==
    /\ stage \in Stages
    /\ fetchPc \in 0 .. PcMod - 1
    /\ fd \in [valid : BOOLEAN, pc : 0 .. PcMod - 1]
    /\ redirect \in [on : BOOLEAN, pc : 0 .. PcMod - 1]
    /\ halted \in BOOLEAN /\ haltDispatched \in BOOLEAN
    /\ DOMAIN rob.slot = Index
    /\ rob.head \in Index /\ rob.tail \in Index /\ rob.count \in 0 .. Capacity
    /\ DOMAIN iq = IQSlot
    /\ prf \in [Physical -> [ready : BOOLEAN, value : Word]]
    /\ arf \in [Register -> Word]
    /\ rat \in [Register -> Physical]
    /\ \A k \in DOMAIN freeList : freeList[k] \in Physical
    /\ Len(lsq) <= LSQCapacity /\ Len(storeBuffer) <= SBCapacity
    /\ dmem \in [0 .. DMemWords - 1 -> Word]
    /\ \A i \in DOMAIN predictor : predictor[i].counter \in 0 .. 3
    /\ checkpoints \in 0 .. MaxCheckpoints

(* Seen through its architectural registers, its data memory and the PC of  *)
(* the next instruction to retire, the CPU executes the program one         *)
(* instruction after the other: renaming, forwarding, speculation and two-  *)
(* wide retirement never show.                                              *)
SequentialMeaning == Meaning!Spec

(* Every instruction that still has to execute is in exactly one slot of    *)
(* the issue queue, and the issue queue holds nothing else: a squash, a     *)
(* completion and a retirement never leave an orphan on either side.        *)
IqMirrorsRob ==
    /\ \A i \in IQSlot : iq[i].valid =>
          /\ InFlight(iq[i].rob)
          /\ ~rob.slot[iq[i].rob].completed
          /\ Data(iq[i].rob).pc = iq[i].pc
    /\ \A r \in Index : InFlight(r) /\ ~rob.slot[r].completed =>
          \E i \in IQSlot : /\ iq[i].valid /\ iq[i].rob = r
                            /\ \A j \in IQSlot : iq[j].valid /\ iq[j].rob = r => j = i

(* An instruction waits only for a register that an older instruction in    *)
(* flight is still going to write: no wakeup is lost, also when a branch    *)
(* recovery removes instructions between a producer and its consumers.      *)
WaitersHaveProducers ==
    \A i \in IQSlot : iq[i].valid =>
        \A o \in {iq[i].op1, iq[i].op2} : ~o.ready =>
            \E r \in Index : /\ InFlight(r) /\ Older(r, iq[i].rob)
                                 /\ ~rob.slot[r].completed
                                 /\ WritesRegister(Data(r).ins)
                                 /\ Data(r).prd = o.reg

(* The RAT is what the instructions in flight make of it: an architectural  *)
(* register maps to the destination of its youngest writer in flight, and   *)
(* the writers of one register form a chain in which each replaces the      *)
(* destination of the one before.  Recovery has to restore exactly this.    *)
RatFollowsWindow ==
    \A a \in Register : \A r \in WritersOf(a) :
        LET later == {s \in WritersOf(a) : Older(r, s)}
        IN  /\ later = {} => rat[a] = Data(r).prd
            /\ \A s \in later : (\A t \in later : ~Older(t, s)) => Data(s).old = Data(r).prd

(* The register an architectural register had before anything in flight. *)
CommittedMapping(a) ==
    IF WritersOf(a) = {} THEN rat[a]
    ELSE Data(CHOOSE r \in WritersOf(a) : \A s \in WritersOf(a) : ~Older(s, r)).old

(* No physical register is lost and none is used twice: free, destination   *)
(* of an instruction in flight, or committed mapping, and only one of them. *)
Owners(p) ==
         {<<"free", k>> : k \in {n \in DOMAIN freeList : freeList[n] = p}}
    \cup {<<"destination", r>> : r \in {w \in Writers : Data(w).prd = p}}
    \cup {<<"committed", a>> : a \in {b \in Register : CommittedMapping(b) = p}}

RegistersPartitioned == \A p \in Physical : \E owner \in Owners(p) : Owners(p) = {owner}

(* With nothing in flight every register that is not mapped is free: the    *)
(* registers of squashed instructions have all come back.                   *)
NoRegisterLeaked == rob.count = 0 /\ ~halted => Len(freeList) = PRFCount - NumRegisters

(* Neighbours in the reorder buffer are neighbours in the program: no       *)
(* bundle, and no half of one, is lost between fetch and dispatch, and what *)
(* was fetched behind a taken branch never enters.                          *)
NoInstructionSkipped ==
    \A k \in 1 .. rob.count - 1 :
        LET d == Kth(k)
            next == (d.pc + InsnBytes) % PcMod
        IN  Kth(k + 1).pc \in
              IF d.ins.op \in BranchOps THEN {next, Target(d.ins, d.pc)} ELSE {next}

(* The load/store queue holds the memory instructions in flight and the     *)
(* store buffer the stores in flight, in program order and nothing else.    *)
(* At commit this is what makes pop_committed find the store that retires.  *)
Mirrors(queue, ops) ==
    /\ {queue[k].rob : k \in DOMAIN queue} = {r \in Index : InFlight(r) /\ Data(r).ins.op \in ops}
    /\ \A j, k \in DOMAIN queue : j < k => Older(queue[j].rob, queue[k].rob)

MemoryQueuesMirrorRob == Mirrors(lsq, {"LW", "SW"}) /\ Mirrors(storeBuffer, {"SW"})

(* A load that has executed has the value of the youngest older store to    *)
(* its address, whenever that store resolved its address, and no store in   *)
(* between is still unresolved.  (check_order_violation may nevertheless    *)
(* report such a load: it does not look at the store that forwarded.)       *)
LoadsSeeOlderStores ==
    \A i \in DOMAIN lsq : lsq[i].type = "LOAD" /\ lsq[i].executed =>
        LET j == BlockingStore(lsq, i)
        IN  j # 0 => lsq[j].addr = lsq[i].addr /\ lsq[j].data = lsq[i].data

(* A committed store never stays behind in the store buffer: memory has it  *)
(* before the next instruction can load.                                    *)
CommittedStoresReachMemory == \A k \in DOMAIN storeBuffer : ~storeBuffer[k].committed

(* Every instruction that enters the reorder buffer leaves it: the CPU      *)
(* halts, or instructions keep leaving the head.                            *)
KeepsRetiring == <>halted \/ []<><<rob'.head # rob.head>>_vars

(* A program that ends reaches its HALT. *)
Halts == <>halted
=============================================================================
