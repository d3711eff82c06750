------------------------ MODULE IntegerBackEnd_proofs ------------------------
(***************************************************************************)
(* Proofs about IntegerBackEnd for every number of registers, instruction  *)
(* set and capacity.  Every action is a composition of four steps on the   *)
(* state as a record: an instruction enters, an entry executes, a branch   *)
(* recovers, the head retires.  The invariant is shown to be kept by each  *)
(* step, together with what the step does in program order.                *)
(***************************************************************************)
EXTENDS IntegerBackEnd, Arithmetic_proofs, SequenceTheorems, FiniteSetTheorems, WellFoundedInduction,
        TLAPS

Cell == [value : Value, ready : BOOLEAN]

DataSet == [ins : Instruction, prd : Physical \cup {NoData}, old : Physical \cup {NoData},
            cp : [Reg -> Physical] \cup {NoData}]

RingSet == [slot  : [Index -> [valid : BOOLEAN, completed : BOOLEAN,
                               data : DataSet \cup {NoData}]],
            head  : Index, tail : Index, count : 0 .. Capacity]

OperandSet == [reg : Physical, ready : BOOLEAN, value : Value]

EntrySet == [valid : {TRUE}, rob : Index, ins : Instruction, prd : Physical \cup {NoData},
             op1 : OperandSet, op2 : OperandSet]

StateSet == [rat : [Reg -> Physical], free : Seq(Physical), prf : [Physical -> Cell],
             rob : RingSet, iq : [IQSlot -> EntrySet \cup {FreeSlot}]]

(* The reorder buffer is a ring whose valid slots are its window. *)
WindowOK(s) ==
    /\ InOrder(s.rob)
    /\ \A i \in Index : s.rob.slot[i].valid <=> InWindow(s.rob, i)
    /\ \A i \in InFlight(s) :
          /\ Data(s, i) \in DataSet
          /\ Data(s, i).ins.write  => Data(s, i).prd \in Physical /\ Data(s, i).old \in Physical

(* Up to age k the mapping of a is what its last writer allocated, or its   *)
(* committed home when nobody wrote a.                                      *)
Tracked(s, k, a) ==
    \/ /\ Mapping(s, k, a) = Home(s, a)
       /\ \A j \in Writers(s) : Data(s, j).ins.rd = a => Position(s.rob, j) >= k
    \/ \E j \in Writers(s) :
          /\ Data(s, j).ins.rd = a /\ Position(s.rob, j) < k
          /\ Mapping(s, k, a) = Data(s, j).prd
          /\ \A l \in Writers(s) : Data(s, l).ins.rd = a /\ Position(s.rob, l) < k
                                     => Position(s.rob, l) <= Position(s.rob, j)

AllTracked(s) == \A k \in 0 .. s.rob.count, a \in Reg : Tracked(s, k, a)

(* A branch carries the mapping of after it. *)
Checkpoints(s) ==
    \A i \in InFlight(s) :
       Data(s, i).ins.branch => Data(s, i).cp = [a \in Reg |-> Mapping(s, Position(s.rob, i) + 1, a)]

(* What is committed is there, and a destination once it is written. *)
ReadyOK(s) == /\ \A a \in Reg : s.prf[Home(s, a)].ready
              /\ \A i \in Writers(s) : s.prf[Data(s, i).prd].ready = s.rob.slot[i].completed

(* What has executed had its operands, and its result is that of the values *)
(* they still have.                                                         *)
SourcesReady(s, i) ==
    /\ Data(s, i).ins.use1 => s.prf[Before(s, i, Data(s, i).ins.rs1)].ready
    /\ Data(s, i).ins.use2 => s.prf[Before(s, i, Data(s, i).ins.rs2)].ready

Executed(s, i) ==
    /\ SourcesReady(s, i)
    /\ Data(s, i).ins.write =>
          s.prf[Data(s, i).prd].value = Alu(Data(s, i).ins, FirstSource(s, i), SecondSource(s, i))

ResultsOK(s) == \A i \in InFlight(s) : s.rob.slot[i].completed => Executed(s, i)

OperandOK(s, i, op, used, a) == IF used THEN Current(s, i, op, a)
                                ELSE op.ready /\ op.value = 0

EntryOK(s, e) ==
    /\ e.rob \in InFlight(s) /\ ~s.rob.slot[e.rob].completed
    /\ e.ins = Data(s, e.rob).ins /\ e.prd = Data(s, e.rob).prd
    /\ OperandOK(s, e.rob, e.op1, e.ins.use1, e.ins.rs1)
    /\ OperandOK(s, e.rob, e.op2, e.ins.use2, e.ins.rs2)

QueueOK(s) ==
    /\ \A q \in IQSlot : s.iq[q].valid => EntryOK(s, s.iq[q])
    /\ \A q, p \in IQSlot : s.iq[q].valid /\ s.iq[p].valid /\ s.iq[q].rob = s.iq[p].rob => q = p

IInv(s) == /\ s \in StateSet
           /\ WindowOK(s)
           /\ AllTracked(s)
           /\ Checkpoints(s)
           /\ EveryRegisterOwned(s)
           /\ OneOwner(s)
           /\ ReadyOK(s)
           /\ ResultsOK(s)
           /\ QueueOK(s)

-----------------------------------------------------------------------------
(* Least elements. *)

LEMMA LeastNat ==
    ASSUME NEW S, S \subseteq Nat, S # {}
    PROVE  \E x \in S : \A y \in S : x <= y
<1>1. PICK x \in S : \A y \in S : ~ (<<y, x>> \in OpToRel(<, Nat))
  BY NatLessThanWellFounded, WFMin, Zenon
<1>2. \A y \in S : ~ (y < x)
  BY <1>1 DEF OpToRel
<1> QED
  BY <1>2

LEMMA OldestExists ==
    ASSUME NEW r, r.head \in Index, NEW S, S \subseteq Index, S # {}
    PROVE  /\ Oldest(r, S) \in S
           /\ \A j \in S : Position(r, Oldest(r, S)) <= Position(r, j)
<1> DEFINE T == {Position(r, i) : i \in S}
<1>a. \A i \in S : Position(r, i) \in Nat
  BY PositionValue DEF Index
<1>1. T \subseteq Nat /\ T # {}
  BY <1>a
<1>2. PICK x \in T : \A y \in T : x <= y
  BY <1>1, LeastNat
<1>3. PICK i \in S : x = Position(r, i)
  BY <1>2
<1>4. \A j \in S : Position(r, i) <= Position(r, j)
  BY <1>2, <1>3
<1> QED
  BY <1>4, Zenon DEF Oldest

LEMMA FreeSlotExists ==
    ASSUME NEW S, S \subseteq IQSlot, S # {}
    PROVE  Min(S) \in S
<1>1. S \subseteq Nat
  BY QueueAssumption DEF IQSlot
<1>2. PICK x \in S : \A y \in S : x <= y
  BY <1>1, LeastNat
<1> QED
  BY <1>2, Zenon DEF Min

-----------------------------------------------------------------------------
(* What a mapping is. *)

LEMMA MappingNone ==
    ASSUME NEW s, NEW k, NEW a, LaterWriters(s, k, a) = {}
    PROVE  Mapping(s, k, a) = s.rat[a]
BY DEF Mapping

LEMMA MappingFirst ==
    ASSUME NEW s, s.rob.head \in Index, NEW k, NEW a, NEW i \in LaterWriters(s, k, a),
           \A j \in LaterWriters(s, k, a) : Position(s.rob, i) <= Position(s.rob, j)
    PROVE  Mapping(s, k, a) = Data(s, i).old
<1> DEFINE L == LaterWriters(s, k, a)
           o == Oldest(s.rob, L)
<1>1. L \subseteq Index /\ L # {} /\ i \in Index
  BY DEF LaterWriters, Writers, InFlight
<1>2. o \in L /\ \A j \in L : Position(s.rob, o) <= Position(s.rob, j)
  BY <1>1, OldestExists
<1>3. Position(s.rob, o) = Position(s.rob, i) /\ o \in Index
  BY <1>1, <1>2, PositionValue DEF Index
<1>4. o = i
  BY <1>1, <1>3, PositionInjective
<1> QED
  BY <1>1, <1>4 DEF Mapping

LEMMA MappingCases ==
    ASSUME NEW s, s.rob.head \in Index, NEW k, NEW a
    PROVE  \/ LaterWriters(s, k, a) = {} /\ Mapping(s, k, a) = s.rat[a]
           \/ \E i \in LaterWriters(s, k, a) :
                 /\ \A j \in LaterWriters(s, k, a) : Position(s.rob, i) <= Position(s.rob, j)
                 /\ Mapping(s, k, a) = Data(s, i).old
<1> DEFINE L == LaterWriters(s, k, a)
<1>1. CASE L = {}
  BY <1>1, MappingNone
<1>2. CASE L # {}
  <2>1. L \subseteq Index
    BY DEF LaterWriters, Writers, InFlight
  <2>2. /\ Oldest(s.rob, L) \in L
        /\ \A j \in L : Position(s.rob, Oldest(s.rob, L)) <= Position(s.rob, j)
    BY <1>2, <2>1, OldestExists
  <2> QED
    BY <2>2, MappingFirst
<1> QED
  BY <1>1, <1>2

(* Two windows with the same later writers map alike. *)
LEMMA MappingAlike ==
    ASSUME NEW s, NEW t, s.rob.head \in Index, t.rob.head \in Index, NEW d \in Nat, NEW k \in Nat,
           NEW a, t.rat[a] = s.rat[a],
           LaterWriters(t, k, a) = LaterWriters(s, k + d, a),
           \A i \in LaterWriters(t, k, a) : /\ Position(s.rob, i) = Position(t.rob, i) + d
                                            /\ Data(s, i).old = Data(t, i).old
    PROVE  Mapping(t, k, a) = Mapping(s, k + d, a)
<1> DEFINE L == LaterWriters(t, k, a)
<1>1. CASE L = {}
  BY <1>1, MappingNone
<1>2. CASE L # {}
  <2>1. PICK i \in L : /\ \A j \in L : Position(t.rob, i) <= Position(t.rob, j)
                       /\ Mapping(t, k, a) = Data(t, i).old
    BY <1>2, MappingCases, Zenon
  <2>2. \A j \in L : Position(t.rob, j) \in Nat
    BY PositionValue DEF LaterWriters, Writers, InFlight, Index
  <2>3. \A j \in LaterWriters(s, k + d, a) : Position(s.rob, i) <= Position(s.rob, j)
    BY <2>1, <2>2
  <2>4. Mapping(s, k + d, a) = Data(s, i).old
    BY <2>1, <2>3, MappingFirst
  <2> QED
    BY <2>1, <2>4
<1> QED
  BY <1>1, <1>2

(* From one age to the next the mapping of a changes where a is written. *)
LEMMA MappingStep ==
    ASSUME NEW s, WindowOK(s), NEW i \in InFlight(s), NEW a
    PROVE  Mapping(s, Position(s.rob, i), a) =
              IF i \in Writers(s) /\ Data(s, i).ins.rd = a THEN Data(s, i).old
              ELSE Mapping(s, Position(s.rob, i) + 1, a)
<1> DEFINE n == Position(s.rob, i)
<1>1. s.rob.head \in Index /\ i \in Index /\ n \in Nat
  BY PositionValue DEF WindowOK, InOrder, InFlight, Index
<1>2. \A j \in InFlight(s) : Position(s.rob, j) \in Nat /\ (Position(s.rob, j) = n => j = i)
  BY <1>1, PositionValue, PositionInjective DEF InFlight, Index
<1> HIDE DEF n
<1>3. CASE i \in Writers(s) /\ Data(s, i).ins.rd = a
  <2>1. i \in LaterWriters(s, n, a)
    BY <1>1, <1>3 DEF LaterWriters, n
  <2>2. \A j \in LaterWriters(s, n, a) : Position(s.rob, i) <= Position(s.rob, j)
    BY <1>1, <1>2 DEF LaterWriters, n
  <2> QED
    BY <1>1, <1>3, <2>1, <2>2, MappingFirst DEF n
<1>4. CASE ~(i \in Writers(s) /\ Data(s, i).ins.rd = a)
  <2>1. \A j \in Writers(s) : Data(s, j).ins.rd = a =>
            (Position(s.rob, j) >= n <=> Position(s.rob, j) >= n + 1)
    BY <1>1, <1>2, <1>4 DEF Writers
  <2>2. LaterWriters(s, n, a) = LaterWriters(s, n + 1, a)
    BY <2>1 DEF LaterWriters
  <2> QED
    BY <1>4, <2>2 DEF Mapping, n
<1> QED
  BY <1>3, <1>4

-----------------------------------------------------------------------------
(* An instruction enters: renamed and dispatched. *)
Entered(s, i) == LET renamed == Rename(s, i)
                 IN  Dispatch(renamed, Bundle(s, i), IF i.branch THEN renamed.rat ELSE NoData)

LEMMA RenameFields ==
    ASSUME NEW s \in StateSet, NEW i \in Instruction, CanRename(s, i)
    PROVE  LET t == Rename(s, i)
               p == Head(s.free)
           IN  /\ t \in StateSet /\ t.rob = s.rob /\ t.iq = s.iq
               /\ i.write => /\ p \in Physical /\ s.free # << >> /\ p = s.free[1]
                             /\ t.rat = [s.rat EXCEPT ![i.rd] = p]
                             /\ t.free = Tail(s.free)
                             /\ t.prf = [s.prf EXCEPT ![p] = [value |-> 0, ready |-> FALSE]]
               /\ ~i.write => t = s
<1> DEFINE t == Rename(s, i)
           p == Head(s.free)
<1>1. CASE i.write
  <2>1. s.free \in Seq(Physical) /\ s.free # << >>
    BY <1>1 DEF CanRename, StateSet
  <2>2. p \in Physical /\ p = s.free[1] /\ Tail(s.free) \in Seq(Physical)
    BY <2>1, HeadTailProperties
  <2>3. s.rat \in [Reg -> Physical] /\ s.prf \in [Physical -> Cell] /\ i.rd \in Reg
    BY InstructionAssumption DEF StateSet
  <2>4. [value |-> 0, ready |-> FALSE] \in Cell
    BY InstructionAssumption DEF Cell
  <2> HIDE DEF p
  <2>5. /\ [s.rat EXCEPT ![i.rd] = p] \in [Reg -> Physical]
        /\ [s.prf EXCEPT ![p] = [value |-> 0, ready |-> FALSE]] \in [Physical -> Cell]
    BY <2>2, <2>3, <2>4
  <2>6. t = [s EXCEPT !.rat  = [s.rat EXCEPT ![i.rd] = p],
                      !.free = Tail(s.free),
                      !.prf  = [s.prf EXCEPT ![p] = [value |-> 0, ready |-> FALSE]]]
    BY <1>1 DEF Rename, p
  <2>7. /\ t.rat = [s.rat EXCEPT ![i.rd] = p] /\ t.free = Tail(s.free)
        /\ t.prf = [s.prf EXCEPT ![p] = [value |-> 0, ready |-> FALSE]]
        /\ t.rob = s.rob /\ t.iq = s.iq /\ t \in StateSet
    BY <2>2, <2>5, <2>6 DEF StateSet
  <2> QED
    BY <1>1, <2>1, <2>2, <2>7 DEF p
<1>2. CASE ~i.write
  BY <1>2 DEF Rename
<1> QED
  BY <1>1, <1>2

(* The fields of the new state, and the window one instruction longer. *)
EnteredData(s, i) == [ins |-> i, prd |-> Bundle(s, i).prd, old |-> Bundle(s, i).old,
                      cp  |-> IF i.branch THEN Rename(s, i).rat ELSE NoData]

LEMMA BundleTypes ==
    ASSUME NEW s \in StateSet, NEW i \in Instruction, CanRename(s, i)
    PROVE  /\ EnteredData(s, i) \in DataSet
           /\ i.write => EnteredData(s, i).prd \in Physical /\ EnteredData(s, i).old \in Physical
           /\ IssueEntry(Rename(s, i), Bundle(s, i)) \in EntrySet
<1> DEFINE r == Rename(s, i)
           b == Bundle(s, i)
<1>1. r \in StateSet /\ (i.write => Head(s.free) \in Physical)
  BY RenameFields
<1>2. /\ b.ins = i /\ b.src1 \in Physical /\ b.src2 \in Physical
      /\ b.prd \in Physical \cup {NoData} /\ b.old \in Physical \cup {NoData}
      /\ i.write => b.prd \in Physical /\ b.old \in Physical
  <2>1. /\ s.rat[i.rs1] \in Physical /\ s.rat[i.rs2] \in Physical /\ s.rat[i.rd] \in Physical
    BY InstructionAssumption DEF StateSet
  <2>2. i.write \in BOOLEAN
    BY InstructionAssumption
  <2> QED
    BY <1>1, <2>1, <2>2 DEF Bundle
<1>3. r.rat \in [Reg -> Physical] /\ r.prf \in [Physical -> Cell] /\ r.rob \in RingSet
  BY <1>1 DEF StateSet
<1> HIDE DEF r, b
<1>4. EnteredData(s, i) \in DataSet
  BY <1>2, <1>3 DEF EnteredData, DataSet, r, b
<1>5. \A used \in BOOLEAN, p \in Physical : Operand(r.prf, used, p) \in OperandSet
  BY <1>3, InstructionAssumption DEF Operand, OperandSet, Cell
<1>6. IssueEntry(r, b) \in EntrySet
  <2>1. i.use1 \in BOOLEAN /\ i.use2 \in BOOLEAN /\ r.rob.tail \in Index
    BY <1>3, InstructionAssumption DEF RingSet
  <2> QED
    BY <1>2, <1>5, <2>1 DEF IssueEntry, EntrySet
<1> QED
  BY <1>2, <1>4, <1>6 DEF EnteredData, r, b

LEMMA EnterFacts ==
    ASSUME NEW s \in StateSet, WindowOK(s), NEW i \in Instruction,
           CanRename(s, i), HasRoom(Rename(s, i))
    PROVE  LET t == Entered(s, i)
               r == Rename(s, i)
               n == s.rob.tail
           IN  /\ t \in StateSet /\ WindowOK(t)
               /\ t.rat = r.rat /\ t.free = r.free /\ t.prf = r.prf
               /\ n \in Index /\ n \notin InFlight(s) /\ InFlight(t) = InFlight(s) \cup {n}
               /\ t.rob.count = s.rob.count + 1 /\ Position(t.rob, n) = s.rob.count
               /\ \A j \in Index : Position(t.rob, j) = Position(s.rob, j)
               /\ \A j \in InFlight(s) : t.rob.slot[j] = s.rob.slot[j]
               /\ t.rob.slot[n] = [valid |-> TRUE, completed |-> FALSE,
                                   data |-> EnteredData(s, i)]
               /\ \E q \in IQSlot : /\ ~s.iq[q].valid
                                    /\ t.iq = [s.iq EXCEPT ![q] = IssueEntry(r, Bundle(s, i))]
<1> DEFINE t == Entered(s, i)
           r == Rename(s, i)
           n == s.rob.tail
           d == EnteredData(s, i)
           e == IssueEntry(r, Bundle(s, i))
           free == {q \in IQSlot : ~s.iq[q].valid}
<1>1. r \in StateSet /\ r.rob = s.rob /\ r.iq = s.iq
  BY RenameFields
<1>2. d \in DataSet /\ e \in EntrySet
  BY BundleTypes
<1>3. InOrder(s.rob) /\ ~Full(s.rob) /\ ~IQFull(s.iq) /\ s.rob \in RingSet
      /\ s.iq \in [IQSlot -> EntrySet \cup {FreeSlot}]
  BY <1>1 DEF WindowOK, HasRoom, StateSet
<1> HIDE DEF d, e, r
<1>4. PICK q \in IQSlot : q = Min(free) /\ ~s.iq[q].valid
  <2>1. free # {} /\ free \subseteq IQSlot
    BY <1>3 DEF IQFull
  <2> QED
    BY <2>1, FreeSlotExists
<1>5. t = [r EXCEPT !.rob = Allocate(s.rob, d), !.iq = [s.iq EXCEPT ![q] = e]]
  BY <1>1, <1>4 DEF Entered, Dispatch, Insert, Bundle, EnteredData, d, e, r
<1>6. Allocate(s.rob, d) \in RingSet
  <2>1. s.rob.slot \in [Index -> [valid : BOOLEAN, completed : BOOLEAN,
                                  data : DataSet \cup {NoData}]]
        /\ s.rob.head \in Index /\ s.rob.tail \in Index /\ s.rob.count \in 0 .. Capacity
    BY <1>3 DEF RingSet
  <2>2. NextIndex(s.rob.tail) \in Index
    BY <2>1, NextIndexValue
  <2>3. s.rob.count + 1 \in 0 .. Capacity
    BY <1>3, <2>1, CapacityAssumption DEF Full
  <2>4. [valid |-> TRUE, completed |-> FALSE, data |-> d] \in
           [valid : BOOLEAN, completed : BOOLEAN, data : DataSet \cup {NoData}]
    BY <1>2
  <2> QED
    BY <2>1, <2>2, <2>3, <2>4 DEF Allocate, RingSet
<1>7. [s.iq EXCEPT ![q] = e] \in [IQSlot -> EntrySet \cup {FreeSlot}]
  BY <1>2, <1>3
<1>8. /\ t \in StateSet /\ t.rat = r.rat /\ t.free = r.free /\ t.prf = r.prf
      /\ t.rob = Allocate(s.rob, d) /\ t.iq = [s.iq EXCEPT ![q] = e]
  BY <1>1, <1>5, <1>6, <1>7 DEF StateSet
<1> HIDE DEF t
<1>9. /\ ~InWindow(s.rob, n) /\ Position(s.rob, n) = s.rob.count
      /\ InOrder(t.rob) /\ t.rob.count = s.rob.count + 1
      /\ \A j \in Index : /\ Position(t.rob, j) = Position(s.rob, j)
                          /\ InWindow(t.rob, j) <=> InWindow(s.rob, j) \/ j = n
                          /\ j # n => t.rob.slot[j] = s.rob.slot[j]
      /\ t.rob.slot[n] = [valid |-> TRUE, completed |-> FALSE, data |-> d]
  BY <1>3, <1>8, AllocateAges
<1>a. n \in Index
  BY <1>3 DEF RingSet
<1>b. n \notin InFlight(s) /\ InFlight(t) = InFlight(s) \cup {n}
  BY <1>9, <1>a DEF InFlight
<1>c. \A j \in InFlight(s) : t.rob.slot[j] = s.rob.slot[j]
  BY <1>9, <1>b DEF InFlight
<1>d. WindowOK(t)
  <2>1. \A j \in Index : t.rob.slot[j].valid <=> InWindow(t.rob, j)
    BY <1>9 DEF WindowOK
  <2>2. \A j \in InFlight(s) :
           /\ Data(t, j) \in DataSet
           /\ Data(t, j).ins.write  => Data(t, j).prd \in Physical /\ Data(t, j).old \in Physical
    BY <1>c DEF WindowOK, Data
  <2>3. Data(t, n) = d
    BY <1>9 DEF Data
  <2>4. d.ins.write => d.prd \in Physical /\ d.old \in Physical
    <3>1. d.ins = i
      BY DEF d, EnteredData
    <3> QED
      BY <3>1, BundleTypes DEF d
  <2> QED
    BY <1>2, <1>9, <1>b, <2>1, <2>2, <2>3, <2>4 DEF WindowOK
<1> QED
  BY <1>4, <1>8, <1>9, <1>a, <1>b, <1>c, <1>d DEF t, d, e, r

LEMMA PositionsBelow ==
    ASSUME NEW s, InOrder(s.rob), NEW i \in InFlight(s)
    PROVE  /\ i \in Index /\ Position(s.rob, i) \in Nat
           /\ Position(s.rob, i) < s.rob.count /\ Position(s.rob, i) \in 0 .. s.rob.count
           /\ Position(s.rob, i) + 1 \in 0 .. s.rob.count
           /\ s.rob.count \in Nat
<1> DEFINE n == Position(s.rob, i)
           c == s.rob.count
<1>1. i \in Index /\ n < c
  BY DEF InFlight, InWindow
<1>2. n \in Nat /\ c \in 0 .. Capacity
  <2>1. s.rob.head \in Index /\ c \in 0 .. Capacity
    BY DEF InOrder
  <2>2. n \in Index
    BY <1>1, <2>1, PositionValue
  <2> QED
    BY <2>1, <2>2 DEF Index
<1> HIDE DEF n, c
<1>3. c \in Nat /\ n \in 0 .. c /\ n + 1 \in 0 .. c
  BY <1>1, <1>2
<1> QED
  BY <1>1, <1>2, <1>3 DEF n, c

LEMMA MappingAtEnd ==
    ASSUME NEW s, InOrder(s.rob), NEW a
    PROVE  Mapping(s, s.rob.count, a) = s.rat[a]
<1>1. LaterWriters(s, s.rob.count, a) = {}
  BY PositionsBelow DEF LaterWriters, Writers
<1> QED
  BY <1>1, MappingNone

LEMMA EnterMapping ==
    ASSUME NEW s \in StateSet, WindowOK(s), NEW i \in Instruction,
           CanRename(s, i), HasRoom(Rename(s, i)), NEW k \in 0 .. s.rob.count, NEW a \in Reg
    PROVE  Mapping(Entered(s, i), k, a) = Mapping(s, k, a)
<1> DEFINE t == Entered(s, i)
           n == s.rob.tail
           L == LaterWriters(s, k, a)
<1>1. /\ WindowOK(t) /\ InOrder(s.rob) /\ s.rob.head \in Index /\ t.rob.head \in Index
      /\ n \in Index /\ n \notin InFlight(s) /\ InFlight(t) = InFlight(s) \cup {n}
      /\ Position(t.rob, n) = s.rob.count
      /\ \A j \in Index : Position(t.rob, j) = Position(s.rob, j)
      /\ \A j \in InFlight(s) : Data(t, j) = Data(s, j)
      /\ Data(t, n) = EnteredData(s, i)
      /\ t.rat = Rename(s, i).rat
  <2>1. /\ WindowOK(t) /\ n \in Index /\ n \notin InFlight(s) /\ InFlight(t) = InFlight(s) \cup {n}
        /\ Position(t.rob, n) = s.rob.count /\ t.rat = Rename(s, i).rat
        /\ \A j \in Index : Position(t.rob, j) = Position(s.rob, j)
        /\ \A j \in InFlight(s) : t.rob.slot[j] = s.rob.slot[j]
        /\ t.rob.slot[n] = [valid |-> TRUE, completed |-> FALSE, data |-> EnteredData(s, i)]
    BY EnterFacts
  <2> HIDE DEF t, n
  <2>2. /\ InOrder(s.rob) /\ s.rob.head \in Index /\ t.rob.head \in Index
    BY <2>1 DEF WindowOK, InOrder
  <2>3. \A j \in InFlight(s) : Data(t, j) = Data(s, j)
    BY <2>1 DEF Data
  <2>4. Data(t, n) = EnteredData(s, i)
    BY <2>1 DEF Data
  <2> QED
    BY <2>1, <2>2, <2>3, <2>4
<1>2. /\ EnteredData(s, i).ins = i
      /\ i.write => EnteredData(s, i).old = s.rat[i.rd]
  BY DEF EnteredData, Bundle
<1>3. k \in Nat /\ L \subseteq InFlight(s)
  BY PositionsBelow, <1>1 DEF LaterWriters, Writers, InOrder
<1>4. \A j \in InFlight(s) : j \in Index /\ Position(s.rob, j) < s.rob.count
                             /\ Position(s.rob, j) \in Nat
  BY <1>1, PositionsBelow
<1>5. s.rob.count \in Nat
  BY <1>1 DEF InOrder
<1> HIDE DEF t, n
<1>6. CASE i.write /\ i.rd = a
  <2>1. LaterWriters(t, k, a) = L \cup {n}
    BY <1>1, <1>2, <1>3, <1>4, <1>5, <1>6 DEF LaterWriters, Writers
  <2>2. CASE L = {}
    <3>1. Mapping(t, k, a) = Data(t, n).old
      BY <1>1, <1>5, <2>1, <2>2, MappingFirst
    <3> QED
      BY <1>1, <1>2, <1>6, <2>2, <3>1, MappingNone DEF t
  <2>3. CASE L # {}
    <3>1. PICK f \in L : /\ \A j \in L : Position(s.rob, f) <= Position(s.rob, j)
                         /\ Mapping(s, k, a) = Data(s, f).old
      BY <1>1, <2>3, MappingCases, Zenon
    <3>2. f \in InFlight(s) /\ Position(s.rob, f) <= s.rob.count
      BY <1>3, <1>4, <1>5
    <3>3. \A j \in LaterWriters(t, k, a) : Position(t.rob, f) <= Position(t.rob, j)
      BY <1>1, <1>3, <1>4, <2>1, <3>1, <3>2
    <3>4. Mapping(t, k, a) = Data(t, f).old
      BY <1>1, <2>1, <3>1, <3>3, MappingFirst
    <3> QED
      BY <1>1, <3>1, <3>2, <3>4 DEF t
  <2> QED
    BY <2>2, <2>3
<1>7. CASE ~(i.write /\ i.rd = a)
  <2>1. LaterWriters(t, k, a) = LaterWriters(s, k + 0, a)
    BY <1>1, <1>2, <1>3, <1>4, <1>5, <1>7 DEF LaterWriters, Writers
  <2>2. t.rat[a] = s.rat[a]
    <3>1. s.rat \in [Reg -> Physical] /\ i.rd \in Reg
      BY InstructionAssumption DEF StateSet
    <3>2. i.write \in BOOLEAN
      BY InstructionAssumption
    <3>3. CASE i.write
      <4>1. Rename(s, i).rat = [s.rat EXCEPT ![i.rd] = Head(s.free)]
        BY <3>3, RenameFields
      <4> QED
        BY <1>1, <1>7, <3>1, <3>3, <4>1
    <3>4. CASE ~i.write
      BY <1>1, <3>4, RenameFields
    <3> QED
      BY <3>3, <3>4
  <2>3. \A j \in LaterWriters(t, k, a) : /\ Position(s.rob, j) = Position(t.rob, j) + 0
                                         /\ Data(s, j).old = Data(t, j).old
    BY <1>1, <1>3, <1>4, <2>1
  <2>4. Mapping(t, k, a) = Mapping(s, k + 0, a)
    BY <1>1, <1>3, <2>1, <2>2, <2>3, MappingAlike
  <2> QED
    BY <1>3, <2>4 DEF t
<1> QED
  BY <1>6, <1>7

-----------------------------------------------------------------------------
(* A register some instruction may still read is not free and is not the    *)
(* destination of a younger instruction. *)
LEMMA MappingLive ==
    ASSUME NEW s \in StateSet, WindowOK(s), AllTracked(s), OneOwner(s),
           NEW k \in 0 .. s.rob.count, NEW a \in Reg
    PROVE  /\ \A n \in DOMAIN s.free : s.free[n] # Mapping(s, k, a)
           /\ \A j \in Writers(s) : Position(s.rob, j) >= k => Data(s, j).prd # Mapping(s, k, a)
<1>1. Tracked(s, k, a)
  BY DEF AllTracked
<1>2. \A j \in Writers(s) : Position(s.rob, j) \in Nat
  BY PositionsBelow DEF Writers, WindowOK
<1>3. k \in Nat
  BY DEF WindowOK, InOrder
<1>4. CASE Mapping(s, k, a) = Home(s, a)
  BY <1>4 DEF OneOwner
<1>5. CASE \E j \in Writers(s) : Position(s.rob, j) < k /\ Mapping(s, k, a) = Data(s, j).prd
  <2>1. PICK j \in Writers(s) : Position(s.rob, j) < k /\ Mapping(s, k, a) = Data(s, j).prd
    BY <1>5
  <2>2. \A n \in DOMAIN s.free : s.free[n] # Mapping(s, k, a)
    BY <2>1 DEF OneOwner
  <2>3. ASSUME NEW l \in Writers(s), Position(s.rob, l) >= k, Data(s, l).prd = Mapping(s, k, a)
        PROVE  FALSE
    <3>1. l = j
      BY <2>1, <2>3 DEF OneOwner
    <3> QED
      BY <1>2, <1>3, <2>1, <2>3, <3>1
  <2> QED
    BY <2>2, <2>3
<1> QED
  BY <1>1, <1>4, <1>5 DEF Tracked

LEMMA MappingType ==
    ASSUME NEW s \in StateSet, WindowOK(s), NEW k, NEW a \in Reg
    PROVE  Mapping(s, k, a) \in Physical
<1>1. s.rob.head \in Index /\ s.rat[a] \in Physical
  BY DEF WindowOK, InOrder, StateSet
<1>2. \A i \in LaterWriters(s, k, a) : Data(s, i).old \in Physical
  BY DEF LaterWriters, Writers, WindowOK
<1> QED
  BY <1>1, <1>2, MappingCases

(* An instruction whose sources and result are left alone is as before. *)
LEMMA SameSources ==
    ASSUME NEW s, NEW t, NEW i, NEW j, Data(t, j) = Data(s, i),
           \A a \in Reg : /\ Before(t, j, a) = Before(s, i, a)
                          /\ t.prf[Before(s, i, a)] = s.prf[Before(s, i, a)],
           Data(s, i).ins \in Instruction
    PROVE  /\ FirstSource(t, j) = FirstSource(s, i) /\ SecondSource(t, j) = SecondSource(s, i)
           /\ SourcesReady(t, j) <=> SourcesReady(s, i)
           /\ t.rob.slot[j].completed = s.rob.slot[i].completed => Item(t, j) = Item(s, i)
<1> DEFINE d == Data(s, i).ins
<1>1. d.rs1 \in Reg /\ d.rs2 \in Reg
  BY InstructionAssumption
<1> HIDE DEF d
<1>2. FirstSource(t, j) = FirstSource(s, i) /\ SecondSource(t, j) = SecondSource(s, i)
  BY <1>1 DEF FirstSource, SecondSource, SourceValue, d
<1>3. SourcesReady(t, j) <=> SourcesReady(s, i)
  BY <1>1 DEF SourcesReady, d
<1> QED
  BY <1>2, <1>3 DEF Item

LEMMA EnterKeeps ==
    ASSUME NEW s, IInv(s), NEW i \in Instruction, CanRename(s, i), HasRoom(Rename(s, i))
    PROVE  LET t == Entered(s, i)
               n == s.rob.tail
           IN  /\ IInv(t)
               /\ t.rob.count = s.rob.count + 1 /\ n \in Index /\ Position(t.rob, n) = s.rob.count
               /\ Item(t, n) = [ins |-> i, decided |-> {}]
               /\ \A j \in InFlight(s) : /\ Item(t, j) = Item(s, j)
                                         /\ Position(t.rob, j) = Position(s.rob, j)
               /\ RegsOf(t) = RegsOf(s)
<1> DEFINE t == Entered(s, i)
           r == Rename(s, i)
           n == s.rob.tail
           c == s.rob.count
           d == EnteredData(s, i)
           e == IssueEntry(r, Bundle(s, i))
           p == Head(s.free)
<1>1. /\ s \in StateSet /\ WindowOK(s) /\ AllTracked(s) /\ Checkpoints(s) /\ EveryRegisterOwned(s)
      /\ OneOwner(s) /\ ReadyOK(s) /\ ResultsOK(s) /\ QueueOK(s)
  BY DEF IInv
<1>2. /\ t \in StateSet /\ WindowOK(t) /\ t.rat = r.rat /\ t.free = r.free /\ t.prf = r.prf
      /\ n \in Index /\ n \notin InFlight(s) /\ InFlight(t) = InFlight(s) \cup {n}
      /\ t.rob.count = c + 1 /\ Position(t.rob, n) = c
      /\ \A j \in Index : Position(t.rob, j) = Position(s.rob, j)
      /\ \A j \in InFlight(s) : t.rob.slot[j] = s.rob.slot[j]
      /\ t.rob.slot[n] = [valid |-> TRUE, completed |-> FALSE, data |-> d]
  BY <1>1, EnterFacts
<1>3. \E q \in IQSlot : ~s.iq[q].valid /\ t.iq = [s.iq EXCEPT ![q] = e]
  BY <1>1, EnterFacts
<1>4. /\ r \in StateSet
      /\ i.write => /\ p \in Physical /\ s.free # << >> /\ p = s.free[1]
                    /\ r.rat = [s.rat EXCEPT ![i.rd] = p]
                    /\ r.free = Tail(s.free)
                    /\ r.prf = [s.prf EXCEPT ![p] = [value |-> 0, ready |-> FALSE]]
      /\ ~i.write => r = s
  BY <1>1, RenameFields
<1>5. /\ d.ins = i /\ d.cp = (IF i.branch THEN r.rat ELSE NoData)
      /\ i.write => d.prd = p /\ d.old = s.rat[i.rd]
  BY DEF EnteredData, Bundle
<1>6. i.write \in BOOLEAN /\ i.rd \in Reg /\ i.rs1 \in Reg /\ i.rs2 \in Reg /\ i.branch \in BOOLEAN
      /\ i.use1 \in BOOLEAN /\ i.use2 \in BOOLEAN /\ (i.branch => ~i.write)
  BY InstructionAssumption
<1>7. /\ \A k \in 0 .. c, a \in Reg : Mapping(t, k, a) = Mapping(s, k, a)
      /\ \A a \in Reg : Mapping(s, c, a) = s.rat[a] /\ Mapping(t, c + 1, a) = t.rat[a]
  <2>1. InOrder(s.rob) /\ InOrder(t.rob)
    BY <1>1, <1>2 DEF WindowOK
  <2>2. \A k \in 0 .. c, a \in Reg : Mapping(t, k, a) = Mapping(s, k, a)
    BY <1>1, EnterMapping
  <2> HIDE DEF t
  <2> QED
    BY <1>2, <2>1, <2>2, MappingAtEnd
<1> HIDE DEF t, r, n, d, e, p
<1>8. /\ c \in Nat /\ 0 \in 0 .. c
      /\ \A j \in InFlight(s) : /\ j \in Index /\ Position(s.rob, j) \in 0 .. c
                                /\ Position(s.rob, j) + 1 \in 0 .. c /\ j # n
                                /\ Position(s.rob, j) < c
  BY <1>1, <1>2, PositionsBelow DEF WindowOK, InOrder
<1> HIDE DEF c
<1>9. /\ \A j \in InFlight(s) : Data(t, j) = Data(s, j) /\ Data(s, j).ins \in Instruction
      /\ Data(t, n) = d
      /\ Writers(t) = Writers(s) \cup (IF i.write THEN {n} ELSE {})
  <2>1. \A j \in InFlight(s) : Data(t, j) = Data(s, j)
    BY <1>2 DEF Data
  <2>2. Data(t, n) = d
    BY <1>2 DEF Data
  <2>3. \A j \in InFlight(s) : Data(s, j).ins \in Instruction
    BY <1>1 DEF WindowOK, DataSet
  <2> QED
    BY <1>2, <1>5, <1>6, <2>1, <2>2, <2>3 DEF Writers
<1>10. \A a \in Reg : /\ Home(t, a) = Home(s, a)
                      /\ \A j \in InFlight(s) : Before(t, j, a) = Before(s, j, a)
                      /\ Before(t, n, a) = s.rat[a]
  BY <1>2, <1>7, <1>8 DEF Home, Before
<1>11. \A a \in Reg, k \in 0 .. c : Mapping(s, k, a) \in Physical
                                    /\ t.prf[Mapping(s, k, a)] = s.prf[Mapping(s, k, a)]
  <2> TAKE a \in Reg, k \in 0 .. c
  <2>1. Mapping(s, k, a) \in Physical
    BY <1>1, MappingType
  <2>2. CASE i.write
    <3>1. p # Mapping(s, k, a)
      <4>1. 1 \in DOMAIN s.free
        BY <1>1, <1>4, <2>2 DEF StateSet
      <4> QED
        BY <1>1, <1>4, <2>2, <4>1, MappingLive DEF c
    <3>2. s.prf \in [Physical -> Cell]
      BY <1>1 DEF StateSet
    <3> QED
      BY <1>2, <1>4, <2>1, <2>2, <3>1, <3>2
  <2>3. CASE ~i.write
    BY <1>2, <1>4, <2>1, <2>3
  <2> QED
    BY <1>6, <2>1, <2>2, <2>3
<1>12. \A j \in Writers(s) : /\ Data(s, j).prd \in Physical /\ (i.write => Data(s, j).prd # p)
                             /\ t.prf[Data(s, j).prd] = s.prf[Data(s, j).prd]
  <2> TAKE j \in Writers(s)
  <2>1. Data(s, j).prd \in Physical
    BY <1>1 DEF WindowOK, Writers
  <2>2. CASE i.write
    <3>1. p # Data(s, j).prd
      <4>1. 1 \in DOMAIN s.free
        BY <1>1, <1>4, <2>2 DEF StateSet
      <4> QED
        BY <1>1, <1>4, <2>2, <4>1 DEF OneOwner
    <3>2. s.prf \in [Physical -> Cell]
      BY <1>1 DEF StateSet
    <3> QED
      BY <1>2, <1>4, <2>1, <2>2, <3>1, <3>2
  <2>3. CASE ~i.write
    BY <1>2, <1>4, <2>1, <2>3
  <2> QED
    BY <1>6, <2>1, <2>2, <2>3
<1>13. AllTracked(t)
  <2>1. ASSUME NEW k \in 0 .. c, NEW a \in Reg
        PROVE  Tracked(t, k, a)
    <3>1. Tracked(s, k, a)
      BY <1>1, <2>1 DEF AllTracked, c
    <3>2. Mapping(t, k, a) = Mapping(s, k, a) /\ Home(t, a) = Home(s, a)
      BY <1>7, <1>10, <2>1
    <3>3. \A j \in Writers(t) : j \in Writers(s) \/ (j = n /\ Position(t.rob, j) >= k)
      BY <1>2, <1>8, <1>9, <2>1
    <3>4. \A j \in Writers(s) : /\ j \in Writers(t) /\ Data(t, j) = Data(s, j)
                                /\ Position(t.rob, j) = Position(s.rob, j)
      BY <1>2, <1>8, <1>9 DEF Writers
    <3>5. \A j \in Writers(t) : Position(t.rob, j) < k => j \in Writers(s)
      BY <1>2, <1>8, <1>9, <2>1
    <3>6. CASE /\ Mapping(s, k, a) = Home(s, a)
               /\ \A j \in Writers(s) : Data(s, j).ins.rd = a => Position(s.rob, j) >= k
      BY <3>2, <3>3, <3>4, <3>6 DEF Tracked
    <3>7. CASE \E j \in Writers(s) :
                  /\ Data(s, j).ins.rd = a /\ Position(s.rob, j) < k
                  /\ Mapping(s, k, a) = Data(s, j).prd
                  /\ \A l \in Writers(s) : Data(s, l).ins.rd = a /\ Position(s.rob, l) < k
                                             => Position(s.rob, l) <= Position(s.rob, j)
      BY <3>2, <3>4, <3>5, <3>7 DEF Tracked
    <3> QED
      BY <3>1, <3>6, <3>7 DEF Tracked
  <2>2. ASSUME NEW a \in Reg
        PROVE  Tracked(t, c + 1, a)
    <3>1. CASE i.write /\ i.rd = a
      <4>1. Mapping(t, c + 1, a) = p
        <5>1. s.rat \in [Reg -> Physical]
          BY <1>1 DEF StateSet
        <5> QED
          BY <1>2, <1>4, <1>6, <1>7, <3>1, <5>1
      <4>2. n \in Writers(t) /\ Data(t, n).ins.rd = a /\ Data(t, n).prd = p
            /\ Position(t.rob, n) < c + 1
        BY <1>2, <1>5, <1>8, <1>9, <3>1
      <4>3. \A l \in Writers(t) : Position(t.rob, l) <= Position(t.rob, n)
        BY <1>2, <1>8, <1>9 DEF Writers
      <4> QED
        BY <4>1, <4>2, <4>3 DEF Tracked
    <3>2. CASE ~(i.write /\ i.rd = a)
      <4>1. Mapping(t, c + 1, a) = Mapping(s, c, a)
        <5>1. s.rat \in [Reg -> Physical]
          BY <1>1 DEF StateSet
        <5>2. r.rat[a] = s.rat[a]
          <6>1. CASE i.write
            BY <1>4, <1>6, <3>2, <5>1, <6>1
          <6>2. CASE ~i.write
            BY <1>4, <6>2
          <6> QED
            BY <6>1, <6>2
        <5> QED
          BY <1>2, <1>7, <5>2
      <4>2. Tracked(s, c, a)
        BY <1>1, <1>8 DEF AllTracked, c
      <4>3. Home(t, a) = Home(s, a)
        BY <1>10
      <4>4. \A j \in Writers(t) : Data(t, j).ins.rd = a =>
                j \in Writers(s) /\ Position(t.rob, j) < c /\ Position(t.rob, j) \in Nat
        BY <1>2, <1>5, <1>8, <1>9, <3>2 DEF Writers
      <4>5. \A j \in Writers(s) : /\ j \in Writers(t) /\ Data(t, j) = Data(s, j)
                                  /\ Position(t.rob, j) = Position(s.rob, j)
                                  /\ Position(s.rob, j) < c /\ Position(s.rob, j) \in Nat
        BY <1>2, <1>8, <1>9 DEF Writers
      <4>6. CASE /\ Mapping(s, c, a) = Home(s, a)
                 /\ \A j \in Writers(s) : Data(s, j).ins.rd = a => Position(s.rob, j) >= c
        BY <1>8, <4>1, <4>3, <4>4, <4>5, <4>6 DEF Tracked
      <4>7. CASE \E j \in Writers(s) :
                    /\ Data(s, j).ins.rd = a /\ Position(s.rob, j) < c
                    /\ Mapping(s, c, a) = Data(s, j).prd
                    /\ \A l \in Writers(s) : Data(s, l).ins.rd = a /\ Position(s.rob, l) < c
                                               => Position(s.rob, l) <= Position(s.rob, j)
        <5>1. PICK j \in Writers(s) :
                    /\ Data(s, j).ins.rd = a /\ Position(s.rob, j) < c
                    /\ Mapping(s, c, a) = Data(s, j).prd
                    /\ \A l \in Writers(s) : Data(s, l).ins.rd = a /\ Position(s.rob, l) < c
                                               => Position(s.rob, l) <= Position(s.rob, j)
          BY <4>7
        <5>2. /\ j \in Writers(t) /\ Data(t, j).ins.rd = a /\ Position(t.rob, j) < c + 1
              /\ Mapping(t, c + 1, a) = Data(t, j).prd
          BY <1>8, <4>1, <4>5, <5>1
        <5>3. \A l \in Writers(t) : Data(t, l).ins.rd = a => Position(t.rob, l) <= Position(t.rob, j)
          BY <4>4, <4>5, <5>1
        <5> QED
          BY <5>2, <5>3 DEF Tracked
      <4> QED
        BY <4>2, <4>6, <4>7 DEF Tracked
    <3> QED
      BY <3>1, <3>2
  <2>3. \A k \in 0 .. c + 1 : k \in 0 .. c \/ k = c + 1
    BY <1>8
  <2> QED
    BY <1>2, <2>1, <2>2, <2>3 DEF AllTracked
<1>14. Checkpoints(t)
  <2>1. ASSUME NEW j \in InFlight(s), Data(t, j).ins.branch
        PROVE  Data(t, j).cp = [a \in Reg |-> Mapping(t, Position(t.rob, j) + 1, a)]
    <3>1. Data(s, j).cp = [a \in Reg |-> Mapping(s, Position(s.rob, j) + 1, a)]
      BY <1>1, <1>9, <2>1 DEF Checkpoints
    <3> QED
      BY <1>2, <1>7, <1>8, <1>9, <3>1
  <2>2. ASSUME Data(t, n).ins.branch
        PROVE  Data(t, n).cp = [a \in Reg |-> Mapping(t, Position(t.rob, n) + 1, a)]
    <3>1. Data(t, n).cp = t.rat
      BY <1>2, <1>5, <1>9, <2>2
    <3>2. t.rat = [a \in Reg |-> t.rat[a]]
      BY <1>2 DEF StateSet
    <3> QED
      BY <1>2, <1>7, <3>1, <3>2
  <2> QED
    BY <1>2, <2>1, <2>2 DEF Checkpoints
<1>15. EveryRegisterOwned(t) /\ OneOwner(t)
  <2>1. CASE ~i.write
    <3>1. t.free = s.free /\ Writers(t) = Writers(s)
      BY <1>2, <1>4, <1>9, <2>1
    <3>2. \A j \in Writers(s) : Data(t, j) = Data(s, j)
      BY <1>9 DEF Writers
    <3> QED
      BY <1>1, <1>10, <3>1, <3>2 DEF EveryRegisterOwned, OneOwner
  <2>2. CASE i.write
    <3>1. /\ s.free \in Seq(Physical) /\ s.free # << >> /\ t.free = Tail(s.free) /\ p = s.free[1]
      BY <1>1, <1>2, <1>4, <2>2 DEF StateSet
    <3>2. /\ DOMAIN s.free = 1 .. Len(s.free) /\ Len(s.free) \in Nat
          /\ DOMAIN t.free = 1 .. Len(s.free) - 1
          /\ \A m \in 1 .. Len(s.free) - 1 : t.free[m] = s.free[m + 1]
      BY <3>1
    <3>3. /\ \A m \in DOMAIN t.free : m + 1 \in DOMAIN s.free /\ t.free[m] = s.free[m + 1]
          /\ 1 \in DOMAIN s.free
          /\ \A m \in DOMAIN t.free : t.free[m] # p
      <4>1. \A m \in DOMAIN t.free : m + 1 \in DOMAIN s.free /\ t.free[m] = s.free[m + 1]
                                     /\ m + 1 # 1
        BY <3>2
      <4>2. 1 \in DOMAIN s.free
        BY <3>1, <3>2
      <4> QED
        BY <1>1, <3>1, <4>1, <4>2 DEF OneOwner
    <3>4. /\ Writers(t) = Writers(s) \cup {n} /\ Data(t, n).prd = p /\ n \notin Writers(s)
          /\ \A j \in Writers(s) : Data(t, j) = Data(s, j)
      BY <1>2, <1>5, <1>9, <2>2 DEF Writers
    <3>5. EveryRegisterOwned(t)
      <4>1. ASSUME NEW x \in Physical, NEW m \in DOMAIN s.free, s.free[m] = x
            PROVE  x = p \/ \E l \in DOMAIN t.free : t.free[l] = x
        <5>1. CASE m = 1
          BY <3>1, <4>1, <5>1
        <5>2. CASE m # 1
          <6>1. m - 1 \in DOMAIN t.free /\ t.free[m - 1] = s.free[m]
            BY <3>2, <4>1, <5>2
          <6> QED
            BY <4>1, <6>1
        <5> QED
          BY <5>1, <5>2
      <4>2. ASSUME NEW x \in Physical
            PROVE  \/ \E l \in DOMAIN t.free : t.free[l] = x
                   \/ \E j \in Writers(t) : Data(t, j).prd = x
                   \/ \E a \in Reg : Home(t, a) = x
        <5>1. CASE \E m \in DOMAIN s.free : s.free[m] = x
          BY <3>4, <4>1, <5>1
        <5>2. CASE \E j \in Writers(s) : Data(s, j).prd = x
          BY <3>4, <5>2
        <5>3. CASE \E a \in Reg : Home(s, a) = x
          BY <1>10, <5>3
        <5> QED
          BY <1>1, <5>1, <5>2, <5>3 DEF EveryRegisterOwned
      <4> QED
        BY <4>2 DEF EveryRegisterOwned
    <3>6. OneOwner(t)
      <4>1. \A m, l \in DOMAIN t.free : t.free[m] = t.free[l] => m = l
        <5> TAKE m, l \in DOMAIN t.free
        <5>1. t.free[m] = t.free[l] => m + 1 = l + 1
          BY <1>1, <3>3 DEF OneOwner
        <5> QED
          BY <3>2, <5>1
      <4>2. \A j, l \in Writers(t) : Data(t, j).prd = Data(t, l).prd => j = l
        BY <1>1, <1>12, <2>2, <3>4 DEF OneOwner
      <4>3. \A a, b \in Reg : Home(t, a) = Home(t, b) => a = b
        BY <1>1, <1>10 DEF OneOwner
      <4>4. \A m \in DOMAIN t.free : \A j \in Writers(t) : Data(t, j).prd # t.free[m]
        BY <1>1, <3>3, <3>4 DEF OneOwner
      <4>5. \A m \in DOMAIN t.free : \A a \in Reg : Home(t, a) # t.free[m]
        BY <1>1, <1>10, <3>3 DEF OneOwner
      <4>6. \A j \in Writers(t), a \in Reg : Data(t, j).prd # Home(t, a)
        <5>1. \A a \in Reg : p # Home(s, a)
          BY <1>1, <3>1, <3>3 DEF OneOwner
        <5> QED
          BY <1>1, <1>10, <3>4, <5>1 DEF OneOwner
      <4> QED
        BY <4>1, <4>2, <4>3, <4>4, <4>5, <4>6 DEF OneOwner
    <3> QED
      BY <3>5, <3>6
  <2> QED
    BY <1>6, <2>1, <2>2
<1>16. ReadyOK(t)
  <2>1. \A a \in Reg : t.prf[Home(t, a)].ready
    BY <1>1, <1>8, <1>10, <1>11 DEF ReadyOK, Home
  <2>2. \A j \in Writers(s) : t.prf[Data(t, j).prd].ready = t.rob.slot[j].completed
    BY <1>1, <1>2, <1>9, <1>12 DEF ReadyOK, Writers
  <2>3. CASE i.write
    <3>1. Writers(t) = Writers(s) \cup {n}
      BY <1>9, <2>3
    <3>2. t.prf[p].ready = FALSE
      <4>1. s.prf \in [Physical -> Cell]
        BY <1>1 DEF StateSet
      <4> QED
        BY <1>2, <1>4, <2>3, <4>1
    <3>3. t.prf[Data(t, n).prd].ready = t.rob.slot[n].completed
      <4>1. t.rob.slot[n].completed = FALSE /\ Data(t, n).prd = p
        BY <1>2, <1>5, <1>9, <2>3
      <4> QED
        BY <3>2, <4>1
    <3> QED
      BY <2>1, <2>2, <3>1, <3>3 DEF ReadyOK
  <2>4. CASE ~i.write
    BY <1>9, <2>1, <2>2, <2>4 DEF ReadyOK
  <2> QED
    BY <1>6, <2>3, <2>4
<1>17. \A j \in InFlight(s) : \A a \in Reg : /\ Before(t, j, a) = Before(s, j, a)
                                             /\ t.prf[Before(s, j, a)] = s.prf[Before(s, j, a)]
  BY <1>8, <1>10, <1>11 DEF Before
<1>18. \A j \in InFlight(s) : /\ FirstSource(t, j) = FirstSource(s, j)
                              /\ SecondSource(t, j) = SecondSource(s, j)
                              /\ SourcesReady(t, j) <=> SourcesReady(s, j)
                              /\ Item(t, j) = Item(s, j)
  <2> TAKE j \in InFlight(s)
  <2>1. /\ Data(t, j) = Data(s, j) /\ Data(s, j).ins \in Instruction
        /\ t.rob.slot[j].completed = s.rob.slot[j].completed
    BY <1>2, <1>9
  <2> QED
    BY <1>17, <2>1, SameSources
<1>19. ResultsOK(t)
  <2>1. ASSUME NEW j \in InFlight(s), t.rob.slot[j].completed
        PROVE  Executed(t, j)
    <3>1. Executed(s, j)
      BY <1>1, <1>2, <2>1 DEF ResultsOK
    <3>2. Data(s, j).ins.write => t.prf[Data(s, j).prd] = s.prf[Data(s, j).prd]
      BY <1>12 DEF Writers
    <3> QED
      BY <1>9, <1>18, <3>1, <3>2 DEF Executed
  <2>2. ~t.rob.slot[n].completed
    BY <1>2
  <2> QED
    BY <1>2, <2>1, <2>2 DEF ResultsOK
<1>20. QueueOK(t)
  <2>1. PICK q \in IQSlot : ~s.iq[q].valid /\ t.iq = [s.iq EXCEPT ![q] = e]
    BY <1>3
  <2>2. s.iq \in [IQSlot -> EntrySet \cup {FreeSlot}]
    BY <1>1 DEF StateSet
  <2>3. t.iq[q] = e /\ \A x \in IQSlot : x # q => t.iq[x] = s.iq[x]
    BY <2>1, <2>2
  <2>4. ASSUME NEW x \in IQSlot, x # q, t.iq[x].valid
        PROVE  EntryOK(t, t.iq[x]) /\ t.iq[x].rob \in InFlight(s)
    <3>1. t.iq[x] = s.iq[x] /\ s.iq[x].valid
      BY <2>3, <2>4
    <3> DEFINE f == s.iq[x]
    <3>2. EntryOK(s, f)
      BY <1>1, <3>1 DEF QueueOK
    <3>3. f.ins.rs1 \in Reg /\ f.ins.rs2 \in Reg /\ f.rob \in InFlight(s)
          /\ f.ins = Data(s, f.rob).ins
      BY <1>9, <3>2, InstructionAssumption DEF EntryOK
    <3> HIDE DEF f
    <3>4. \A op, a : a \in Reg /\ Current(s, f.rob, op, a) => Current(t, f.rob, op, a)
      BY <1>17, <3>3 DEF Current
    <3>5. EntryOK(t, f)
      <4>1. f.rob \in InFlight(t) /\ ~t.rob.slot[f.rob].completed
            /\ f.ins = Data(t, f.rob).ins /\ f.prd = Data(t, f.rob).prd
        BY <1>2, <1>9, <3>2, <3>3 DEF EntryOK
      <4>2. /\ OperandOK(t, f.rob, f.op1, f.ins.use1, f.ins.rs1)
            /\ OperandOK(t, f.rob, f.op2, f.ins.use2, f.ins.rs2)
        BY <3>2, <3>3, <3>4 DEF EntryOK, OperandOK
      <4> QED
        BY <4>1, <4>2 DEF EntryOK
    <3> QED
      BY <3>1, <3>3, <3>5 DEF f
  <2>5. EntryOK(t, e) /\ e.rob = n
    <3>1. /\ e.rob = n /\ e.ins = i /\ e.prd = d.prd
          /\ e.op1 = Operand(t.prf, i.use1, s.rat[i.rs1])
          /\ e.op2 = Operand(t.prf, i.use2, s.rat[i.rs2])
      <4>1. r.rob = s.rob
        BY <1>1, RenameFields DEF r
      <4> QED
        BY <1>2, <4>1 DEF e, d, EnteredData, IssueEntry, Bundle, n
    <3>2. \A used \in BOOLEAN, a \in Reg :
             OperandOK(t, n, Operand(t.prf, used, s.rat[a]), used, a)
      <4> TAKE used \in BOOLEAN, a \in Reg
      <4> DEFINE x == s.rat[a]
                 op == Operand(t.prf, used, x)
      <4>1. Before(t, n, a) = x
        BY <1>10
      <4> HIDE DEF x
      <4>2. CASE used
        <5>1. op = [reg |-> x, ready |-> t.prf[x].ready, value |-> t.prf[x].value]
          BY <4>2 DEF Operand
        <5>2. op.reg = x /\ op.ready = t.prf[x].ready /\ op.value = t.prf[x].value
          BY <5>1
        <5> QED
          BY <4>1, <4>2, <5>2, Zenon DEF OperandOK, Current, x
      <4>3. CASE ~used
        <5>1. op.ready /\ op.value = 0
          BY <4>3 DEF Operand
        <5> QED
          BY <4>3, <5>1, Zenon DEF OperandOK, x
      <4> QED
        BY <4>2, <4>3
    <3>3. /\ OperandOK(t, n, e.op1, i.use1, i.rs1)
          /\ OperandOK(t, n, e.op2, i.use2, i.rs2)
      BY <1>6, <3>1, <3>2
    <3> QED
      BY <1>2, <1>5, <1>9, <3>1, <3>3 DEF EntryOK
  <2>6. \A x \in IQSlot : t.iq[x].valid => EntryOK(t, t.iq[x])
    BY <2>3, <2>4, <2>5
  <2>7. \A x, y \in IQSlot : t.iq[x].valid /\ t.iq[y].valid /\ t.iq[x].rob = t.iq[y].rob => x = y
    <3> SUFFICES ASSUME NEW x \in IQSlot, NEW y \in IQSlot, t.iq[x].valid, t.iq[y].valid,
                        t.iq[x].rob = t.iq[y].rob
                 PROVE  x = y
      OBVIOUS
    <3>1. CASE x # q /\ y # q
      <4>1. t.iq[x] = s.iq[x] /\ t.iq[y] = s.iq[y]
        BY <2>3, <3>1
      <4> QED
        BY <1>1, <4>1 DEF QueueOK
    <3>2. CASE x = q /\ y # q
      BY <1>2, <2>3, <2>4, <2>5, <3>2
    <3>3. CASE x # q /\ y = q
      BY <1>2, <2>3, <2>4, <2>5, <3>3
    <3> QED
      BY <3>1, <3>2, <3>3
  <2> QED
    BY <2>6, <2>7 DEF QueueOK
<1>21. Item(t, n) = [ins |-> i, decided |-> {}]
  <2>1. ~t.rob.slot[n].completed
    BY <1>2
  <2>2. Data(t, n).ins = i
    BY <1>5, <1>9
  <2> QED
    BY <2>1, <2>2 DEF Item
<1>22. RegsOf(t) = RegsOf(s)
  BY <1>8, <1>10, <1>11 DEF RegsOf, Home
<1>23. IInv(t)
  BY <1>2, <1>13, <1>14, <1>15, <1>16, <1>19, <1>20 DEF IInv
<1> QED
  BY <1>2, <1>8, <1>18, <1>21, <1>22, <1>23 DEF t, n, c

-----------------------------------------------------------------------------
(* An entry executes: it leaves the queue, and its result reaches register  *)
(* file, queue and reorder buffer.  For a branch there is no result.        *)
Exec(s, q) == WriteBack(Removed(s, {q}), s.iq[q])

Result(e) == Alu(e.ins, e.op1.value, e.op2.value)

WakedEntry(f, p, v) == [f EXCEPT !.op1 = Waked(@, p, v), !.op2 = Waked(@, p, v)]

LEMMA WakedEntryFields ==
    ASSUME NEW f \in EntrySet, NEW p \in Physical, NEW v \in Value
    PROVE  LET w == WakedEntry(f, p, v)
           IN  /\ w \in EntrySet
               /\ w.valid /\ w.rob = f.rob /\ w.ins = f.ins /\ w.prd = f.prd
               /\ w.op1 = Waked(f.op1, p, v) /\ w.op2 = Waked(f.op2, p, v)
<1>1. f.op1 \in OperandSet /\ f.op2 \in OperandSet
  BY DEF EntrySet
<1>2. \A op \in OperandSet : Waked(op, p, v) \in OperandSet
  BY DEF Waked, OperandSet
<1>3. Waked(f.op1, p, v) \in OperandSet /\ Waked(f.op2, p, v) \in OperandSet
  BY <1>1, <1>2
<1> QED
  BY <1>3 DEF WakedEntry, EntrySet

(* An operand that was ready stays what it was. *)
LEMMA WakedReady ==
    ASSUME NEW f \in EntrySet, f.op1.ready, f.op2.ready, NEW p, NEW v
    PROVE  WakedEntry(f, p, v) = f
<1>1. Waked(f.op1, p, v) = f.op1 /\ Waked(f.op2, p, v) = f.op2
  BY DEF Waked
<1> QED
  BY <1>1 DEF WakedEntry, EntrySet

LEMMA CompleteFields ==
    ASSUME NEW r \in RingSet, NEW b \in Index, r.slot[b].valid
    PROVE  LET c == Complete(r, b)
           IN  /\ c \in RingSet /\ c.head = r.head /\ c.tail = r.tail /\ c.count = r.count
               /\ c.slot[b] = [valid |-> TRUE, completed |-> TRUE, data |-> r.slot[b].data]
               /\ \A i \in Index : i # b => c.slot[i] = r.slot[i]
<1> DEFINE T == [valid : BOOLEAN, completed : BOOLEAN, data : DataSet \cup {NoData}]
           new == [valid |-> TRUE, completed |-> TRUE, data |-> r.slot[b].data]
           c == Complete(r, b)
<1>1. r.slot \in [Index -> T] /\ r.head \in Index /\ r.tail \in Index /\ r.count \in 0 .. Capacity
  BY DEF RingSet
<1>2. new \in T
  BY <1>1
<1>3. c.slot = [i \in Index |-> IF i = b THEN new ELSE r.slot[i]]
  BY DEF Complete
<1>4. /\ c.slot[b] = new /\ \A i \in Index : i # b => c.slot[i] = r.slot[i]
      /\ c.slot \in [Index -> T]
  <2> HIDE DEF new, c, T
  <2> QED
    BY <1>1, <1>2, <1>3
<1>5. c = [slot |-> c.slot, head |-> r.head, tail |-> r.tail, count |-> r.count]
  BY DEF Complete
<1> QED
  BY <1>1, <1>4, <1>5 DEF RingSet

LEMMA ExecFacts ==
    ASSUME NEW s \in StateSet, WindowOK(s), NEW q \in IQSlot, s.iq[q].valid,
           EntryOK(s, s.iq[q])
    PROVE  LET t == Exec(s, q)
               e == s.iq[q]
           IN  /\ t \in StateSet /\ e \in EntrySet /\ Result(e) \in Value
               /\ t.rat = s.rat /\ t.free = s.free /\ t.rob = Complete(s.rob, e.rob)
               /\ ~t.iq[q].valid
               /\ e.ins.write =>
                     /\ e.prd \in Physical
                     /\ t.prf = [s.prf EXCEPT ![e.prd] = [value |-> Result(e), ready |-> TRUE]]
                     /\ \A x \in IQSlot : x # q =>
                           t.iq[x] = IF s.iq[x].valid THEN WakedEntry(s.iq[x], e.prd, Result(e))
                                     ELSE s.iq[x]
               /\ ~e.ins.write => /\ t.prf = s.prf
                                  /\ \A x \in IQSlot : x # q => t.iq[x] = s.iq[x]
<1> DEFINE t == Exec(s, q)
           e == s.iq[q]
           m == Removed(s, {q})
           v == Result(e)
           gone == [x \in IQSlot |-> IF x = q THEN FreeSlot ELSE s.iq[x]]
<1>1. /\ s.iq \in [IQSlot -> EntrySet \cup {FreeSlot}] /\ s.prf \in [Physical -> Cell]
      /\ s.rob \in RingSet
  BY DEF StateSet
<1>2. e \in EntrySet
  <2>1. FreeSlot.valid = FALSE
    BY DEF FreeSlot
  <2> QED
    BY <1>1, <2>1
<1>3. /\ e.rob \in Index /\ e.ins \in Instruction /\ e.op1.value \in Value /\ e.op2.value \in Value
  BY <1>2 DEF EntrySet, OperandSet
<1>4. v \in Value /\ e.ins.write \in BOOLEAN
  BY <1>3, InstructionAssumption DEF Result
<1>5. s.rob.slot[e.rob].valid /\ (e.ins.write => e.prd \in Physical)
  BY DEF WindowOK, EntryOK, InFlight
<1>6. gone \in [IQSlot -> EntrySet \cup {FreeSlot}]
  BY <1>1
<1>7. m = [s EXCEPT !.iq = gone]
  BY DEF Removed
<1>8. m.rob = s.rob /\ m.iq = gone /\ m.prf = s.prf /\ m \in StateSet
  BY <1>6, <1>7 DEF StateSet
<1>9. Complete(s.rob, e.rob) \in RingSet
  BY <1>1, <1>3, <1>5, CompleteFields
<1>10. CASE ~e.ins.write
  <2>1. t = [m EXCEPT !.rob = Complete(s.rob, e.rob)]
    BY <1>5, <1>8, <1>10 DEF Exec, WriteBack
  <2>2. /\ t \in StateSet /\ t.rat = s.rat /\ t.free = s.free /\ t.prf = s.prf
        /\ t.rob = Complete(s.rob, e.rob) /\ t.iq = gone
    BY <1>7, <1>8, <1>9, <2>1 DEF StateSet
  <2>3. ~gone[q].valid /\ \A x \in IQSlot : x # q => gone[x] = s.iq[x]
    BY DEF FreeSlot
  <2> HIDE DEF t, gone, m, v
  <2> QED
    BY <1>2, <1>4, <1>10, <2>2, <2>3 DEF t, v
<1>11. CASE e.ins.write
  <2> DEFINE file == [s.prf EXCEPT ![e.prd] = [value |-> v, ready |-> TRUE]]
             woken == Wakeup(gone, e.prd, v)
  <2>1. file \in [Physical -> Cell]
    <3>1. [value |-> v, ready |-> TRUE] \in Cell
      BY <1>4 DEF Cell
    <3> HIDE DEF v
    <3> QED
      BY <1>1, <1>5, <1>11, <3>1
  <2>2. \A x \in IQSlot : woken[x] = IF gone[x].valid THEN WakedEntry(gone[x], e.prd, v)
                                     ELSE gone[x]
    BY DEF Wakeup, WakedEntry
  <2>3. woken \in [IQSlot -> EntrySet \cup {FreeSlot}]
    <3>1. FreeSlot.valid = FALSE
      BY DEF FreeSlot
    <3>2. \A x \in IQSlot : woken[x] \in EntrySet \cup {FreeSlot}
      <4> HIDE DEF gone, woken, v, e
      <4> QED
        BY <1>4, <1>5, <1>6, <1>11, <2>2, <3>1, WakedEntryFields
    <3> QED
      BY <3>2 DEF Wakeup
  <2>4. t = [m EXCEPT !.prf = file, !.iq = woken, !.rob = Complete(s.rob, e.rob)]
    BY <1>5, <1>8, <1>11 DEF Exec, WriteBack, Result
  <2>5. m.rat = s.rat /\ m.free = s.free
    BY <1>7 DEF StateSet
  <2>6. ~gone[q].valid /\ \A x \in IQSlot : x # q => gone[x] = s.iq[x]
    BY DEF FreeSlot
  <2> HIDE DEF t, gone, m, v, woken, file
  <2>7. /\ t \in StateSet /\ t.rat = s.rat /\ t.free = s.free /\ t.prf = file
        /\ t.rob = Complete(s.rob, e.rob) /\ t.iq = woken
    BY <1>8, <1>9, <2>1, <2>3, <2>4, <2>5 DEF StateSet
  <2>8. ~t.iq[q].valid /\ \A x \in IQSlot : x # q =>
            t.iq[x] = IF s.iq[x].valid THEN WakedEntry(s.iq[x], e.prd, v) ELSE s.iq[x]
    BY <2>2, <2>6, <2>7
  <2> QED
    BY <1>2, <1>4, <1>5, <1>11, <2>7, <2>8 DEF t, v, file
<1> QED
  BY <1>4, <1>10, <1>11

(* Where the ages, the data and the alias table agree, so do the mappings. *)
LEMMA SameMapping ==
    ASSUME NEW s, NEW t, s.rob.head \in Index, t.rob.head = s.rob.head, t.rat = s.rat,
           InFlight(t) = InFlight(s), \A i \in InFlight(s) : Data(t, i) = Data(s, i),
           NEW k \in Nat, NEW a
    PROVE  Mapping(t, k, a) = Mapping(s, k, a)
<1>1. \A i \in Index : Position(t.rob, i) = Position(s.rob, i) /\ Position(t.rob, i) \in Nat
  BY PositionValue DEF Position, Index
<1>2. LaterWriters(t, k, a) = LaterWriters(s, k + 0, a)
  BY <1>1 DEF LaterWriters, Writers, InFlight
<1>3. \A i \in LaterWriters(t, k, a) : /\ Position(s.rob, i) = Position(t.rob, i) + 0
                                       /\ Data(s, i).old = Data(t, i).old
  BY <1>1 DEF LaterWriters, Writers, InFlight
<1>4. Mapping(t, k, a) = Mapping(s, k + 0, a)
  BY <1>2, <1>3, MappingAlike
<1> QED
  BY <1>4

(* What has executed reads the same while ready registers keep their value. *)
LEMMA ReadySources ==
    ASSUME NEW s, NEW t, NEW i, Data(t, i) = Data(s, i), Data(s, i).ins \in Instruction,
           \A a \in Reg : Before(t, i, a) = Before(s, i, a) /\ Before(s, i, a) \in Physical,
           \A p \in Physical : s.prf[p].ready => t.prf[p] = s.prf[p],
           SourcesReady(s, i)
    PROVE  /\ SourcesReady(t, i)
           /\ FirstSource(t, i) = FirstSource(s, i) /\ SecondSource(t, i) = SecondSource(s, i)
<1> DEFINE d == Data(s, i).ins
<1>1. d.rs1 \in Reg /\ d.rs2 \in Reg
  BY InstructionAssumption
<1>2. /\ d.use1 => s.prf[Before(s, i, d.rs1)].ready
                   /\ t.prf[Before(s, i, d.rs1)] = s.prf[Before(s, i, d.rs1)]
      /\ d.use2 => s.prf[Before(s, i, d.rs2)].ready
                   /\ t.prf[Before(s, i, d.rs2)] = s.prf[Before(s, i, d.rs2)]
  BY <1>1 DEF SourcesReady
<1>3. Data(t, i).ins = d
  OBVIOUS
<1> HIDE DEF d
<1>4. SourcesReady(t, i)
  BY <1>1, <1>2, <1>3, SMTT(30) DEF SourcesReady
<1> QED
  BY <1>1, <1>2, <1>3, <1>4 DEF FirstSource, SecondSource, SourceValue, d

LEMMA ExecKeeps ==
    ASSUME NEW s, IInv(s), NEW q \in IQSlot, s.iq[q].valid, Ready(s.iq[q])
    PROVE  LET t == Exec(s, q)
               e == s.iq[q]
           IN  /\ IInv(t)
               /\ t.rob = Complete(s.rob, e.rob) /\ ~t.iq[q].valid /\ e.rob \in InFlight(s)
               /\ e.ins = Data(s, e.rob).ins /\ ~s.rob.slot[e.rob].completed
               /\ InFlight(t) = InFlight(s)
               /\ \A j \in InFlight(s) : /\ j # e.rob \/ ~e.ins.branch => Item(t, j) = Item(s, j)
                                         /\ Position(t.rob, j) = Position(s.rob, j)
               /\ Item(t, e.rob).ins = e.ins
               /\ e.ins.branch => Item(t, e.rob).decided =
                                     {Taken(e.ins, e.op1.value, e.op2.value)}
               /\ RegsOf(t) = RegsOf(s)
               /\ \A x \in IQSlot : x # q /\ s.iq[x].valid /\ Ready(s.iq[x]) => t.iq[x] = s.iq[x]
<1> DEFINE t == Exec(s, q)
           e == s.iq[q]
           b == e.rob
           v == Result(e)
<1>1. /\ s \in StateSet /\ WindowOK(s) /\ AllTracked(s) /\ Checkpoints(s) /\ EveryRegisterOwned(s)
      /\ OneOwner(s) /\ ReadyOK(s) /\ ResultsOK(s) /\ QueueOK(s) /\ EntryOK(s, e)
  BY DEF IInv, QueueOK
<1>2. /\ t \in StateSet /\ e \in EntrySet /\ v \in Value
      /\ t.rat = s.rat /\ t.free = s.free /\ t.rob = Complete(s.rob, b) /\ ~t.iq[q].valid
      /\ e.ins.write => /\ e.prd \in Physical
                        /\ t.prf = [s.prf EXCEPT ![e.prd] = [value |-> v, ready |-> TRUE]]
                        /\ \A x \in IQSlot : x # q =>
                              t.iq[x] = IF s.iq[x].valid THEN WakedEntry(s.iq[x], e.prd, v)
                                        ELSE s.iq[x]
      /\ ~e.ins.write => /\ t.prf = s.prf
                         /\ \A x \in IQSlot : x # q => t.iq[x] = s.iq[x]
  BY <1>1, ExecFacts, ZenonT(30)
<1>3. /\ b \in InFlight(s) /\ b \in Index /\ ~s.rob.slot[b].completed /\ s.rob.slot[b].valid
      /\ e.ins = Data(s, b).ins /\ e.prd = Data(s, b).prd
      /\ OperandOK(s, b, e.op1, e.ins.use1, e.ins.rs1)
      /\ OperandOK(s, b, e.op2, e.ins.use2, e.ins.rs2)
      /\ e.op1.ready /\ e.op2.ready /\ e.op1 \in OperandSet /\ e.op2 \in OperandSet
      /\ e.ins \in Instruction
  BY <1>1, <1>2 DEF EntryOK, WindowOK, InFlight, Ready, EntrySet
<1>4. e.ins.write \in BOOLEAN /\ e.ins.use1 \in BOOLEAN /\ e.ins.use2 \in BOOLEAN
      /\ e.ins.branch \in BOOLEAN /\ (e.ins.branch => ~e.ins.write)
      /\ e.ins.rs1 \in Reg /\ e.ins.rs2 \in Reg
  BY <1>3, InstructionAssumption
<1> HIDE DEF t, e, v, b
<1>5. /\ s.rob \in RingSet /\ s.rob.head \in Index
      /\ s.prf \in [Physical -> Cell] /\ s.iq \in [IQSlot -> EntrySet \cup {FreeSlot}]
  BY <1>1 DEF StateSet, RingSet
<1>6. /\ t.rob.head = s.rob.head /\ t.rob.tail = s.rob.tail /\ t.rob.count = s.rob.count
      /\ t.rob.slot[b] = [valid |-> TRUE, completed |-> TRUE, data |-> s.rob.slot[b].data]
      /\ \A i \in Index : i # b => t.rob.slot[i] = s.rob.slot[i]
      /\ t.rob \in RingSet
  BY <1>2, <1>3, <1>5, CompleteFields
<1>7. /\ \A i \in Index : Data(t, i) = Data(s, i) /\ (t.rob.slot[i].valid <=> s.rob.slot[i].valid)
      /\ t.rob.slot[b].completed
      /\ \A i \in Index : Position(t.rob, i) = Position(s.rob, i)
      /\ InFlight(t) = InFlight(s) /\ Writers(t) = Writers(s)
      /\ \A i \in Index : InWindow(t.rob, i) <=> InWindow(s.rob, i)
  <2>1. \A i \in Index : Data(t, i) = Data(s, i) /\ (t.rob.slot[i].valid <=> s.rob.slot[i].valid)
    <3>1. t.rob.slot[b].data = s.rob.slot[b].data /\ t.rob.slot[b].valid
      BY <1>6
    <3>2. \A i \in Index : i # b => t.rob.slot[i] = s.rob.slot[i]
      BY <1>6
    <3> QED
      BY <1>3, <3>1, <3>2, Zenon DEF Data
  <2>2. t.rob.slot[b].completed
    BY <1>6
  <2>3. \A i \in Index : /\ Position(t.rob, i) = Position(s.rob, i)
                         /\ InWindow(t.rob, i) <=> InWindow(s.rob, i)
    BY <1>6 DEF Position, InWindow
  <2>4. InFlight(t) = InFlight(s)
    BY <2>3 DEF InFlight
  <2> QED
    BY <2>1, <2>2, <2>3, <2>4, SMTT(30) DEF Writers, InFlight
<1>8. \A i \in InFlight(s) : i \in Index /\ Position(s.rob, i) \in 0 .. s.rob.count
                             /\ Position(s.rob, i) + 1 \in 0 .. s.rob.count
                             /\ Data(s, i).ins \in Instruction
  BY <1>1, PositionsBelow DEF WindowOK, DataSet
<1>9. /\ \A k \in Nat, a \in Reg : Mapping(t, k, a) = Mapping(s, k, a)
      /\ \A a \in Reg : Home(t, a) = Home(s, a) /\ Home(s, a) \in Physical
      /\ \A i \in InFlight(s), a \in Reg : Before(t, i, a) = Before(s, i, a)
                                           /\ Before(s, i, a) \in Physical
  <2>1. \A i \in InFlight(s) : Data(t, i) = Data(s, i)
    BY <1>7 DEF InFlight
  <2>2. \A k \in Nat, a \in Reg : Mapping(t, k, a) = Mapping(s, k, a)
    BY <1>2, <1>5, <1>6, <1>7, <2>1, SameMapping
  <2>3. \A i \in InFlight(s) : Position(s.rob, i) \in Nat /\ i \in Index
    BY <1>8
  <2> QED
    BY <1>1, <1>7, <2>2, <2>3, MappingType DEF Home, Before
<1>10. e.ins.write => b \in Writers(s) /\ e.prd = Data(s, b).prd /\ s.prf[e.prd].ready = FALSE
  BY <1>1, <1>3 DEF Writers, ReadyOK
<1>11. \A p \in Physical : /\ s.prf[p].ready => t.prf[p] = s.prf[p]
                           /\ e.ins.write /\ p # e.prd => t.prf[p] = s.prf[p]
                           /\ ~e.ins.write => t.prf[p] = s.prf[p]
  <2>1. CASE e.ins.write
    <3>1. t.prf = [s.prf EXCEPT ![e.prd] = [value |-> v, ready |-> TRUE]]
      BY <1>2, <2>1
    <3> QED
      BY <1>5, <1>10, <2>1, <3>1
  <2>2. CASE ~e.ins.write
    BY <1>2, <2>2
  <2> QED
    BY <1>4, <2>1, <2>2
<1>12. e.ins.write => t.prf[e.prd].ready = TRUE /\ t.prf[e.prd].value = v
  BY <1>2, <1>5
<1>13. WindowOK(t)
  <2>1. InOrder(t.rob)
    <3>1. DOMAIN t.rob.slot = Index
      BY <1>6 DEF RingSet
    <3> QED
      BY <1>1, <1>6, <3>1 DEF WindowOK, InOrder
  <2>2. \A i \in InFlight(t) : i \in Index /\ i \in InFlight(s) /\ Data(t, i) = Data(s, i)
    BY <1>7 DEF InFlight
  <2> QED
    BY <1>1, <1>7, <2>1, <2>2 DEF WindowOK
<1>14. AllTracked(t)
  <2>1. \A j \in Writers(s) : j \in Index
    BY DEF Writers, InFlight
  <2>2. ASSUME NEW k \in 0 .. t.rob.count, NEW a \in Reg
        PROVE  Tracked(t, k, a)
    <3>1. k \in Nat /\ k \in 0 .. s.rob.count
      BY <1>5, <1>6 DEF RingSet
    <3>2. Tracked(s, k, a)
      BY <1>1, <3>1 DEF AllTracked
    <3>3. Mapping(t, k, a) = Mapping(s, k, a) /\ Home(t, a) = Home(s, a)
      BY <1>9, <3>1
    <3>4. Writers(t) = Writers(s)
          /\ \A j \in Writers(s) : Data(t, j) = Data(s, j) /\ Position(t.rob, j) = Position(s.rob, j)
      BY <1>7, <2>1
    <3> QED
      BY <3>2, <3>3, <3>4 DEF Tracked
  <2> QED
    BY <2>2 DEF AllTracked
<1>15. Checkpoints(t)
  <2>1. \A j \in InFlight(s) : Position(s.rob, j) + 1 \in Nat /\ j \in Index
    BY <1>5, <1>8 DEF RingSet
  <2>2. \A j \in InFlight(s) : [a \in Reg |-> Mapping(t, Position(t.rob, j) + 1, a)]
                             = [a \in Reg |-> Mapping(s, Position(s.rob, j) + 1, a)]
    BY <1>7, <1>9, <2>1
  <2> QED
    BY <1>1, <1>7, <2>1, <2>2 DEF Checkpoints
<1>16. EveryRegisterOwned(t) /\ OneOwner(t)
  <2>1. t.free = s.free /\ Writers(t) = Writers(s)
    BY <1>2, <1>7
  <2>2. \A j \in Writers(s) : Data(t, j) = Data(s, j)
    BY <1>7 DEF Writers, InFlight
  <2> QED
    BY <1>1, <1>9, <2>1, <2>2 DEF EveryRegisterOwned, OneOwner
<1>17. ReadyOK(t)
  <2>1. \A a \in Reg : t.prf[Home(t, a)].ready
    BY <1>1, <1>9, <1>11 DEF ReadyOK
  <2>2. ASSUME NEW j \in Writers(s)
        PROVE  t.prf[Data(t, j).prd].ready = t.rob.slot[j].completed
    <3>1. j \in InFlight(s) /\ j \in Index /\ Data(s, j).prd \in Physical /\ Data(s, j).ins.write
      BY <1>1 DEF Writers, InFlight, WindowOK
    <3>2. CASE j = b
      <4>1. e.ins.write /\ Data(t, j).prd = e.prd
        BY <1>3, <1>7, <3>1, <3>2
      <4>2. t.rob.slot[j].completed = TRUE
        BY <1>6, <3>2
      <4> QED
        BY <1>12, <4>1, <4>2
    <3>3. CASE j # b
      <4>1. t.rob.slot[j].completed = s.rob.slot[j].completed /\ Data(t, j) = Data(s, j)
        BY <1>6, <1>7, <3>1, <3>3
      <4>2. e.ins.write => Data(s, j).prd # e.prd
        BY <1>1, <1>10, <3>3 DEF OneOwner
      <4>3. t.prf[Data(s, j).prd] = s.prf[Data(s, j).prd]
        BY <1>4, <1>11, <3>1, <4>2
      <4> QED
        BY <1>1, <4>1, <4>3 DEF ReadyOK
    <3> QED
      BY <3>2, <3>3
  <2> QED
    BY <1>7, <2>1, <2>2 DEF ReadyOK
<1>18. \A j \in InFlight(s) : SourcesReady(s, j) =>
          /\ SourcesReady(t, j)
          /\ FirstSource(t, j) = FirstSource(s, j) /\ SecondSource(t, j) = SecondSource(s, j)
  <2> TAKE j \in InFlight(s)
  <2>1. Data(t, j) = Data(s, j) /\ Data(s, j).ins \in Instruction
    BY <1>7, <1>8
  <2> QED
    BY <1>9, <1>11, <2>1, ReadySources
<1>19. /\ SourcesReady(s, b)
       /\ FirstSource(s, b) = e.op1.value /\ SecondSource(s, b) = e.op2.value
  <2>1. e.ins.use1 => /\ s.prf[Before(s, b, e.ins.rs1)].ready
                      /\ e.op1.value = s.prf[Before(s, b, e.ins.rs1)].value
    BY <1>3 DEF OperandOK, Current
  <2>2. e.ins.use2 => /\ s.prf[Before(s, b, e.ins.rs2)].ready
                      /\ e.op2.value = s.prf[Before(s, b, e.ins.rs2)].value
    BY <1>3 DEF OperandOK, Current
  <2>3. (~e.ins.use1 => e.op1.value = 0) /\ (~e.ins.use2 => e.op2.value = 0)
    BY <1>3 DEF OperandOK
  <2> QED
    BY <1>3, <2>1, <2>2, <2>3 DEF SourcesReady, FirstSource, SecondSource, SourceValue
<1>20. ResultsOK(t)
  <2>1. ASSUME NEW j \in InFlight(s), t.rob.slot[j].completed
        PROVE  Executed(t, j)
    <3>1. CASE j = b
      <4>1. SourcesReady(t, b) /\ FirstSource(t, b) = e.op1.value /\ SecondSource(t, b) = e.op2.value
        BY <1>3, <1>18, <1>19
      <4>2. Data(t, b).ins = e.ins /\ Data(t, b).prd = e.prd
        BY <1>3, <1>7
      <4> QED
        BY <1>12, <3>1, <4>1, <4>2 DEF Executed, Result, v
    <3>2. CASE j # b
      <4>1. j \in Index /\ s.rob.slot[j].completed /\ Data(t, j) = Data(s, j)
        BY <1>6, <1>7, <2>1, <3>2 DEF InFlight
      <4>2. Executed(s, j)
        BY <1>1, <4>1 DEF ResultsOK
      <4>3. Data(s, j).ins.write => t.prf[Data(s, j).prd] = s.prf[Data(s, j).prd]
        <5>1. ASSUME Data(s, j).ins.write
              PROVE  t.prf[Data(s, j).prd] = s.prf[Data(s, j).prd]
          <6>1. j \in Writers(s) /\ Data(s, j).prd \in Physical
            BY <1>1, <5>1 DEF Writers, WindowOK
          <6>2. e.ins.write => Data(s, j).prd # e.prd
            BY <1>1, <1>10, <3>2, <6>1 DEF OneOwner
          <6> QED
            BY <1>4, <1>11, <6>1, <6>2
        <5> QED
          BY <5>1
      <4> QED
        BY <1>18, <4>1, <4>2, <4>3 DEF Executed
    <3> QED
      BY <3>1, <3>2
  <2> QED
    BY <1>7, <2>1 DEF ResultsOK
<1>21. \A x \in IQSlot : x # q => (t.iq[x].valid <=> s.iq[x].valid)
       /\ (t.iq[x].valid => t.iq[x].rob = s.iq[x].rob)
  <2> TAKE x \in IQSlot
  <2>1. CASE e.ins.write /\ x # q /\ s.iq[x].valid
    <3>1. s.iq[x] \in EntrySet
      <4>1. FreeSlot.valid = FALSE
        BY DEF FreeSlot
      <4> QED
        BY <1>5, <2>1, <4>1
    <3> QED
      BY <1>2, <2>1, <3>1, WakedEntryFields
  <2>2. CASE e.ins.write /\ x # q /\ ~s.iq[x].valid
    BY <1>2, <2>2
  <2>3. CASE ~e.ins.write
    BY <1>2, <2>3
  <2> QED
    BY <1>4, <2>1, <2>2, <2>3
<1>22. \A op \in OperandSet, j \in InFlight(s), used \in BOOLEAN, a \in Reg :
          OperandOK(s, j, op, used, a) =>
             OperandOK(t, j, IF e.ins.write THEN Waked(op, e.prd, v) ELSE op, used, a)
  <2> SUFFICES ASSUME NEW op \in OperandSet, NEW j \in InFlight(s), NEW used \in BOOLEAN,
                      NEW a \in Reg, OperandOK(s, j, op, used, a)
               PROVE  OperandOK(t, j, IF e.ins.write THEN Waked(op, e.prd, v) ELSE op, used, a)
    OBVIOUS
  <2>1. Before(t, j, a) = Before(s, j, a) /\ op.reg \in Physical
    BY <1>9 DEF OperandSet
  <2>2. CASE ~e.ins.write
    BY <1>11, <2>1, <2>2 DEF OperandOK, Current
  <2>3. CASE e.ins.write /\ (op.ready \/ op.reg # e.prd)
    <3>1. Waked(op, e.prd, v) = op
      BY <2>3 DEF Waked
    <3>2. used => t.prf[op.reg] = s.prf[op.reg]
      <4>1. used /\ op.ready => s.prf[op.reg].ready
        BY DEF OperandOK, Current
      <4> QED
        BY <1>11, <2>1, <2>3, <4>1
    <3> QED
      BY <2>1, <2>3, <3>1, <3>2 DEF OperandOK, Current
  <2>4. CASE e.ins.write /\ ~op.ready /\ op.reg = e.prd
    <3>1. Waked(op, e.prd, v) = [reg |-> e.prd, ready |-> TRUE, value |-> v]
      BY <2>4 DEF Waked
    <3>2. used
      BY <2>4 DEF OperandOK
    <3>3. op.reg = Before(s, j, a)
      BY <3>2 DEF OperandOK, Current
    <3> DEFINE w == Waked(op, e.prd, v)
    <3>4. w.reg = e.prd /\ w.ready = TRUE /\ w.value = v
      BY <3>1
    <3> HIDE DEF w
    <3>5. Current(t, j, w, a)
      BY <1>12, <2>1, <2>4, <3>3, <3>4 DEF Current
    <3> QED
      BY <2>4, <3>2, <3>5 DEF OperandOK, w
  <2> QED
    BY <1>4, <2>2, <2>3, <2>4
<1>23. QueueOK(t)
  <2>1. ASSUME NEW x \in IQSlot, t.iq[x].valid
        PROVE  EntryOK(t, t.iq[x])
    <3> DEFINE f == s.iq[x]
               w == t.iq[x]
    <3>1. x # q /\ f.valid /\ f \in EntrySet
      <4>1. FreeSlot.valid = FALSE
        BY DEF FreeSlot
      <4> QED
        BY <1>2, <1>5, <1>21, <2>1, <4>1
    <3>2. EntryOK(s, f) /\ f.rob # b
      BY <1>1, <3>1 DEF QueueOK, b, e
    <3>3. /\ w.rob = f.rob /\ w.ins = f.ins /\ w.prd = f.prd
          /\ w.op1 = (IF e.ins.write THEN Waked(f.op1, e.prd, v) ELSE f.op1)
          /\ w.op2 = (IF e.ins.write THEN Waked(f.op2, e.prd, v) ELSE f.op2)
      <4>1. CASE e.ins.write
        <5>1. w = WakedEntry(f, e.prd, v) /\ e.prd \in Physical
          BY <1>2, <3>1, <4>1
        <5> HIDE DEF w, f
        <5> QED
          BY <1>2, <3>1, <4>1, <5>1, WakedEntryFields
      <4>2. CASE ~e.ins.write
        BY <1>2, <3>1, <4>2
      <4> QED
        BY <1>4, <4>1, <4>2
    <3>4. /\ f.ins \in Instruction /\ f.op1 \in OperandSet /\ f.op2 \in OperandSet
          /\ f.ins.use1 \in BOOLEAN /\ f.ins.use2 \in BOOLEAN
          /\ f.ins.rs1 \in Reg /\ f.ins.rs2 \in Reg
      BY <3>1, InstructionAssumption DEF EntrySet
    <3> HIDE DEF w, f
    <3>5. f.rob \in InFlight(s) /\ f.rob \in Index
      BY <3>2 DEF EntryOK, InFlight
    <3>6. w.rob \in InFlight(t) /\ ~t.rob.slot[w.rob].completed
          /\ w.ins = Data(t, w.rob).ins /\ w.prd = Data(t, w.rob).prd
      BY <1>6, <1>7, <3>2, <3>3, <3>5 DEF EntryOK
    <3>7. /\ OperandOK(t, w.rob, w.op1, w.ins.use1, w.ins.rs1)
          /\ OperandOK(t, w.rob, w.op2, w.ins.use2, w.ins.rs2)
      BY <1>22, <3>2, <3>3, <3>4, <3>5 DEF EntryOK
    <3> QED
      BY <3>6, <3>7 DEF EntryOK, w
  <2>2. \A x, y \in IQSlot : t.iq[x].valid /\ t.iq[y].valid /\ t.iq[x].rob = t.iq[y].rob => x = y
    BY <1>1, <1>2, <1>21 DEF QueueOK
  <2> QED
    BY <2>1, <2>2 DEF QueueOK
<1>24. ASSUME NEW j \in InFlight(s), j # b \/ ~e.ins.branch
       PROVE  Item(t, j) = Item(s, j)
  <2>1. j \in Index /\ Data(t, j) = Data(s, j)
    BY <1>7 DEF InFlight
  <2>2. CASE j = b
    BY <1>3, <1>24, <2>1, <2>2 DEF Item
  <2>3. CASE j # b
    <3>1. t.rob.slot[j].completed = s.rob.slot[j].completed
      BY <1>6, <2>1, <2>3
    <3>2. s.rob.slot[j].completed => SourcesReady(s, j)
      BY <1>1 DEF ResultsOK, Executed
    <3> QED
      BY <1>18, <2>1, <3>1, <3>2 DEF Item
  <2> QED
    BY <2>2, <2>3
<1>25. /\ Item(t, b).ins = e.ins
       /\ e.ins.branch => Item(t, b).decided = {Taken(e.ins, e.op1.value, e.op2.value)}
  <2>1. FirstSource(t, b) = e.op1.value /\ SecondSource(t, b) = e.op2.value
        /\ Data(t, b).ins = e.ins
    BY <1>3, <1>7, <1>18, <1>19
  <2> QED
    BY <1>7, <2>1 DEF Item
<1>26. RegsOf(t) = RegsOf(s)
  <2>1. \A a \in Reg : t.prf[Home(t, a)].value = s.prf[Home(s, a)].value
    BY <1>1, <1>9, <1>11 DEF ReadyOK
  <2> QED
    BY <2>1 DEF RegsOf
<1>27. \A x \in IQSlot : x # q /\ s.iq[x].valid /\ Ready(s.iq[x]) => t.iq[x] = s.iq[x]
  <2> SUFFICES ASSUME NEW x \in IQSlot, x # q, s.iq[x].valid, Ready(s.iq[x])
               PROVE  t.iq[x] = s.iq[x]
    OBVIOUS
  <2>1. s.iq[x] \in EntrySet /\ s.iq[x].op1.ready /\ s.iq[x].op2.ready
    <3>1. FreeSlot.valid = FALSE
      BY DEF FreeSlot
    <3> QED
      BY <1>5, <3>1 DEF Ready
  <2>2. CASE e.ins.write
    BY <1>2, <2>1, <2>2, WakedReady
  <2>3. CASE ~e.ins.write
    BY <1>2, <2>3
  <2> QED
    BY <1>4, <2>2, <2>3
<1>28. IInv(t)
  BY <1>2, <1>13, <1>14, <1>15, <1>16, <1>17, <1>20, <1>23 DEF IInv
<1>29. \A j \in InFlight(s) : Position(t.rob, j) = Position(s.rob, j)
  BY <1>7 DEF InFlight
<1> QED
  BY <1>2, <1>3, <1>7, <1>24, <1>25, <1>26, <1>27, <1>28, <1>29, ZenonT(30) DEF t, e, b
-----------------------------------------------------------------------------
(* The head retires. *)

LEMMA RetireFields ==
    ASSUME NEW s \in StateSet, WindowOK(s), CanCommit(s.rob)
    PROVE  LET t == Retire(s)
               h == s.rob.head
           IN  /\ t \in StateSet /\ t.rat = s.rat /\ t.prf = s.prf /\ t.iq = s.iq
               /\ t.rob = Commit(s.rob)
               /\ Data(s, h).ins.write  => t.free = <<Data(s, h).old>> \o s.free
               /\ ~Data(s, h).ins.write => t.free = s.free
<1> DEFINE t == Retire(s)
           h == s.rob.head
           T == [valid : BOOLEAN, completed : BOOLEAN, data : DataSet \cup {NoData}]
           r == Commit(s.rob)
           free == IF Data(s, h).ins.write THEN <<Data(s, h).old>> \o s.free ELSE s.free
<1>1. /\ s.rob \in RingSet /\ s.free \in Seq(Physical) /\ h \in Index
      /\ s.rob.slot \in [Index -> T] /\ s.rob.tail \in Index /\ s.rob.count \in 0 .. Capacity
  BY DEF StateSet, RingSet
<1>2. h \in InFlight(s) /\ s.rob.count # 0
  BY <1>1 DEF CanCommit, WindowOK, InFlight, Empty
<1>3. r \in RingSet
  <2>1. EmptyEntry \in T
    BY DEF EmptyEntry
  <2>2. [s.rob.slot EXCEPT ![h] = EmptyEntry] \in [Index -> T]
    BY <1>1, <2>1
  <2>3. NextIndex(h) \in Index /\ s.rob.count - 1 \in 0 .. Capacity
    BY <1>1, <1>2, NextIndexValue, CapacityAssumption
  <2> QED
    BY <1>1, <2>2, <2>3 DEF Commit, RingSet
<1>4. free \in Seq(Physical)
  <2>1. CASE Data(s, h).ins.write
    <3>1. Data(s, h).old \in Physical
      BY <1>2, <2>1 DEF WindowOK
    <3> QED
      BY <1>1, <2>1, <3>1
  <2>2. CASE ~Data(s, h).ins.write
    BY <1>1, <2>2
  <2> QED
    BY <2>1, <2>2
<1>5. t = [s EXCEPT !.rob = r, !.free = free]
  BY DEF Retire, Data
<1> HIDE DEF r, free
<1>6. /\ t \in StateSet /\ t.rat = s.rat /\ t.prf = s.prf /\ t.iq = s.iq
      /\ t.rob = r /\ t.free = free
  BY <1>3, <1>4, <1>5 DEF StateSet
<1> QED
  BY <1>6 DEF r, free

LEMMA RetireKeeps ==
    ASSUME NEW s, IInv(s), CanCommit(s.rob)
    PROVE  LET t == Retire(s)
               h == s.rob.head
               i == Data(s, h).ins
           IN  /\ IInv(t)
               /\ t.rob.count = s.rob.count - 1 /\ h \in InFlight(s) /\ Position(s.rob, h) = 0
               /\ InFlight(t) = InFlight(s) \ {h}
               /\ \A j \in InFlight(t) : /\ Item(t, j) = Item(s, j)
                                         /\ Position(t.rob, j) = Position(s.rob, j) - 1
               /\ Item(s, h).ins = i
               /\ i.branch => Item(s, h).decided =
                     {Taken(i, Program!First(i, RegsOf(s)), Program!Second(i, RegsOf(s)))}
               /\ RegsOf(t) = Program!Effect(i, RegsOf(s))
<1> DEFINE t == Retire(s)
           h == s.rob.head
           d == Data(s, h)
           i == d.ins
           c == s.rob.count
<1>1. /\ s \in StateSet /\ WindowOK(s) /\ AllTracked(s) /\ Checkpoints(s) /\ EveryRegisterOwned(s)
      /\ OneOwner(s) /\ ReadyOK(s) /\ ResultsOK(s) /\ QueueOK(s)
  BY DEF IInv
<1>2. /\ t \in StateSet /\ t.rat = s.rat /\ t.prf = s.prf /\ t.iq = s.iq /\ t.rob = Commit(s.rob)
      /\ i.write  => t.free = <<d.old>> \o s.free
      /\ ~i.write => t.free = s.free
  BY <1>1, RetireFields
<1>3. InOrder(s.rob) /\ ~Empty(s.rob) /\ h \in Index /\ c \in 1 .. Capacity
  BY <1>1 DEF CanCommit, WindowOK, InOrder, Empty
<1>4. /\ InWindow(s.rob, h) /\ Position(s.rob, h) = 0
      /\ InOrder(t.rob) /\ t.rob.count = c - 1
      /\ \A j \in Index : /\ InWindow(t.rob, j) <=> InWindow(s.rob, j) /\ j # h
                          /\ j # h => /\ Position(t.rob, j) = Position(s.rob, j) - 1
                                      /\ t.rob.slot[j] = s.rob.slot[j]
      /\ t.rob.slot[h] = EmptyEntry
  BY <1>2, <1>3, CommitAges
<1>5. /\ h \in InFlight(s) /\ InFlight(t) = InFlight(s) \ {h}
      /\ \A j \in InFlight(t) : /\ Data(t, j) = Data(s, j) /\ j # h /\ j \in Index /\ j \in InFlight(s)
                                /\ t.rob.slot[j] = s.rob.slot[j]
                                /\ Position(t.rob, j) = Position(s.rob, j) - 1
  BY <1>3, <1>4 DEF InFlight, Data
<1>6. \A j \in InFlight(s) : /\ j \in Index /\ Position(s.rob, j) \in Nat
                             /\ Position(s.rob, j) < c
                             /\ (j # h => Position(s.rob, j) >= 1)
                             /\ Data(s, j).ins \in Instruction
  <2>1. \A j \in InFlight(s) : /\ j \in Index /\ Position(s.rob, j) \in 0 .. c
                               /\ Position(s.rob, j) < c /\ Data(s, j).ins \in Instruction
    BY <1>1, PositionsBelow DEF WindowOK, DataSet
  <2>2. \A j \in InFlight(s) : Position(s.rob, j) = 0 => j = h
    BY <1>3, <1>4, <2>1, PositionInjective
  <2> QED
    BY <1>3, <2>1, <2>2
<1>7. /\ i \in Instruction /\ i.write \in BOOLEAN /\ i.rd \in Reg /\ i.rs1 \in Reg /\ i.rs2 \in Reg
      /\ s.rob.slot[h].completed
      /\ i.write => h \in Writers(s) /\ d.prd \in Physical /\ d.old \in Physical
  <2>1. i \in Instruction
    BY <1>5, <1>6
  <2>2. h \in InFlight(s)
    BY <1>5
  <2> HIDE DEF i
  <2>3. i.write => h \in Writers(s) /\ d.prd \in Physical /\ d.old \in Physical
    BY <1>1, <2>2 DEF WindowOK, Writers, i
  <2> QED
    BY <2>1, <2>3, InstructionAssumption DEF CanCommit
<1> HIDE DEF t, h, d, i, c
<1>8. Writers(t) = Writers(s) \ {h}
  BY <1>5 DEF Writers
<1>9. \A k \in Nat, a \in Reg : Mapping(t, k, a) = Mapping(s, k + 1, a)
  <2> TAKE k \in Nat, a \in Reg
  <2>1. \A j \in Writers(t) : Position(t.rob, j) >= k <=> Position(s.rob, j) >= k + 1
    BY <1>5, <1>6 DEF Writers
  <2>2. \A j \in Writers(s) : Position(s.rob, j) >= k + 1 => j \in Writers(t)
    BY <1>4, <1>6, <1>8 DEF Writers
  <2>3. \A j \in Writers(t) : Data(t, j) = Data(s, j) /\ j \in Writers(s)
                              /\ Position(s.rob, j) = Position(t.rob, j) + 1
    BY <1>5, <1>6, <1>8 DEF Writers
  <2>4. LaterWriters(t, k, a) = LaterWriters(s, k + 1, a)
    BY <2>1, <2>2, <2>3 DEF LaterWriters
  <2>5. \A j \in LaterWriters(t, k, a) : /\ Position(s.rob, j) = Position(t.rob, j) + 1
                                         /\ Data(s, j).old = Data(t, j).old
    BY <2>3 DEF LaterWriters
  <2>6. s.rob.head \in Index /\ t.rob.head \in Index /\ t.rat[a] = s.rat[a]
    BY <1>2, <1>3, <1>4 DEF InOrder
  <2> QED
    BY <2>4, <2>5, <2>6, MappingAlike
<1>10. \A a \in Reg : /\ i.write /\ i.rd = a => Home(s, a) = d.old /\ Home(t, a) = d.prd
                      /\ ~(i.write /\ i.rd = a) => Home(t, a) = Home(s, a)
  <2> TAKE a \in Reg
  <2>1. Home(s, a) = IF i.write /\ i.rd = a THEN d.old ELSE Mapping(s, 1, a)
    <3>1. Mapping(s, 0, a) = IF h \in Writers(s) /\ Data(s, h).ins.rd = a THEN Data(s, h).old
                             ELSE Mapping(s, 0 + 1, a)
      BY <1>1, <1>4, <1>5, MappingStep
    <3>2. h \in Writers(s) <=> i.write
      BY <1>5 DEF Writers, i, d
    <3> QED
      BY <3>1, <3>2 DEF Home, i, d
  <2>2. Home(t, a) = Mapping(s, 1, a)
    BY <1>9 DEF Home
  <2>3. i.write /\ i.rd = a => Mapping(s, 1, a) = d.prd
    <3> SUFFICES ASSUME i.write, i.rd = a
                 PROVE  Mapping(s, 1, a) = d.prd
      OBVIOUS
    <3>1. Tracked(s, 1, a)
      BY <1>1, <1>3 DEF AllTracked, c
    <3>2. h \in Writers(s) /\ Data(s, h).ins.rd = a /\ ~(Position(s.rob, h) >= 1)
      BY <1>4, <1>7 DEF i, d
    <3>3. PICK j \in Writers(s) : Position(s.rob, j) < 1 /\ Mapping(s, 1, a) = Data(s, j).prd
      BY <3>1, <3>2 DEF Tracked
    <3>4. j = h
      BY <1>6, <3>3 DEF Writers
    <3> QED
      BY <3>3, <3>4 DEF d
  <2> QED
    BY <2>1, <2>2, <2>3
<1>11. \A j \in InFlight(t), a \in Reg : Before(t, j, a) = Before(s, j, a)
  BY <1>5, <1>6, <1>9 DEF Before
<1>12. WindowOK(t)
  <2>1. \A j \in Index : t.rob.slot[j].valid <=> InWindow(t.rob, j)
    <3>1. EmptyEntry.valid = FALSE
      BY DEF EmptyEntry
    <3> QED
      BY <1>1, <1>4, <3>1 DEF WindowOK
  <2>2. \A j \in InFlight(t) : /\ Data(t, j) \in DataSet
                               /\ Data(t, j).ins.write => Data(t, j).prd \in Physical
                                                          /\ Data(t, j).old \in Physical
    BY <1>1, <1>5 DEF WindowOK
  <2> QED
    BY <1>4, <2>1, <2>2 DEF WindowOK
<1>13. AllTracked(t)
  <2> SUFFICES ASSUME NEW k \in 0 .. t.rob.count, NEW a \in Reg
               PROVE  Tracked(t, k, a)
    BY DEF AllTracked
  <2>1. k \in Nat /\ k + 1 \in 0 .. c
    BY <1>3, <1>4
  <2>2. Tracked(s, k + 1, a)
    BY <1>1, <2>1 DEF AllTracked, c
  <2>3. Mapping(t, k, a) = Mapping(s, k + 1, a)
    BY <1>9, <2>1
  <2>4. \A l \in Writers(t) : l \in Writers(s) /\ Data(t, l) = Data(s, l) /\ l # h
                              /\ Position(t.rob, l) = Position(s.rob, l) - 1
                              /\ Position(s.rob, l) \in Nat
    BY <1>5, <1>6, <1>8 DEF Writers
  <2>5. CASE /\ Mapping(s, k + 1, a) = Home(s, a)
             /\ \A j \in Writers(s) : Data(s, j).ins.rd = a => Position(s.rob, j) >= k + 1
    <3>1. ~(i.write /\ i.rd = a)
      <4>1. ~(Position(s.rob, h) >= k + 1)
        BY <1>4, <2>1
      <4> QED
        BY <1>7, <2>5, <4>1 DEF i, d
    <3>2. Mapping(t, k, a) = Home(t, a)
      BY <1>10, <2>3, <2>5, <3>1
    <3>3. \A j \in Writers(t) : Data(t, j).ins.rd = a => Position(t.rob, j) >= k
      BY <2>1, <2>4, <2>5
    <3> QED
      BY <3>2, <3>3 DEF Tracked
  <2>6. CASE \E j \in Writers(s) :
                /\ Data(s, j).ins.rd = a /\ Position(s.rob, j) < k + 1
                /\ Mapping(s, k + 1, a) = Data(s, j).prd
                /\ \A l \in Writers(s) : Data(s, l).ins.rd = a /\ Position(s.rob, l) < k + 1
                                           => Position(s.rob, l) <= Position(s.rob, j)
    <3>1. PICK j \in Writers(s) :
                /\ Data(s, j).ins.rd = a /\ Position(s.rob, j) < k + 1
                /\ Mapping(s, k + 1, a) = Data(s, j).prd
                /\ \A l \in Writers(s) : Data(s, l).ins.rd = a /\ Position(s.rob, l) < k + 1
                                           => Position(s.rob, l) <= Position(s.rob, j)
      BY <2>6
    <3>2. CASE j = h
      <4>1. i.write /\ i.rd = a
        BY <3>1, <3>2 DEF Writers, i, d
      <4>2. Mapping(t, k, a) = Home(t, a)
        BY <1>10, <2>3, <3>1, <3>2, <4>1 DEF d
      <4>3. ASSUME NEW l \in Writers(t), Data(t, l).ins.rd = a, ~(Position(t.rob, l) >= k)
            PROVE  FALSE
        <5>1. l \in Writers(s) /\ Data(s, l).ins.rd = a /\ Position(s.rob, l) < k + 1
          BY <2>1, <2>4, <4>3
        <5>2. Position(s.rob, l) <= 0
          BY <1>4, <3>1, <3>2, <5>1
        <5>3. l \in InFlight(s) /\ l # h
          BY <2>4 DEF Writers
        <5> QED
          BY <1>6, <5>2, <5>3
      <4> QED
        BY <4>2, <4>3 DEF Tracked
    <3>3. CASE j # h
      <4>1. j \in Writers(t)
        BY <1>8, <3>3
      <4>2. /\ Data(t, j).ins.rd = a /\ Position(t.rob, j) < k
            /\ Mapping(t, k, a) = Data(t, j).prd
        BY <2>1, <2>3, <2>4, <3>1, <4>1
      <4>3. ASSUME NEW l \in Writers(t), Data(t, l).ins.rd = a, Position(t.rob, l) < k
            PROVE  Position(t.rob, l) <= Position(t.rob, j)
        <5>1. l \in Writers(s) /\ Data(s, l).ins.rd = a /\ Position(s.rob, l) < k + 1
          BY <2>1, <2>4, <4>3
        <5>2. Position(s.rob, l) <= Position(s.rob, j)
          BY <3>1, <5>1
        <5> QED
          BY <2>4, <4>1, <5>2
      <4> QED
        BY <4>1, <4>2, <4>3 DEF Tracked
    <3> QED
      BY <3>2, <3>3
  <2> QED
    BY <2>2, <2>5, <2>6 DEF Tracked
<1>14. Checkpoints(t)
  <2> SUFFICES ASSUME NEW j \in InFlight(t), Data(t, j).ins.branch
               PROVE  Data(t, j).cp = [a \in Reg |-> Mapping(t, Position(t.rob, j) + 1, a)]
    BY DEF Checkpoints
  <2>1. /\ Data(t, j) = Data(s, j) /\ j \in InFlight(s)
        /\ Position(t.rob, j) + 1 \in Nat /\ (Position(t.rob, j) + 1) + 1 = Position(s.rob, j) + 1
    BY <1>5, <1>6
  <2>2. Data(s, j).cp = [a \in Reg |-> Mapping(s, Position(s.rob, j) + 1, a)]
    BY <1>1, <2>1 DEF Checkpoints
  <2>3. \A a \in Reg : Mapping(t, Position(t.rob, j) + 1, a) = Mapping(s, Position(s.rob, j) + 1, a)
    BY <1>9, <2>1
  <2> QED
    BY <2>1, <2>2, <2>3
<1>15. \A j \in Writers(t) : j \in Writers(s) /\ Data(t, j) = Data(s, j) /\ j # h
                             /\ t.rob.slot[j] = s.rob.slot[j]
  BY <1>5, <1>8 DEF Writers
<1>16. EveryRegisterOwned(t) /\ OneOwner(t)
  <2>1. CASE ~i.write
    <3>1. t.free = s.free /\ \A a \in Reg : Home(t, a) = Home(s, a)
      BY <1>2, <1>10, <2>1
    <3>2. Writers(t) = Writers(s)
      BY <1>8, <2>1 DEF Writers, i, d
    <3> QED
      BY <1>1, <1>15, <3>1, <3>2 DEF EveryRegisterOwned, OneOwner
  <2>2. CASE i.write
    <3>1. t.free = <<d.old>> \o s.free /\ s.free \in Seq(Physical) /\ h \in Writers(s)
      BY <1>1, <1>2, <1>7, <2>2 DEF StateSet
    <3>2. /\ DOMAIN s.free = 1 .. Len(s.free) /\ Len(s.free) \in Nat
          /\ DOMAIN t.free = 1 .. Len(s.free) + 1
          /\ t.free[1] = d.old
          /\ \A m \in 1 .. Len(s.free) : t.free[m + 1] = s.free[m]
      BY <1>7, <2>2, <3>1
    <3>3. /\ \A m \in DOMAIN t.free : m = 1 \/ (m - 1 \in DOMAIN s.free /\ t.free[m] = s.free[m - 1])
          /\ 1 \in DOMAIN t.free
          /\ \A m \in DOMAIN s.free : m + 1 \in DOMAIN t.free /\ t.free[m + 1] = s.free[m]
      <4>1. \A m \in DOMAIN t.free : m # 1 => m - 1 \in 1 .. Len(s.free) /\ (m - 1) + 1 = m
        BY <3>2
      <4>2. \A m \in DOMAIN t.free : m # 1 => m - 1 \in DOMAIN s.free /\ t.free[m] = s.free[m - 1]
        BY <3>2, <4>1, Zenon
      <4>3. 1 \in 1 .. Len(s.free) + 1 /\ \A m \in 1 .. Len(s.free) : m + 1 \in 1 .. Len(s.free) + 1
        BY <3>2
      <4> QED
        BY <3>2, <4>2, <4>3, Zenon
    <3>4. /\ Home(s, i.rd) = d.old /\ Home(t, i.rd) = d.prd
          /\ \A a \in Reg : a # i.rd => Home(t, a) = Home(s, a)
      BY <1>7, <1>10, <2>2
    <3>5. EveryRegisterOwned(t)
      <4> SUFFICES ASSUME NEW x \in Physical
                   PROVE  \/ \E l \in DOMAIN t.free : t.free[l] = x
                          \/ \E j \in Writers(t) : Data(t, j).prd = x
                          \/ \E a \in Reg : Home(t, a) = x
        BY DEF EveryRegisterOwned
      <4>1. CASE \E m \in DOMAIN s.free : s.free[m] = x
        BY <3>3, <4>1
      <4>2. CASE \E j \in Writers(s) : Data(s, j).prd = x
        <5>1. PICK j \in Writers(s) : Data(s, j).prd = x
          BY <4>2
        <5>2. CASE j = h
          BY <1>7, <3>4, <5>1, <5>2 DEF d
        <5>3. CASE j # h
          BY <1>8, <1>15, <5>1, <5>3
        <5> QED
          BY <5>2, <5>3
      <4>3. CASE \E a \in Reg : Home(s, a) = x
        <5>1. PICK a \in Reg : Home(s, a) = x
          BY <4>3
        <5>2. CASE a = i.rd
          BY <3>2, <3>3, <3>4, <5>1, <5>2
        <5>3. CASE a # i.rd
          BY <3>4, <5>1, <5>3
        <5> QED
          BY <5>2, <5>3
      <4> QED
        BY <1>1, <4>1, <4>2, <4>3 DEF EveryRegisterOwned
    <3>6. OneOwner(t)
      <4>1. \A m \in DOMAIN s.free : s.free[m] # d.old /\ s.free[m] # d.prd
        BY <1>1, <1>7, <3>1, <3>4 DEF OneOwner, d
      <4>2. ASSUME NEW m \in DOMAIN t.free, NEW l \in DOMAIN t.free, t.free[m] = t.free[l]
            PROVE  m = l
        <5>1. m \in Int /\ l \in Int
          BY <3>2
        <5>2. CASE m = 1 \/ l = 1
          BY <3>2, <3>3, <4>1, <4>2, <5>2
        <5>3. CASE m # 1 /\ l # 1
          <6>1. m - 1 = l - 1
            BY <1>1, <3>3, <4>2, <5>3 DEF OneOwner
          <6> QED
            BY <5>1, <6>1
        <5> QED
          BY <5>2, <5>3
      <4>3. \A j, l \in Writers(t) : Data(t, j).prd = Data(t, l).prd => j = l
        BY <1>1, <1>15 DEF OneOwner
      <4>4. \A j \in Writers(t) : Data(t, j).prd # d.prd /\ Data(t, j).prd # d.old
        <5>1. \A j \in Writers(t) : Data(s, j).prd # Data(s, h).prd
          BY <1>1, <1>15, <3>1 DEF OneOwner
        <5>2. \A j \in Writers(t) : Data(s, j).prd # Home(s, i.rd)
          BY <1>1, <1>7, <1>15 DEF OneOwner
        <5> QED
          BY <1>15, <3>4, <5>1, <5>2 DEF d
      <4>5. \A a \in Reg : a # i.rd => Home(s, a) # d.old
        BY <1>1, <1>7, <3>4 DEF OneOwner
      <4>6. \A a \in Reg : Home(s, a) # d.prd
        BY <1>1, <3>1 DEF OneOwner, d
      <4>7. d.old # d.prd
        BY <1>7, <3>4, <4>6
      <4>8. \A a, b \in Reg : Home(t, a) = Home(t, b) => a = b
        BY <1>1, <3>4, <4>6 DEF OneOwner
      <4>9. ASSUME NEW m \in DOMAIN t.free
            PROVE  /\ \A j \in Writers(t) : Data(t, j).prd # t.free[m]
                   /\ \A a \in Reg : Home(t, a) # t.free[m]
        <5>1. CASE m = 1
          BY <3>2, <3>4, <4>4, <4>5, <4>7, <5>1
        <5>2. CASE m # 1
          <6>1. m - 1 \in DOMAIN s.free /\ t.free[m] = s.free[m - 1]
            BY <3>3, <5>2
          <6>2. \A j \in Writers(t) : Data(t, j).prd # t.free[m]
            BY <1>1, <1>15, <6>1 DEF OneOwner
          <6>3. \A a \in Reg : Home(t, a) # t.free[m]
            BY <1>1, <3>4, <4>1, <6>1 DEF OneOwner
          <6> QED
            BY <6>2, <6>3
        <5> QED
          BY <5>1, <5>2
      <4>10. \A j \in Writers(t), a \in Reg : Data(t, j).prd # Home(t, a)
        BY <1>1, <1>15, <3>4, <4>4 DEF OneOwner
      <4> QED
        BY <4>2, <4>3, <4>8, <4>9, <4>10 DEF OneOwner
    <3> QED
      BY <3>5, <3>6
  <2> QED
    BY <1>7, <2>1, <2>2
<1>17. ReadyOK(t)
  <2>1. i.write => s.prf[d.prd].ready
    BY <1>1, <1>7 DEF ReadyOK, d
  <2>2. \A a \in Reg : t.prf[Home(t, a)].ready
    BY <1>1, <1>2, <1>10, <2>1 DEF ReadyOK
  <2>3. \A j \in Writers(t) : t.prf[Data(t, j).prd].ready = t.rob.slot[j].completed
    BY <1>1, <1>2, <1>15 DEF ReadyOK
  <2> QED
    BY <2>2, <2>3 DEF ReadyOK
<1>18. \A j \in InFlight(t) : /\ FirstSource(t, j) = FirstSource(s, j)
                              /\ SecondSource(t, j) = SecondSource(s, j)
                              /\ SourcesReady(t, j) <=> SourcesReady(s, j)
                              /\ Item(t, j) = Item(s, j)
  <2> TAKE j \in InFlight(t)
  <2>1. /\ Data(t, j) = Data(s, j) /\ Data(s, j).ins \in Instruction
        /\ t.rob.slot[j].completed = s.rob.slot[j].completed
        /\ \A a \in Reg : /\ Before(t, j, a) = Before(s, j, a)
                          /\ t.prf[Before(s, j, a)] = s.prf[Before(s, j, a)]
    BY <1>2, <1>5, <1>6, <1>11
  <2> QED
    BY <2>1, SameSources
<1>19. ResultsOK(t)
  <2> SUFFICES ASSUME NEW j \in InFlight(t), t.rob.slot[j].completed
               PROVE  Executed(t, j)
    BY DEF ResultsOK
  <2>1. Executed(s, j) /\ Data(t, j) = Data(s, j)
    BY <1>1, <1>5 DEF ResultsOK
  <2> QED
    BY <1>2, <1>18, <2>1 DEF Executed
<1>20. QueueOK(t)
  <2> SUFFICES ASSUME NEW q \in IQSlot, t.iq[q].valid
               PROVE  EntryOK(t, t.iq[q])
    BY <1>1, <1>2 DEF QueueOK
  <2> DEFINE e == s.iq[q]
  <2>1. t.iq[q] = e /\ EntryOK(s, e)
    BY <1>1, <1>2 DEF QueueOK
  <2> HIDE DEF e
  <2>2. e.rob \in InFlight(s) /\ e.rob # h
    BY <1>7, <2>1 DEF EntryOK
  <2>3. e.rob \in InFlight(t) /\ e.ins \in Instruction
    BY <1>5, <1>6, <2>1, <2>2 DEF EntryOK
  <2>4. e.ins.rs1 \in Reg /\ e.ins.rs2 \in Reg
    BY <2>3, InstructionAssumption
  <2>5. \A op, a : a \in Reg /\ Current(s, e.rob, op, a) => Current(t, e.rob, op, a)
    BY <1>2, <1>11, <2>3 DEF Current
  <2>6. /\ OperandOK(t, e.rob, e.op1, e.ins.use1, e.ins.rs1)
        /\ OperandOK(t, e.rob, e.op2, e.ins.use2, e.ins.rs2)
    BY <2>1, <2>4, <2>5 DEF EntryOK, OperandOK
  <2>7. /\ ~t.rob.slot[e.rob].completed
        /\ e.ins = Data(t, e.rob).ins /\ e.prd = Data(t, e.rob).prd
    BY <1>5, <2>1, <2>3 DEF EntryOK
  <2> QED
    BY <2>1, <2>3, <2>6, <2>7 DEF EntryOK
<1>21. Executed(s, h)
  BY <1>1, <1>5, <1>7 DEF ResultsOK
<1>22. \A a \in Reg : Before(s, h, a) = Home(s, a) /\ RegsOf(s)[a] = s.prf[Home(s, a)].value
  BY <1>4 DEF Before, Home, RegsOf
<1>23. /\ FirstSource(s, h) = Program!First(i, RegsOf(s))
       /\ SecondSource(s, h) = Program!Second(i, RegsOf(s))
  BY <1>7, <1>22 DEF FirstSource, SecondSource, SourceValue, Program!First, Program!Second, i, d
<1>24. Item(s, h).ins = i
  BY DEF Item, i, d
<1>25. ASSUME i.branch
       PROVE  Item(s, h).decided =
                 {Taken(i, Program!First(i, RegsOf(s)), Program!Second(i, RegsOf(s)))}
  <2>1. Item(s, h).decided = {Taken(i, FirstSource(s, h), SecondSource(s, h))}
    BY <1>7, <1>25 DEF Item, i, d
  <2> QED
    BY <1>23, <2>1
<1>26. RegsOf(t) = Program!Effect(i, RegsOf(s))
  <2>1. CASE ~i.write
    <3>1. \A a \in Reg : t.prf[Home(t, a)].value = s.prf[Home(s, a)].value
      BY <1>2, <1>10, <2>1
    <3>2. RegsOf(t) = RegsOf(s)
      BY <3>1 DEF RegsOf
    <3> QED
      BY <2>1, <3>2 DEF Program!Effect
  <2>2. CASE i.write
    <3> DEFINE v == Alu(i, Program!First(i, RegsOf(s)), Program!Second(i, RegsOf(s)))
    <3>1. s.prf[d.prd].value = v
      BY <1>21, <1>23, <2>2 DEF Executed, i, d
    <3> HIDE DEF v
    <3>2. \A a \in Reg : t.prf[Home(t, a)].value = IF a = i.rd THEN v
                                                   ELSE s.prf[Home(s, a)].value
      BY <1>2, <1>10, <2>2, <3>1
    <3>3. RegsOf(t) = [RegsOf(s) EXCEPT ![i.rd] = v]
      BY <3>2 DEF RegsOf
    <3> QED
      BY <2>2, <3>3 DEF Program!Effect, v
  <2> QED
    BY <1>7, <2>1, <2>2
<1>27. IInv(t)
  BY <1>2, <1>12, <1>13, <1>14, <1>16, <1>17, <1>19, <1>20 DEF IInv
<1> QED
  BY <1>4, <1>5, <1>18, <1>24, <1>25, <1>26, <1>27 DEF t, h, i, d, c

-----------------------------------------------------------------------------
(* A mispredicted branch recovers. *)

(* Released counts every squashed writer once. *)
LEMMA ReleasedFacts ==
    ASSUME NEW r, r.head \in Index, NEW b \in Index, NEW order \in Released(r, b)
    PROVE  LET W == SquashedWriters(r, b)
               m == Cardinality(W)
           IN  /\ m \in Nat /\ DOMAIN order = 1 .. m
               /\ \A x \in 1 .. m : order[x] \in W
               /\ \A x, y \in 1 .. m : order[x] = order[y] => x = y
               /\ \A i \in W : \E x \in 1 .. m : order[x] = i
<1> DEFINE W == SquashedWriters(r, b)
           m == Cardinality(W)
<1>1. W \subseteq Index
  BY DEF SquashedWriters, Younger
<1>2. IsFiniteSet(W) /\ m \in Nat
  <2>1. IsFiniteSet(Index)
    BY CapacityAssumption, FS_Interval DEF Index
  <2>2. IsFiniteSet(W)
    BY <1>1, <2>1, FS_Subset
  <2> QED
    BY <2>2, FS_CardinalityType
<1>3. order \in [1 .. m -> W]
      /\ \A x, y \in DOMAIN order : x < y => Position(r, order[x]) > Position(r, order[y])
  BY DEF Released
<1> HIDE DEF W, m
<1>4. \A i \in W : Position(r, i) \in Nat
  BY <1>1, PositionValue DEF Index
<1>5. ASSUME NEW x \in 1 .. m, NEW y \in 1 .. m, order[x] = order[y]
      PROVE  x = y
  <2>1. ~(x < y) /\ ~(y < x)
    BY <1>3, <1>4, <1>5
  <2> QED
    BY <1>2, <2>1
<1>6. order \in Injection(1 .. m, W)
  BY <1>3, <1>5 DEF Injection, IsInjective
<1>7. Cardinality(1 .. m) = m
  BY <1>2, FS_Interval
<1>8. order \in Surjection(1 .. m, W)
  BY <1>2, <1>6, <1>7, FS_Injection DEF m
<1>9. \A i \in W : \E x \in 1 .. m : order[x] = i
  BY <1>8 DEF Surjection
<1> QED
  BY <1>2, <1>3, <1>5, <1>9 DEF W, m

(* The mapping up to the branch is the one of before; its end is what the   *)
(* branch took along. *)
LEMMA RecoverMapping ==
    ASSUME NEW s \in StateSet, WindowOK(s), NEW t, NEW b \in InFlight(s),
           t.rob.head = s.rob.head,
           InFlight(t) = {i \in InFlight(s) : Position(s.rob, i) <= Position(s.rob, b)},
           \A i \in InFlight(t) : t.rob.slot[i] = s.rob.slot[i],
           \A a \in Reg : t.rat[a] = Mapping(s, Position(s.rob, b) + 1, a),
           NEW k \in 0 .. Position(s.rob, b) + 1, NEW a \in Reg
    PROVE  Mapping(t, k, a) = Mapping(s, k, a)
<1> DEFINE n == Position(s.rob, b)
           L == LaterWriters(t, k, a)
<1>1. s.rob.head \in Index /\ n \in Nat /\ k \in Nat /\ k <= n + 1
      /\ \A i \in InFlight(s) : Position(s.rob, i) \in Nat
  <2>1. \A i \in InFlight(s) : Position(s.rob, i) \in Nat
    BY PositionsBelow DEF WindowOK
  <2> QED
    BY <2>1 DEF WindowOK, InOrder
<1>2. \A i : Position(t.rob, i) = Position(s.rob, i)
  BY DEF Position
<1>3. \A i \in InFlight(t) : Data(t, i) = Data(s, i)
  BY DEF Data
<1>4. L = {i \in LaterWriters(s, k, a) : Position(s.rob, i) <= n}
  BY <1>2, <1>3 DEF LaterWriters, Writers
<1>5. CASE L = {}
  <2>1. LaterWriters(s, k, a) = LaterWriters(s, n + 1, a)
    <3>1. \A i \in Writers(s) : Position(s.rob, i) \in Nat
      BY <1>1 DEF Writers
    <3>2. \A i \in LaterWriters(s, k, a) : i \in Writers(s) /\ ~(Position(s.rob, i) <= n)
      BY <1>4, <1>5 DEF LaterWriters
    <3> HIDE DEF n, L
    <3>3. \A i \in LaterWriters(s, k, a) : Position(s.rob, i) >= n + 1
      BY <1>1, <3>1, <3>2
    <3>4. \A i \in LaterWriters(s, n + 1, a) : Position(s.rob, i) >= k
      BY <1>1, <3>1 DEF LaterWriters
    <3> QED
      BY <3>3, <3>4 DEF LaterWriters
  <2>2. Mapping(s, k, a) = Mapping(s, n + 1, a)
    BY <2>1 DEF Mapping
  <2> QED
    BY <1>5, <2>2, MappingNone
<1>6. CASE L # {}
  <2>1. t.rob.head \in Index
    BY <1>1
  <2>2. PICK i \in L : /\ \A j \in L : Position(t.rob, i) <= Position(t.rob, j)
                       /\ Mapping(t, k, a) = Data(t, i).old
    BY <1>6, <2>1, MappingCases, Zenon
  <2>3. i \in LaterWriters(s, k, a) /\ Position(s.rob, i) <= n /\ Data(t, i) = Data(s, i)
    BY <1>3, <1>4, <2>2 DEF LaterWriters, Writers
  <2>4. \A j \in LaterWriters(s, k, a) : Position(s.rob, j) \in Nat
    BY <1>1 DEF LaterWriters, Writers
  <2>5. \A j \in LaterWriters(s, k, a) : Position(s.rob, i) <= Position(s.rob, j)
    <3> TAKE j \in LaterWriters(s, k, a)
    <3>1. CASE Position(s.rob, j) <= n
      BY <1>2, <1>4, <2>2, <3>1
    <3>2. CASE ~(Position(s.rob, j) <= n)
      <4> HIDE DEF n, L
      <4> QED
        BY <1>1, <2>3, <2>4, <3>2
    <3> QED
      BY <3>1, <3>2
  <2> QED
    BY <1>1, <2>2, <2>3, <2>5, MappingFirst
<1> QED
  BY <1>5, <1>6

LEMMA RecoverFields ==
    ASSUME NEW s \in StateSet, WindowOK(s), Checkpoints(s), NEW b \in InFlight(s),
           Data(s, b).ins.branch, NEW order \in Released(s.rob, b)
    PROVE  LET t == Recover(s, b, order)
               pushed == [k \in DOMAIN order |-> Data(s, order[k]).prd]
           IN  /\ t \in StateSet /\ t.prf = s.prf
               /\ t.rat = [a \in Reg |-> Mapping(s, Position(s.rob, b) + 1, a)]
               /\ t.rob = SquashYoungerThan(s.rob, b)
               /\ pushed \in Seq(Physical) /\ t.free = pushed \o s.free
               /\ t.iq = IQSquash(s.iq, Younger(s.rob, b))
<1> DEFINE t == Recover(s, b, order)
           pushed == [k \in DOMAIN order |-> Data(s, order[k]).prd]
           after == [a \in Reg |-> Mapping(s, Position(s.rob, b) + 1, a)]
           r == SquashYoungerThan(s.rob, b)
           queue == IQSquash(s.iq, Younger(s.rob, b))
           T == [valid : BOOLEAN, completed : BOOLEAN, data : DataSet \cup {NoData}]
<1>1. /\ s.rob \in RingSet /\ s.free \in Seq(Physical) /\ s.rob.head \in Index
      /\ s.rob.slot \in [Index -> T] /\ s.iq \in [IQSlot -> EntrySet \cup {FreeSlot}]
      /\ b \in Index /\ InWindow(s.rob, b) /\ InOrder(s.rob)
  BY DEF StateSet, RingSet, InFlight, WindowOK
<1>2. after \in [Reg -> Physical] /\ Data(s, b).cp = after
  <2>1. \A a \in Reg : Mapping(s, Position(s.rob, b) + 1, a) \in Physical
    BY MappingType
  <2> QED
    BY <2>1 DEF Checkpoints
<1>3. r \in RingSet
  <2>1. EmptyEntry \in T
    BY DEF EmptyEntry
  <2>2. /\ InOrder(r) /\ r.head = s.rob.head
        /\ \A i \in Index : r.slot[i] = IF i \in Younger(s.rob, b) THEN EmptyEntry ELSE s.rob.slot[i]
    BY <1>1, SquashAges
  <2>3. r = [slot |-> r.slot, head |-> r.head, tail |-> r.tail, count |-> r.count]
        /\ r.slot = [i \in Index |-> IF i \in Younger(s.rob, b) THEN EmptyEntry ELSE s.rob.slot[i]]
    BY <1>1 DEF SquashYoungerThan
  <2>4. r.slot \in [Index -> T]
    <3> HIDE DEF T, r
    <3> QED
      BY <1>1, <2>1, <2>3
  <2> HIDE DEF r
  <2> QED
    BY <1>1, <2>2, <2>3, <2>4 DEF RingSet, InOrder
<1>4. pushed \in Seq(Physical)
  <2>1. DOMAIN order = 1 .. Cardinality(SquashedWriters(s.rob, b))
        /\ Cardinality(SquashedWriters(s.rob, b)) \in Nat
        /\ \A x \in DOMAIN order : order[x] \in SquashedWriters(s.rob, b)
    BY <1>1, ReleasedFacts
  <2>2. \A i \in SquashedWriters(s.rob, b) : Data(s, i).prd \in Physical
    BY DEF SquashedWriters, Younger, WindowOK, InFlight, Data
  <2>3. \A x \in DOMAIN order : Data(s, order[x]).prd \in Physical
    BY <2>1, <2>2
  <2>4. DOMAIN pushed = 1 .. Cardinality(SquashedWriters(s.rob, b))
        /\ \A x \in DOMAIN pushed : pushed[x] \in Physical
    BY <2>1, <2>3
  <2> QED
    BY <2>1, <2>3
<1>5. queue \in [IQSlot -> EntrySet \cup {FreeSlot}]
  BY <1>1 DEF IQSquash
<1>6. pushed \o s.free \in Seq(Physical)
  BY <1>1, <1>4
<1>7. t = [s EXCEPT !.rat = after, !.rob = r, !.free = pushed \o s.free, !.iq = queue]
  BY <1>2 DEF Recover, Data
<1> HIDE DEF after, r, pushed, queue
<1>8. /\ t \in StateSet /\ t.prf = s.prf /\ t.rat = after /\ t.rob = r
      /\ t.free = pushed \o s.free /\ t.iq = queue
  BY <1>2, <1>3, <1>5, <1>6, <1>7 DEF StateSet
<1> QED
  BY <1>4, <1>8 DEF after, r, pushed, queue

LEMMA RecoverKeeps ==
    ASSUME NEW s, IInv(s), NEW b \in InFlight(s), Data(s, b).ins.branch,
           NEW order \in Released(s.rob, b)
    PROVE  LET t == Recover(s, b, order)
               n == Position(s.rob, b)
           IN  /\ IInv(t)
               /\ t.rob.count = n + 1
               /\ InFlight(t) = {i \in InFlight(s) : Position(s.rob, i) <= n}
               /\ \A j \in InFlight(t) : /\ Item(t, j) = Item(s, j)
                                         /\ Position(t.rob, j) = Position(s.rob, j)
               /\ RegsOf(t) = RegsOf(s)
<1> DEFINE t == Recover(s, b, order)
           n == Position(s.rob, b)
           pushed == [k \in DOMAIN order |-> Data(s, order[k]).prd]
           W == SquashedWriters(s.rob, b)
           m == Cardinality(W)
<1>1. /\ s \in StateSet /\ WindowOK(s) /\ AllTracked(s) /\ Checkpoints(s) /\ EveryRegisterOwned(s)
      /\ OneOwner(s) /\ ReadyOK(s) /\ ResultsOK(s) /\ QueueOK(s)
  BY DEF IInv
<1>2. /\ t \in StateSet /\ t.prf = s.prf
      /\ t.rat = [a \in Reg |-> Mapping(s, n + 1, a)]
      /\ t.rob = SquashYoungerThan(s.rob, b)
      /\ pushed \in Seq(Physical) /\ t.free = pushed \o s.free
      /\ t.iq = IQSquash(s.iq, Younger(s.rob, b))
  BY <1>1, RecoverFields
<1>3. InOrder(s.rob) /\ b \in Index /\ InWindow(s.rob, b) /\ s.rob.head \in Index
  BY <1>1 DEF WindowOK, InFlight, InOrder
<1>4. /\ InOrder(t.rob) /\ t.rob.count = n + 1 /\ t.rob.head = s.rob.head
      /\ \A i \in Index :
            /\ Position(t.rob, i) = Position(s.rob, i)
            /\ InWindow(t.rob, i) <=> InWindow(s.rob, i) /\ Position(s.rob, i) <= n
            /\ t.rob.slot[i] = IF i \in Younger(s.rob, b) THEN EmptyEntry ELSE s.rob.slot[i]
  BY <1>2, <1>3, SquashAges
<1>5. /\ m \in Nat /\ DOMAIN order = 1 .. m
      /\ \A x \in 1 .. m : order[x] \in W
      /\ \A x, y \in 1 .. m : order[x] = order[y] => x = y
      /\ \A i \in W : \E x \in 1 .. m : order[x] = i
  BY <1>3, ReleasedFacts
<1> HIDE DEF t, n, m
<1>6. /\ n \in Nat /\ \A i \in InFlight(s) : i \in Index /\ Position(s.rob, i) \in Nat
                                             /\ Data(s, i).ins \in Instruction
  <2>1. \A i \in InFlight(s) : i \in Index /\ Position(s.rob, i) \in Nat
                               /\ Data(s, i).ins \in Instruction
    BY <1>1, PositionsBelow DEF WindowOK, DataSet
  <2> QED
    BY <2>1 DEF n
<1>7. \A i \in Index : i \in Younger(s.rob, b) <=> InWindow(s.rob, i) /\ ~(Position(s.rob, i) <= n)
  <2>1. \A i \in Index : i \in Younger(s.rob, b) <=> InWindow(s.rob, i) /\ Position(s.rob, i) > n
    BY DEF Younger, n
  <2>2. \A i \in Index : Position(s.rob, i) \in Int
    BY <1>3, PositionValue DEF Index
  <2> QED
    BY <1>6, <2>1, <2>2
<1>8. /\ InFlight(t) = {i \in InFlight(s) : Position(s.rob, i) <= n}
      /\ \A i \in InFlight(t) : /\ t.rob.slot[i] = s.rob.slot[i] /\ Data(t, i) = Data(s, i)
                                /\ i \in InFlight(s) /\ i \in Index /\ Position(s.rob, i) <= n
                                /\ Position(t.rob, i) = Position(s.rob, i)
  <2>1. InFlight(t) = {i \in InFlight(s) : Position(s.rob, i) <= n}
    BY <1>4 DEF InFlight
  <2>2. \A i \in InFlight(t) : t.rob.slot[i] = s.rob.slot[i] /\ i \in Index
    BY <1>4, <1>7, <2>1 DEF InFlight
  <2> QED
    BY <1>4, <2>1, <2>2 DEF Data
<1>9. /\ Writers(t) = {i \in Writers(s) : Position(s.rob, i) <= n}
      /\ W = {i \in Writers(s) : ~(Position(s.rob, i) <= n)}
  <2>1. Writers(t) = {i \in Writers(s) : Position(s.rob, i) <= n}
    BY <1>8 DEF Writers
  <2>2. W = {i \in Writers(s) : ~(Position(s.rob, i) <= n)}
    <3>1. Younger(s.rob, b) = {i \in InFlight(s) : ~(Position(s.rob, i) <= n)}
      BY <1>7 DEF Younger, InFlight
    <3> QED
      BY <3>1 DEF SquashedWriters, Writers, Data
  <2> QED
    BY <2>1, <2>2
<1> HIDE DEF W
<1>10. \A k \in 0 .. n + 1, a \in Reg : Mapping(t, k, a) = Mapping(s, k, a)
  <2>1. \A a \in Reg : t.rat[a] = Mapping(s, n + 1, a)
    BY <1>2
  <2> QED
    BY <1>1, <1>4, <1>8, <2>1, RecoverMapping DEF n
<1>11. /\ \A a \in Reg : Home(t, a) = Home(s, a)
       /\ \A j \in InFlight(t), a \in Reg : Before(t, j, a) = Before(s, j, a)
  <2>1. 0 \in 0 .. n + 1 /\ \A j \in InFlight(t) : Position(s.rob, j) \in 0 .. n + 1
    BY <1>6, <1>8
  <2> QED
    BY <1>8, <1>10, <2>1 DEF Home, Before
<1>12. WindowOK(t)
  <2>1. \A j \in Index : t.rob.slot[j].valid <=> InWindow(t.rob, j)
    <3> TAKE j \in Index
    <3>1. EmptyEntry.valid = FALSE
      BY DEF EmptyEntry
    <3>2. CASE j \in Younger(s.rob, b)
      <4>1. t.rob.slot[j].valid = FALSE
        BY <1>4, <3>1, <3>2
      <4> QED
        BY <1>4, <1>7, <3>2, <4>1
    <3>3. CASE j \notin Younger(s.rob, b)
      <4>1. t.rob.slot[j] = s.rob.slot[j]
        BY <1>4, <3>3
      <4> QED
        BY <1>1, <1>4, <1>7, <3>3, <4>1 DEF WindowOK
    <3> QED
      BY <3>2, <3>3
  <2>2. \A j \in InFlight(t) : /\ Data(t, j) \in DataSet
                               /\ Data(t, j).ins.write => Data(t, j).prd \in Physical
                                                          /\ Data(t, j).old \in Physical
    BY <1>1, <1>8 DEF WindowOK
  <2> QED
    BY <1>4, <2>1, <2>2 DEF WindowOK
<1>13. \A j \in Writers(t) : /\ j \in Writers(s) /\ Data(t, j) = Data(s, j)
                             /\ t.rob.slot[j] = s.rob.slot[j]
                             /\ Position(t.rob, j) = Position(s.rob, j)
  BY <1>8, <1>9 DEF Writers
<1>14. AllTracked(t)
  <2> SUFFICES ASSUME NEW k \in 0 .. t.rob.count, NEW a \in Reg
               PROVE  Tracked(t, k, a)
    BY DEF AllTracked
  <2>1. k \in 0 .. n + 1 /\ k \in 0 .. s.rob.count
    <3>1. n < s.rob.count /\ s.rob.count \in Nat
      BY <1>3 DEF InWindow, InOrder, n
    <3> QED
      BY <1>4, <1>6, <3>1
  <2>2. Tracked(s, k, a) /\ Mapping(t, k, a) = Mapping(s, k, a) /\ Home(t, a) = Home(s, a)
    BY <1>1, <1>10, <1>11, <2>1 DEF AllTracked
  <2>3. CASE /\ Mapping(s, k, a) = Home(s, a)
             /\ \A j \in Writers(s) : Data(s, j).ins.rd = a => Position(s.rob, j) >= k
    BY <1>13, <2>2, <2>3 DEF Tracked
  <2>4. CASE \E j \in Writers(s) :
                /\ Data(s, j).ins.rd = a /\ Position(s.rob, j) < k
                /\ Mapping(s, k, a) = Data(s, j).prd
                /\ \A l \in Writers(s) : Data(s, l).ins.rd = a /\ Position(s.rob, l) < k
                                           => Position(s.rob, l) <= Position(s.rob, j)
    <3>1. PICK j \in Writers(s) :
                /\ Data(s, j).ins.rd = a /\ Position(s.rob, j) < k
                /\ Mapping(s, k, a) = Data(s, j).prd
                /\ \A l \in Writers(s) : Data(s, l).ins.rd = a /\ Position(s.rob, l) < k
                                           => Position(s.rob, l) <= Position(s.rob, j)
      BY <2>4
    <3>2. j \in Writers(t)
      BY <1>6, <1>9, <2>1, <3>1 DEF Writers
    <3> QED
      BY <1>13, <2>2, <3>1, <3>2 DEF Tracked
  <2> QED
    BY <2>2, <2>3, <2>4 DEF Tracked
<1>15. Checkpoints(t)
  <2> SUFFICES ASSUME NEW j \in InFlight(t), Data(t, j).ins.branch
               PROVE  Data(t, j).cp = [a \in Reg |-> Mapping(t, Position(t.rob, j) + 1, a)]
    BY DEF Checkpoints
  <2>1. /\ Data(t, j) = Data(s, j) /\ j \in InFlight(s)
        /\ Position(t.rob, j) = Position(s.rob, j) /\ Position(s.rob, j) + 1 \in 0 .. n + 1
    BY <1>6, <1>8
  <2>2. Data(s, j).cp = [a \in Reg |-> Mapping(s, Position(s.rob, j) + 1, a)]
    BY <1>1, <2>1 DEF Checkpoints
  <2>3. \A a \in Reg : Mapping(t, Position(t.rob, j) + 1, a) = Mapping(s, Position(s.rob, j) + 1, a)
    BY <1>10, <2>1
  <2> QED
    BY <2>1, <2>2, <2>3
<1>16. EveryRegisterOwned(t) /\ OneOwner(t)
  <2>1. s.free \in Seq(Physical)
    BY <1>1 DEF StateSet
  <2>2. /\ Len(pushed) = m /\ DOMAIN pushed = 1 .. m
        /\ DOMAIN s.free = 1 .. Len(s.free) /\ Len(s.free) \in Nat
        /\ \A x \in 1 .. m : pushed[x] = Data(s, order[x]).prd /\ order[x] \in W
    <3>1. DOMAIN pushed = 1 .. m /\ \A x \in 1 .. m : pushed[x] = Data(s, order[x]).prd
      BY <1>5
    <3> HIDE DEF pushed
    <3>2. Len(pushed) = m
      BY <1>2, <1>5, <3>1, LenProperties
    <3> QED
      BY <1>5, <2>1, <3>1, <3>2
  <2> HIDE DEF pushed
  <2>3. /\ DOMAIN t.free = 1 .. m + Len(s.free)
        /\ \A x \in 1 .. m : t.free[x] = pushed[x]
        /\ \A x \in 1 .. Len(s.free) : t.free[m + x] = s.free[x]
    <3>1. /\ Len(t.free) = Len(pushed) + Len(s.free) /\ t.free \in Seq(Physical)
          /\ \A x \in 1 .. Len(pushed) + Len(s.free) :
                t.free[x] = IF x <= Len(pushed) THEN pushed[x] ELSE s.free[x - Len(pushed)]
      BY <1>2, <2>1, ConcatProperties
    <3>2. DOMAIN t.free = 1 .. m + Len(s.free)
      BY <2>2, <3>1
    <3>3. \A x \in 1 .. m : t.free[x] = pushed[x]
      <4> TAKE x \in 1 .. m
      <4>1. x \in 1 .. m + Len(s.free) /\ x <= m
        BY <1>5, <2>2
      <4> QED
        BY <2>2, <3>1, <4>1
    <3>4. \A x \in 1 .. Len(s.free) : m + x \in 1 .. m + Len(s.free) /\ ~(m + x <= m)
                                      /\ (m + x) - m = x
      BY <1>5, <2>2
    <3>5. \A x \in 1 .. Len(s.free) : t.free[m + x] = s.free[x]
      BY <2>2, <3>1, <3>4
    <3> QED
      BY <3>2, <3>3, <3>5
  <2>4. \A x \in DOMAIN t.free : \/ x \in 1 .. m /\ t.free[x] = Data(s, order[x]).prd
                                                 /\ order[x] \in W
                                 \/ /\ x \notin 1 .. m /\ x - m \in DOMAIN s.free
                                    /\ t.free[x] = s.free[x - m]
    <3>1. \A x \in DOMAIN t.free : x \notin 1 .. m => x - m \in 1 .. Len(s.free) /\ m + (x - m) = x
      BY <1>5, <2>2, <2>3
    <3> QED
      BY <2>2, <2>3, <3>1
  <2>5. EveryRegisterOwned(t)
    <3> SUFFICES ASSUME NEW x \in Physical
                 PROVE  \/ \E l \in DOMAIN t.free : t.free[l] = x
                        \/ \E j \in Writers(t) : Data(t, j).prd = x
                        \/ \E a \in Reg : Home(t, a) = x
      BY DEF EveryRegisterOwned
    <3>1. CASE \E l \in DOMAIN s.free : s.free[l] = x
      <4>1. PICK l \in DOMAIN s.free : s.free[l] = x
        BY <3>1
      <4>2. m + l \in DOMAIN t.free /\ t.free[m + l] = x
        BY <1>5, <2>2, <2>3, <4>1
      <4> QED
        BY <4>2
    <3>2. CASE \E j \in Writers(s) : Data(s, j).prd = x
      <4>1. PICK j \in Writers(s) : Data(s, j).prd = x
        BY <3>2
      <4>2. CASE Position(s.rob, j) <= n
        BY <1>9, <1>13, <4>1, <4>2
      <4>3. CASE ~(Position(s.rob, j) <= n)
        <5>1. PICK l \in 1 .. m : order[l] = j
          BY <1>5, <1>9, <4>3
        <5>2. l \in DOMAIN t.free /\ t.free[l] = x
          BY <1>5, <2>2, <2>3, <4>1, <5>1
        <5> QED
          BY <5>2
      <4> QED
        BY <4>2, <4>3
    <3>3. CASE \E a \in Reg : Home(s, a) = x
      BY <1>11, <3>3
    <3> QED
      BY <1>1, <3>1, <3>2, <3>3 DEF EveryRegisterOwned
  <2>6. \A j \in W : j \in Writers(s) /\ j \notin Writers(t)
    BY <1>9
  <2>7. OneOwner(t)
    <3>1. ASSUME NEW x \in DOMAIN t.free, NEW y \in DOMAIN t.free, t.free[x] = t.free[y]
          PROVE  x = y
      <4>1. CASE x \in 1 .. m /\ y \in 1 .. m
        <5>1. order[x] = order[y]
          BY <1>1, <2>4, <2>6, <3>1, <4>1 DEF OneOwner
        <5> QED
          BY <1>5, <4>1, <5>1
      <4>2. CASE x \notin 1 .. m /\ y \notin 1 .. m
        <5>1. x - m = y - m
          BY <1>1, <2>4, <3>1, <4>2 DEF OneOwner
        <5>2. x \in Int /\ y \in Int
          BY <2>3
        <5> QED
          BY <1>5, <5>1, <5>2
      <4>3. CASE x \in 1 .. m /\ y \notin 1 .. m
        BY <1>1, <2>4, <2>6, <3>1, <4>3 DEF OneOwner
      <4>4. CASE x \notin 1 .. m /\ y \in 1 .. m
        BY <1>1, <2>4, <2>6, <3>1, <4>4 DEF OneOwner
      <4> QED
        BY <4>1, <4>2, <4>3, <4>4
    <3>2. \A i, j \in Writers(t) : Data(t, i).prd = Data(t, j).prd => i = j
      BY <1>1, <1>13 DEF OneOwner
    <3>3. \A a, c \in Reg : Home(t, a) = Home(t, c) => a = c
      BY <1>1, <1>11 DEF OneOwner
    <3>4. ASSUME NEW x \in DOMAIN t.free
          PROVE  /\ \A j \in Writers(t) : Data(t, j).prd # t.free[x]
                 /\ \A a \in Reg : Home(t, a) # t.free[x]
      <4>1. CASE x \in 1 .. m
        BY <1>1, <1>11, <1>13, <2>4, <2>6, <4>1 DEF OneOwner
      <4>2. CASE x \notin 1 .. m
        BY <1>1, <1>11, <1>13, <2>4, <4>2 DEF OneOwner
      <4> QED
        BY <4>1, <4>2
    <3>5. \A j \in Writers(t), a \in Reg : Data(t, j).prd # Home(t, a)
      BY <1>1, <1>11, <1>13 DEF OneOwner
    <3> QED
      BY <3>1, <3>2, <3>3, <3>4, <3>5 DEF OneOwner
  <2> QED
    BY <2>5, <2>7
<1>17. ReadyOK(t)
  BY <1>1, <1>2, <1>11, <1>13, ZenonT(30) DEF ReadyOK
<1>18. \A j \in InFlight(t) : /\ FirstSource(t, j) = FirstSource(s, j)
                              /\ SecondSource(t, j) = SecondSource(s, j)
                              /\ SourcesReady(t, j) <=> SourcesReady(s, j)
                              /\ Item(t, j) = Item(s, j)
  <2> TAKE j \in InFlight(t)
  <2>1. /\ Data(t, j) = Data(s, j) /\ Data(s, j).ins \in Instruction
        /\ t.rob.slot[j].completed = s.rob.slot[j].completed
        /\ \A a \in Reg : /\ Before(t, j, a) = Before(s, j, a)
                          /\ t.prf[Before(s, j, a)] = s.prf[Before(s, j, a)]
    BY <1>2, <1>6, <1>8, <1>11
  <2> QED
    BY <2>1, SameSources
<1>19. ResultsOK(t)
  <2> SUFFICES ASSUME NEW j \in InFlight(t), t.rob.slot[j].completed
               PROVE  Executed(t, j)
    BY DEF ResultsOK
  <2>1. Executed(s, j) /\ Data(t, j) = Data(s, j)
    BY <1>1, <1>8 DEF ResultsOK
  <2> QED
    BY <1>2, <1>18, <2>1 DEF Executed
<1>20. QueueOK(t)
  <2>1. \A q \in IQSlot : t.iq[q].valid => /\ t.iq[q] = s.iq[q] /\ s.iq[q].rob \notin Younger(s.rob, b)
    <3>1. FreeSlot.valid = FALSE
      BY DEF FreeSlot
    <3> QED
      BY <1>2, <3>1 DEF IQSquash
  <2>2. ASSUME NEW q \in IQSlot, t.iq[q].valid
        PROVE  EntryOK(t, t.iq[q])
    <3> DEFINE e == s.iq[q]
    <3>1. t.iq[q] = e /\ EntryOK(s, e) /\ e.rob \notin Younger(s.rob, b)
      BY <1>1, <2>1, <2>2 DEF QueueOK
    <3> HIDE DEF e
    <3>2. e.rob \in InFlight(s)
      BY <3>1 DEF EntryOK
    <3>3. e.rob \in InFlight(t) /\ e.ins \in Instruction
      <4>1. e.rob \in Index /\ InWindow(s.rob, e.rob)
        BY <3>2 DEF InFlight
      <4> QED
        BY <1>6, <1>7, <1>8, <3>1, <3>2, <4>1 DEF EntryOK
    <3>4. e.ins.rs1 \in Reg /\ e.ins.rs2 \in Reg
      BY <3>3, InstructionAssumption
    <3>5. \A op, a : a \in Reg /\ Current(s, e.rob, op, a) => Current(t, e.rob, op, a)
      BY <1>2, <1>11, <3>3 DEF Current
    <3>6. /\ OperandOK(t, e.rob, e.op1, e.ins.use1, e.ins.rs1)
          /\ OperandOK(t, e.rob, e.op2, e.ins.use2, e.ins.rs2)
      BY <3>1, <3>4, <3>5 DEF EntryOK, OperandOK
    <3>7. /\ ~t.rob.slot[e.rob].completed
          /\ e.ins = Data(t, e.rob).ins /\ e.prd = Data(t, e.rob).prd
      BY <1>8, <3>1, <3>3 DEF EntryOK
    <3> QED
      BY <3>1, <3>3, <3>6, <3>7 DEF EntryOK
  <2> QED
    BY <1>1, <2>1, <2>2 DEF QueueOK
<1>21. RegsOf(t) = RegsOf(s)
  BY <1>2, <1>11 DEF RegsOf
<1>22. IInv(t)
  BY <1>2, <1>12, <1>14, <1>15, <1>16, <1>17, <1>19, <1>20 DEF IInv
<1> QED
  BY <1>4, <1>8, <1>18, <1>21, <1>22 DEF t, n

-----------------------------------------------------------------------------
(* The window as a sequence. *)
ItemSet == [ins : Instruction, decided : SUBSET BOOLEAN]

LEMMA FlightFacts ==
    ASSUME NEW s, IInv(s)
    PROVE  /\ FlightOf(s) \in Seq(ItemSet) /\ Len(FlightOf(s)) = s.rob.count
           /\ s.rob.count \in Nat /\ RegsOf(s) \in [Reg -> Value]
           /\ \A i \in InFlight(s) : /\ Item(s, i) \in ItemSet
                                     /\ Position(s.rob, i) \in Nat
                                     /\ Position(s.rob, i) + 1 \in 1 .. s.rob.count
                                     /\ FlightOf(s)[Position(s.rob, i) + 1] = Item(s, i)
           /\ \A k \in 1 .. s.rob.count : /\ SlotAt(s.rob, k) \in InFlight(s)
                                          /\ Position(s.rob, SlotAt(s.rob, k)) = k - 1
<1> DEFINE c == s.rob.count
           f == FlightOf(s)
<1>1. s \in StateSet /\ WindowOK(s) /\ InOrder(s.rob) /\ s.rob.head \in Index
      /\ c \in 0 .. Capacity /\ s.prf \in [Physical -> Cell]
  BY DEF IInv, WindowOK, InOrder, StateSet
<1>2. \A i \in InFlight(s) : Item(s, i) \in ItemSet
  <2> TAKE i \in InFlight(s)
  <2> DEFINE d == Data(s, i).ins
  <2>1. d \in Instruction
    BY <1>1 DEF WindowOK, DataSet
  <2>2. d.rs1 \in Reg /\ d.rs2 \in Reg
        /\ \A v, w \in Value : Taken(d, v, w) \in BOOLEAN
    BY <2>1, InstructionAssumption
  <2>3. \A used, a : a \in Reg => SourceValue(s, i, used, a) \in Value
    <3>1. \A a \in Reg : Before(s, i, a) \in Physical
      BY <1>1, MappingType DEF Before
    <3> QED
      BY <1>1, <3>1, InstructionAssumption DEF SourceValue, Cell
  <2>4. FirstSource(s, i) \in Value /\ SecondSource(s, i) \in Value
    BY <2>2, <2>3 DEF FirstSource, SecondSource
  <2>5. {Taken(d, FirstSource(s, i), SecondSource(s, i))} \in SUBSET BOOLEAN
    BY <2>2, <2>4
  <2> QED
    BY <2>1, <2>5 DEF Item, ItemSet
<1>3. \A k \in 1 .. c : SlotAt(s.rob, k) \in InFlight(s) /\ Position(s.rob, SlotAt(s.rob, k)) = k - 1
  <2> TAKE k \in 1 .. c
  <2>1. k \in 1 .. Capacity
    BY <1>1, CapacityAssumption
  <2>2. SlotAt(s.rob, k) \in Index /\ Position(s.rob, SlotAt(s.rob, k)) = k - 1
    BY <1>1, <2>1, SlotAtValue
  <2> QED
    BY <1>1, <2>2 DEF InFlight, InWindow
<1>4. \A k \in 1 .. c : f[k] = Item(s, SlotAt(s.rob, k)) /\ Item(s, SlotAt(s.rob, k)) \in ItemSet
  BY <1>2, <1>3 DEF FlightOf
<1>5. f \in Seq(ItemSet) /\ Len(f) = c
  <2>1. DOMAIN f = 1 .. c /\ f = [k \in 1 .. c |-> Item(s, SlotAt(s.rob, k))]
    BY DEF FlightOf
  <2> HIDE DEF f
  <2> QED
    BY <1>1, <1>4, <2>1
<1>6. \A i \in InFlight(s) : /\ Position(s.rob, i) \in Nat
                             /\ Position(s.rob, i) + 1 \in 1 .. c
                             /\ SlotAt(s.rob, Position(s.rob, i) + 1) = i
  <2> TAKE i \in InFlight(s)
  <2>1. i \in Index /\ Position(s.rob, i) < c
    BY DEF InFlight, InWindow
  <2>2. Position(s.rob, i) \in Nat
    BY <1>1, <2>1, PositionValue DEF Index
  <2>3. SlotAt(s.rob, Position(s.rob, i) + 1) = i
    BY <1>1, <2>1, SlotAtPosition
  <2> QED
    BY <1>1, <2>1, <2>2, <2>3
<1>7. RegsOf(s) \in [Reg -> Value]
  <2>1. \A a \in Reg : Home(s, a) \in Physical
    BY <1>1, MappingType DEF Home
  <2> QED
    BY <1>1, <2>1 DEF RegsOf, Cell
<1> HIDE DEF f
<1>8. \A i \in InFlight(s) : f[Position(s.rob, i) + 1] = Item(s, i)
  BY <1>4, <1>6
<1> QED
  BY <1>1, <1>2, <1>3, <1>5, <1>6, <1>7, <1>8 DEF f

(* A sequence that has every instruction at its age is the window. *)
LEMMA FlightIs ==
    ASSUME NEW s, IInv(s), NEW f \in Seq(ItemSet), Len(f) = s.rob.count,
           \A i \in InFlight(s) : f[Position(s.rob, i) + 1] = Item(s, i)
    PROVE  FlightOf(s) = f
<1>1. /\ FlightOf(s) \in Seq(ItemSet) /\ Len(FlightOf(s)) = s.rob.count /\ s.rob.count \in Nat
      /\ \A i \in InFlight(s) : FlightOf(s)[Position(s.rob, i) + 1] = Item(s, i)
      /\ \A k \in 1 .. s.rob.count : /\ SlotAt(s.rob, k) \in InFlight(s)
                                     /\ Position(s.rob, SlotAt(s.rob, k)) = k - 1
  BY FlightFacts
<1>2. \A k \in 1 .. s.rob.count : FlightOf(s)[k] = f[k]
  <2> TAKE k \in 1 .. s.rob.count
  <2> DEFINE i == SlotAt(s.rob, k)
  <2>1. i \in InFlight(s) /\ Position(s.rob, i) + 1 = k
    BY <1>1
  <2> HIDE DEF i
  <2>2. FlightOf(s)[Position(s.rob, i) + 1] = f[Position(s.rob, i) + 1]
    BY <1>1, <2>1
  <2> QED
    BY <2>1, <2>2
<1> QED
  BY <1>1, <1>2, SeqEqual

LEMMA FlightEnters ==
    ASSUME NEW s, IInv(s), NEW i \in Instruction, CanRename(s, i), HasRoom(Rename(s, i))
    PROVE  FlightOf(Entered(s, i)) = Append(FlightOf(s), Program!Undecided(i))
<1> DEFINE t == Entered(s, i)
           n == s.rob.tail
           c == s.rob.count
           f == FlightOf(s)
           x == Program!Undecided(i)
           g == Append(f, x)
<1>1. /\ IInv(t) /\ t.rob.count = c + 1 /\ n \in Index /\ Position(t.rob, n) = c
      /\ Item(t, n) = x
      /\ \A j \in InFlight(s) : Item(t, j) = Item(s, j) /\ Position(t.rob, j) = Position(s.rob, j)
  BY EnterKeeps DEF Program!Undecided
<1>2. InFlight(t) = InFlight(s) \cup {n}
  BY EnterFacts DEF IInv
<1>3. /\ f \in Seq(ItemSet) /\ Len(f) = c /\ c \in Nat
      /\ \A j \in InFlight(s) : Position(s.rob, j) + 1 \in 1 .. c
                                /\ f[Position(s.rob, j) + 1] = Item(s, j)
  BY FlightFacts
<1>4. x \in ItemSet
  BY DEF Program!Undecided, ItemSet
<1> HIDE DEF t, n, c, f, x
<1>5. /\ g \in Seq(ItemSet) /\ Len(g) = c + 1 /\ g[c + 1] = x
      /\ \A k \in 1 .. c : g[k] = f[k]
  BY <1>3, <1>4, AppendProperties
<1> HIDE DEF g
<1>6. ASSUME NEW j \in InFlight(t)
      PROVE  g[Position(t.rob, j) + 1] = Item(t, j)
  <2>1. CASE j \in InFlight(s)
    BY <1>1, <1>3, <1>5, <2>1
  <2>2. CASE j = n
    BY <1>1, <1>5, <2>2
  <2> QED
    BY <1>2, <2>1, <2>2
<1>7. FlightOf(t) = g
  BY <1>1, <1>5, <1>6, FlightIs
<1> QED
  BY <1>7 DEF t, g, f, x

LEMMA FlightRetires ==
    ASSUME NEW s, IInv(s), CanCommit(s.rob)
    PROVE  LET t == Retire(s)
           IN  /\ IInv(t)
               /\ Program!MayRetire(FlightOf(s), RegsOf(s))
               /\ FlightOf(t) = Tail(FlightOf(s))
               /\ RegsOf(t) = Program!Effect(Head(FlightOf(s)).ins, RegsOf(s))
<1> DEFINE t == Retire(s)
           h == s.rob.head
           i == Data(s, h).ins
           c == s.rob.count
           f == FlightOf(s)
           g == Tail(f)
<1>1. /\ IInv(t) /\ t.rob.count = c - 1 /\ h \in InFlight(s) /\ Position(s.rob, h) = 0
      /\ InFlight(t) = InFlight(s) \ {h}
      /\ \A j \in InFlight(t) : Item(t, j) = Item(s, j) /\ Position(t.rob, j) = Position(s.rob, j) - 1
      /\ Item(s, h).ins = i
      /\ i.branch => Item(s, h).decided =
            {Taken(i, Program!First(i, RegsOf(s)), Program!Second(i, RegsOf(s)))}
      /\ RegsOf(t) = Program!Effect(i, RegsOf(s))
  BY RetireKeeps
<1>2. /\ f \in Seq(ItemSet) /\ Len(f) = c /\ c \in Nat
      /\ \A j \in InFlight(s) : /\ Position(s.rob, j) \in Nat /\ Position(s.rob, j) + 1 \in 1 .. c
                                /\ f[Position(s.rob, j) + 1] = Item(s, j)
  BY FlightFacts
<1> HIDE DEF t, h, i, c, f
<1>3. c >= 1 /\ f[1] = Item(s, h)
  <2>1. Position(s.rob, h) + 1 = 1
    BY <1>1
  <2> QED
    BY <1>1, <1>2, <2>1
<1>4. f # << >> /\ Head(f) = Item(s, h)
  BY <1>2, <1>3
<1>5. /\ g \in Seq(ItemSet) /\ Len(g) = c - 1
      /\ \A k \in 1 .. c - 1 : g[k] = f[k + 1]
  BY <1>2, <1>4, HeadTailProperties
<1> HIDE DEF g
<1>6. ASSUME NEW j \in InFlight(t)
      PROVE  g[Position(t.rob, j) + 1] = Item(t, j)
  <2>1. j \in InFlight(s) /\ Position(t.rob, j) = Position(s.rob, j) - 1 /\ Item(t, j) = Item(s, j)
    BY <1>1
  <2>2. Position(t.rob, j) + 1 \in 1 .. t.rob.count
    BY <1>1, FlightFacts
  <2>3. Position(s.rob, j) \in 1 .. c - 1
    BY <1>1, <1>2, <2>1, <2>2
  <2>4. g[Position(s.rob, j)] = f[Position(s.rob, j) + 1] /\ Position(t.rob, j) + 1 = Position(s.rob, j)
    BY <1>5, <2>1, <2>3
  <2> QED
    BY <1>2, <2>1, <2>4
<1>7. FlightOf(t) = g
  BY <1>1, <1>5, <1>6, FlightIs
<1>8. Program!MayRetire(f, RegsOf(s))
  BY <1>1, <1>4 DEF Program!MayRetire
<1>9. RegsOf(t) = Program!Effect(Head(f).ins, RegsOf(s))
  BY <1>1, <1>4
<1> QED
  BY <1>1, <1>7, <1>8, <1>9 DEF t, f, g

LEMMA FlightExecutes ==
    ASSUME NEW s, IInv(s), NEW q \in IQSlot, s.iq[q].valid, Ready(s.iq[q]), ~s.iq[q].ins.branch
    PROVE  LET t == Exec(s, q)
           IN  IInv(t) /\ FlightOf(t) = FlightOf(s) /\ RegsOf(t) = RegsOf(s)
<1> DEFINE t == Exec(s, q)
           f == FlightOf(s)
<1>1. /\ IInv(t) /\ InFlight(t) = InFlight(s) /\ RegsOf(t) = RegsOf(s)
      /\ \A j \in InFlight(s) : Item(t, j) = Item(s, j) /\ Position(t.rob, j) = Position(s.rob, j)
      /\ t.rob = Complete(s.rob, s.iq[q].rob)
  BY ExecKeeps
<1>2. t.rob.count = s.rob.count
  <2>1. \A r, i : Complete(r, i).count = r.count
    BY DEF Complete
  <2> HIDE DEF t
  <2> QED
    BY <1>1, <2>1
<1>3. /\ f \in Seq(ItemSet) /\ Len(f) = s.rob.count
      /\ \A j \in InFlight(s) : f[Position(s.rob, j) + 1] = Item(s, j)
  BY FlightFacts
<1> HIDE DEF t, f
<1>4. FlightOf(t) = f
  <2>1. Len(f) = t.rob.count
    BY <1>2, <1>3, Zenon
  <2>2. \A j \in InFlight(t) : f[Position(t.rob, j) + 1] = Item(t, j)
    BY <1>1, <1>3, Zenon
  <2> QED
    BY <1>1, <1>3, <2>1, <2>2, FlightIs, Zenon
<1> QED
  BY <1>1, <1>4 DEF t, f

(* The program's Decide, without the squash. *)
LEMMA FlightDecides ==
    ASSUME NEW s, IInv(s), NEW q \in IQSlot, s.iq[q].valid, Ready(s.iq[q]), s.iq[q].ins.branch
    PROVE  LET t == Exec(s, q)
               e == s.iq[q]
               k == Position(s.rob, e.rob) + 1
               f == FlightOf(s)
           IN  /\ IInv(t) /\ RegsOf(t) = RegsOf(s)
               /\ k \in 1 .. Len(f) /\ f[k].ins = e.ins /\ f[k].decided = {}
               /\ FlightOf(t) = [f EXCEPT ![k] = [ins |-> f[k].ins, decided |->
                                                  {Taken(e.ins, e.op1.value, e.op2.value)}]]
               /\ Taken(e.ins, e.op1.value, e.op2.value) \in BOOLEAN
               /\ e.rob \in InFlight(t) /\ Position(t.rob, e.rob) = Position(s.rob, e.rob)
               /\ Data(t, e.rob).ins = e.ins
<1> DEFINE t == Exec(s, q)
           e == s.iq[q]
           b == e.rob
           k == Position(s.rob, b) + 1
           f == FlightOf(s)
           taken == Taken(e.ins, e.op1.value, e.op2.value)
           x == [ins |-> f[k].ins, decided |-> {taken}]
           g == [f EXCEPT ![k] = x]
<1>1. /\ IInv(t) /\ InFlight(t) = InFlight(s) /\ RegsOf(t) = RegsOf(s)
      /\ \A j \in InFlight(s) : /\ j # b => Item(t, j) = Item(s, j)
                                /\ Position(t.rob, j) = Position(s.rob, j)
      /\ t.rob = Complete(s.rob, b) /\ b \in InFlight(s)
      /\ e.ins = Data(s, b).ins /\ ~s.rob.slot[b].completed
      /\ Item(t, b).ins = e.ins /\ Item(t, b).decided = {taken}
  <2>1. /\ IInv(t)
        /\ t.rob = Complete(s.rob, b) /\ b \in InFlight(s)
        /\ e.ins = Data(s, b).ins /\ ~s.rob.slot[b].completed
        /\ InFlight(t) = InFlight(s)
        /\ \A j \in InFlight(s) : /\ j # b \/ ~e.ins.branch => Item(t, j) = Item(s, j)
                                  /\ Position(t.rob, j) = Position(s.rob, j)
        /\ Item(t, b).ins = e.ins
        /\ e.ins.branch => Item(t, b).decided = {taken}
        /\ RegsOf(t) = RegsOf(s)
    BY ExecKeeps
  <2> HIDE DEF t, taken
  <2> QED
    BY <2>1
<1>2. t.rob.count = s.rob.count
  <2>1. \A r, i : Complete(r, i).count = r.count
    BY DEF Complete
  <2> HIDE DEF t
  <2> QED
    BY <1>1, <2>1
<1>3. /\ f \in Seq(ItemSet) /\ Len(f) = s.rob.count /\ s.rob.count \in Nat
      /\ \A j \in InFlight(s) : /\ f[Position(s.rob, j) + 1] = Item(s, j)
                                /\ Position(s.rob, j) + 1 \in 1 .. s.rob.count
                                /\ Position(s.rob, j) \in Nat
      /\ InOrder(s.rob)
  BY FlightFacts DEF IInv, WindowOK
<1>4. Data(t, b).ins = e.ins
  BY <1>1 DEF Item
<1>5. taken \in BOOLEAN
  <2>1. e \in EntrySet
    <3>1. FreeSlot.valid = FALSE
      BY DEF FreeSlot
    <3> QED
      BY <3>1 DEF IInv, StateSet
  <2>2. e.ins \in Instruction /\ e.op1.value \in Value /\ e.op2.value \in Value
    BY <2>1 DEF EntrySet, OperandSet
  <2> QED
    BY <2>2, InstructionAssumption
<1> HIDE DEF t, f, taken
<1>6. Item(s, b).ins = e.ins /\ Item(s, b).decided = {}
  BY <1>1 DEF Item
<1>7. f[k] = Item(s, b) /\ k \in 1 .. s.rob.count
  BY <1>1, <1>3
<1>8. Item(t, b) = x /\ x \in ItemSet
  <2>1. Item(t, b) \in ItemSet
    BY <1>1, FlightFacts
  <2> HIDE DEF b, k, e
  <2>2. Item(t, b).ins = f[k].ins
    BY <1>1, <1>6, <1>7
  <2> QED
    BY <1>1, <2>1, <2>2 DEF ItemSet
<1>9. \A j \in InFlight(s) : j # b => Position(s.rob, j) + 1 # k
  <2> SUFFICES ASSUME NEW j \in InFlight(s), Position(s.rob, j) + 1 = k
               PROVE  j = b
    OBVIOUS
  <2>1. j \in Index /\ b \in Index /\ s.rob.head \in Index
    BY <1>1, <1>3 DEF InFlight, InOrder
  <2>2. Position(s.rob, j) = Position(s.rob, b)
    <3>1. Position(s.rob, j) \in Nat /\ Position(s.rob, b) \in Nat
      BY <1>1, <1>3
    <3> QED
      BY <3>1
  <2> QED
    BY <2>1, <2>2, PositionInjective
<1> HIDE DEF k, x, e, b
<1>10. /\ g \in Seq(ItemSet) /\ Len(g) = s.rob.count /\ g[k] = x
       /\ \A j \in 1 .. s.rob.count : j # k => g[j] = f[j]
  BY <1>3, <1>7, <1>8, ExceptSeq
<1> HIDE DEF g
<1>11. ASSUME NEW j \in InFlight(t)
       PROVE  g[Position(t.rob, j) + 1] = Item(t, j)
  <2>1. j \in InFlight(s) /\ Position(t.rob, j) = Position(s.rob, j)
    BY <1>1
  <2>2. CASE j = b
    BY <1>8, <1>10, <2>1, <2>2 DEF k
  <2>3. CASE j # b
    <3>1. Item(t, j) = Item(s, j)
      BY <1>1, <2>1, <2>3
    <3> QED
      BY <1>3, <1>9, <1>10, <2>1, <2>3, <3>1
  <2> QED
    BY <2>2, <2>3
<1>12. FlightOf(t) = g
  BY <1>1, <1>2, <1>10, <1>11, FlightIs
<1> QED
  BY <1>1, <1>3, <1>4, <1>5, <1>6, <1>7, <1>12 DEF t, e, b, k, f, g, x, taken

LEMMA FlightRecovers ==
    ASSUME NEW s, IInv(s), NEW b \in InFlight(s), Data(s, b).ins.branch,
           NEW order \in Released(s.rob, b)
    PROVE  LET t == Recover(s, b, order)
           IN  /\ IInv(t) /\ RegsOf(t) = RegsOf(s)
               /\ FlightOf(t) = SubSeq(FlightOf(s), 1, Position(s.rob, b) + 1)
<1> DEFINE t == Recover(s, b, order)
           n == Position(s.rob, b) + 1
           f == FlightOf(s)
           g == SubSeq(f, 1, n)
<1>1. /\ IInv(t) /\ t.rob.count = n /\ RegsOf(t) = RegsOf(s)
      /\ \A j \in InFlight(t) : /\ Item(t, j) = Item(s, j) /\ j \in InFlight(s)
                                /\ Position(t.rob, j) = Position(s.rob, j)
  BY RecoverKeeps
<1>2. /\ f \in Seq(ItemSet) /\ Len(f) = s.rob.count /\ s.rob.count \in Nat
      /\ n \in 1 .. s.rob.count
      /\ \A j \in InFlight(s) : f[Position(s.rob, j) + 1] = Item(s, j)
  BY FlightFacts
<1> HIDE DEF t, f, n
<1>3. /\ g \in Seq(ItemSet) /\ Len(g) = n /\ \A k \in 1 .. n : g[k] = f[k]
  BY <1>2
<1> HIDE DEF g
<1>4. ASSUME NEW j \in InFlight(t)
      PROVE  g[Position(t.rob, j) + 1] = Item(t, j)
  <2>1. Position(t.rob, j) + 1 \in 1 .. n
    BY <1>1, FlightFacts
  <2> QED
    BY <1>1, <1>2, <1>3, <2>1
<1>5. FlightOf(t) = g
  BY <1>1, <1>3, <1>4, FlightIs
<1> QED
  BY <1>1, <1>5 DEF t, f, g, n

-----------------------------------------------------------------------------
(* The steps composed. *)

LEMMA BecomesState ==
    ASSUME NEW s \in StateSet, Becomes(s)
    PROVE  State' = s
BY DEF Becomes, State, StateSet

(* The second lane renamed before the first is dispatched comes to the same *)
(* as one instruction after the other: what the second lane allocates is no *)
(* source of the first.                                                     *)
LEMMA PairEnters ==
    ASSUME NEW s, IInv(s), NEW i \in Instruction, NEW j \in Instruction,
           ~i.branch, ~j.branch, CanRename(s, i), CanRename(Rename(s, i), j),
           HasRoom(Rename(Rename(s, i), j)),
           HasRoom(Dispatch(Rename(Rename(s, i), j), Bundle(s, i), NoData))
    PROVE  LET s1 == Rename(s, i)
               s3 == Dispatch(Rename(s1, j), Bundle(s, i), NoData)
               u  == Entered(s, i)
           IN  /\ HasRoom(s1) /\ CanRename(u, j) /\ HasRoom(Rename(u, j))
               /\ Dispatch(s3, Bundle(s1, j), NoData) = Entered(u, j)
<1> DEFINE s1 == Rename(s, i)
           s2 == Rename(s1, j)
           s3 == Dispatch(s2, Bundle(s, i), NoData)
           u == Entered(s, i)
           r == Rename(u, j)
           d == EnteredData(s, i)
           e == IssueEntry(s1, Bundle(s, i))
           p == Head(s1.free)
<1>1. s \in StateSet /\ WindowOK(s) /\ AllTracked(s) /\ OneOwner(s)
      /\ InOrder(s.rob) /\ s.free \in Seq(Physical)
  BY DEF IInv, WindowOK, StateSet
<1>2. /\ s1 \in StateSet /\ s1.rob = s.rob /\ s1.iq = s.iq
      /\ i.write => /\ s.free # << >> /\ s1.free = Tail(s.free)
                    /\ s1.rat = [s.rat EXCEPT ![i.rd] = Head(s.free)]
      /\ ~i.write => s1 = s
  BY <1>1, RenameFields
<1>3. /\ s2 \in StateSet /\ s2.rob = s.rob /\ s2.iq = s.iq
      /\ j.write => /\ p \in Physical /\ s1.free # << >> /\ p = s1.free[1]
                    /\ s2.rat = [s1.rat EXCEPT ![j.rd] = p]
                    /\ s2.free = Tail(s1.free)
                    /\ s2.prf = [s1.prf EXCEPT ![p] = [value |-> 0, ready |-> FALSE]]
      /\ ~j.write => s2 = s1
  BY <1>2, RenameFields
<1>4. HasRoom(s1)
  BY <1>2, <1>3 DEF HasRoom
<1>5. /\ u = Dispatch(s1, Bundle(s, i), NoData) /\ u \in StateSet
      /\ d = [ins |-> i, prd |-> Bundle(s, i).prd, old |-> Bundle(s, i).old, cp |-> NoData]
  BY <1>1, <1>4, EnterFacts DEF Entered, EnteredData
<1>6. Bundle(s, i).ins = i
  BY DEF Bundle
<1>7. /\ u.rat = s1.rat /\ u.free = s1.free /\ u.prf = s1.prf
      /\ u.rob = Allocate(s.rob, d) /\ u.iq = Insert(s.iq, e)
  <2>1. u = [s1 EXCEPT !.rob = Allocate(s1.rob, d), !.iq = Insert(s1.iq, e)]
    BY <1>5, <1>6 DEF Dispatch
  <2> HIDE DEF u, s1, d, e
  <2> QED
    BY <1>2, <2>1 DEF StateSet
<1>8. IssueEntry(s2, Bundle(s, i)) = e
  <2>1. CASE ~j.write
    BY <1>3, <2>1
  <2>2. CASE j.write
    <3>1. \A a \in Reg : s.rat[a] # p /\ s.rat[a] \in Physical
      <4> TAKE a \in Reg
      <4>1. s.rob.count \in 0 .. s.rob.count /\ Mapping(s, s.rob.count, a) = s.rat[a]
        <5>1. s.rob.count \in Nat
          BY <1>1 DEF InOrder
        <5> QED
          BY <1>1, <5>1, MappingAtEnd
      <4>2. \A n \in DOMAIN s.free : s.free[n] # s.rat[a]
        BY <1>1, <4>1, MappingLive
      <4>3. \E n \in DOMAIN s.free : s.free[n] = p
        <5>1. CASE i.write
          <6>1. /\ s.free # << >> /\ s1.free = Tail(s.free) /\ s1.free # << >> /\ p = s1.free[1]
            BY <1>2, <1>3, <2>2, <5>1
          <6> HIDE DEF s1, p
          <6>2. 2 \in DOMAIN s.free /\ s.free[2] = p
            BY <1>1, <6>1
          <6> QED
            BY <6>2
        <5>2. CASE ~i.write
          <6>1. s1.free = s.free /\ s1.free # << >> /\ p = s1.free[1]
            BY <1>2, <1>3, <2>2, <5>2
          <6> HIDE DEF s1, p
          <6>2. 1 \in DOMAIN s.free /\ s.free[1] = p
            BY <1>1, <6>1
          <6> QED
            BY <6>2
        <5> QED
          BY <5>1, <5>2
      <4>4. s.rat[a] \in Physical
        BY <1>1 DEF StateSet
      <4> QED
        BY <4>2, <4>3, <4>4
    <3>2. \A a \in Reg : s2.prf[s.rat[a]] = s1.prf[s.rat[a]]
      <4>1. s1.prf \in [Physical -> Cell]
        BY <1>2 DEF StateSet
      <4> HIDE DEF s1, s2, p
      <4> QED
        BY <1>3, <2>2, <3>1, <4>1
    <3>3. i.rs1 \in Reg /\ i.rs2 \in Reg
      BY InstructionAssumption
    <3>4. /\ Bundle(s, i).src1 = s.rat[i.rs1] /\ Bundle(s, i).src2 = s.rat[i.rs2]
      BY DEF Bundle
    <3> HIDE DEF s1, s2, p
    <3>5. \A used, a : a \in Reg => Operand(s2.prf, used, s.rat[a]) = Operand(s1.prf, used, s.rat[a])
      BY <3>2 DEF Operand
    <3>6. /\ Operand(s2.prf, i.use1, s.rat[i.rs1]) = Operand(s1.prf, i.use1, s.rat[i.rs1])
          /\ Operand(s2.prf, i.use2, s.rat[i.rs2]) = Operand(s1.prf, i.use2, s.rat[i.rs2])
      BY <3>3, <3>5
    <3> QED
      BY <1>2, <1>3, <1>6, <3>4, <3>6 DEF IssueEntry, e
  <2> QED
    BY <2>1, <2>2
<1>9. /\ s3 = [s2 EXCEPT !.rob = u.rob, !.iq = u.iq]
  <2>1. s3 = [s2 EXCEPT !.rob = Allocate(s2.rob, d), !.iq = Insert(s2.iq, e)]
    BY <1>5, <1>6, <1>8 DEF Dispatch
  <2> HIDE DEF s2, s3, u, d, e
  <2> QED
    BY <1>3, <1>7, <2>1
<1>10. CanRename(u, j)
  BY <1>7 DEF CanRename
<1>11. /\ r \in StateSet /\ r.rob = u.rob /\ r.iq = u.iq
       /\ j.write => /\ r.rat = [u.rat EXCEPT ![j.rd] = Head(u.free)]
                     /\ r.free = Tail(u.free)
                     /\ r.prf = [u.prf EXCEPT ![Head(u.free)] = [value |-> 0, ready |-> FALSE]]
       /\ ~j.write => r = u
  BY <1>5, <1>10, RenameFields
<1>12. s3 = r
  <2> HIDE DEF s1, s2, s3, u, r
  <2>1. r.rat = s2.rat /\ r.free = s2.free /\ r.prf = s2.prf
    BY <1>3, <1>7, <1>11, InstructionAssumption DEF p
  <2>2. r.rob = s3.rob /\ r.iq = s3.iq /\ s3.rat = s2.rat /\ s3.free = s2.free /\ s3.prf = s2.prf
    BY <1>3, <1>9, <1>11 DEF StateSet
  <2>3. r = [rat |-> r.rat, free |-> r.free, prf |-> r.prf, rob |-> r.rob, iq |-> r.iq]
    BY <1>11 DEF StateSet
  <2>4. s3 = [rat |-> s3.rat, free |-> s3.free, prf |-> s3.prf, rob |-> s3.rob, iq |-> s3.iq]
    BY <1>3, <1>9 DEF StateSet
  <2> QED
    BY <2>1, <2>2, <2>3, <2>4, Zenon
<1>13. Bundle(u, j) = Bundle(s1, j)
  BY <1>7 DEF Bundle
<1>14. Entered(u, j) = Dispatch(r, Bundle(u, j), NoData)
  BY DEF Entered
<1> QED
  BY <1>4, <1>10, <1>12, <1>13, <1>14

(* Freeing one slot after the other frees both. *)
LEMMA FreedTwice ==
    ASSUME NEW h, NEW q, NEW p
    PROVE  [x \in IQSlot |-> IF x \in {p} THEN FreeSlot
                             ELSE [y \in IQSlot |-> IF y = q THEN FreeSlot ELSE h[y]][x]]
           = [x \in IQSlot |-> IF x \in {q, p} THEN FreeSlot ELSE h[x]]
<1>1. ASSUME NEW x \in IQSlot
      PROVE  (IF x \in {p} THEN FreeSlot
              ELSE [y \in IQSlot |-> IF y = q THEN FreeSlot ELSE h[y]][x])
             = IF x \in {q, p} THEN FreeSlot ELSE h[x]
  OBVIOUS
<1> QED
  BY <1>1, Zenon

(* Two entries that leave the queue together execute one after the other.   *)
LEMMA PairExecutes ==
    ASSUME NEW s, IInv(s), NEW q \in IQSlot, NEW p \in IQSlot, q # p,
           s.iq[q].valid, Ready(s.iq[q]), s.iq[p].valid, Ready(s.iq[p])
    PROVE  LET u == Exec(s, q)
           IN  /\ u.iq[p] = s.iq[p]
               /\ WriteBack(WriteBack(Removed(s, {q, p}), s.iq[q]), s.iq[p]) = Exec(u, p)
<1> DEFINE u == Exec(s, q)
           e == s.iq[q]
           m == Removed(s, {q})
           n == Removed(s, {q, p})
           w == WriteBack(n, e)
           gone == [x \in IQSlot |-> IF x = q THEN FreeSlot ELSE s.iq[x]]
           both == [x \in IQSlot |-> IF x \in {q, p} THEN FreeSlot ELSE s.iq[x]]
<1>1. u.iq[p] = s.iq[p]
  BY ExecKeeps
<1>2. s \in StateSet /\ u \in StateSet
  BY ExecKeeps DEF IInv
<1>3. s.iq \in [IQSlot -> EntrySet \cup {FreeSlot}]
  BY <1>2 DEF StateSet
<1>4. /\ m = [s EXCEPT !.iq = gone] /\ n = [s EXCEPT !.iq = both]
  BY DEF Removed
<1> HIDE DEF m, n, gone, both
<1>5. /\ m = [rat |-> s.rat, free |-> s.free, prf |-> s.prf, rob |-> s.rob, iq |-> gone]
      /\ n = [rat |-> s.rat, free |-> s.free, prf |-> s.prf, rob |-> s.rob, iq |-> both]
  BY <1>2, <1>4 DEF StateSet
<1>6. w = Removed(u, {p})
  <2>1. FreeSlot.valid = FALSE
    BY DEF FreeSlot
  <2>2. [x \in IQSlot |-> IF x \in {p} THEN FreeSlot ELSE gone[x]] = both
    BY FreedTwice, Zenon DEF gone, both
  <2>3. \A r, v : [x \in IQSlot |-> IF x \in {p} THEN FreeSlot ELSE Wakeup(gone, r, v)[x]]
                     = Wakeup(both, r, v)
    <3> TAKE r, v
    <3>1. \A x \in IQSlot : (IF x \in {p} THEN FreeSlot ELSE Wakeup(gone, r, v)[x])
                            = Wakeup(both, r, v)[x]
      <4> TAKE x \in IQSlot
      <4>1. CASE x = p
        BY <2>1, <4>1 DEF Wakeup, both
      <4>2. CASE x # p
        BY <4>2 DEF Wakeup, both, gone
      <4> QED
        BY <4>1, <4>2
    <3> QED
      BY <3>1 DEF Wakeup
  <2>4. u = WriteBack(m, e)
    BY DEF Exec, m
  <2>5. CASE ~s.rob.slot[e.rob].valid
    <3>1. u = m /\ w = n
      BY <1>5, <2>4, <2>5 DEF WriteBack
    <3>2. Removed(m, {p}) = [m EXCEPT !.iq = both]
      BY <1>5, <2>2 DEF Removed
    <3> QED
      BY <1>5, <3>1, <3>2
  <2>6. CASE s.rob.slot[e.rob].valid /\ ~e.ins.write
    <3>1. /\ u = [rat |-> s.rat, free |-> s.free, prf |-> s.prf,
                  rob |-> Complete(s.rob, e.rob), iq |-> gone]
          /\ w = [rat |-> s.rat, free |-> s.free, prf |-> s.prf,
                  rob |-> Complete(s.rob, e.rob), iq |-> both]
      BY <1>5, <2>4, <2>6 DEF WriteBack
    <3> HIDE DEF u, w
    <3> QED
      BY <2>2, <3>1 DEF Removed
  <2>7. CASE s.rob.slot[e.rob].valid /\ e.ins.write
    <3> DEFINE v == Result(e)
               file == [s.prf EXCEPT ![e.prd] = [value |-> v, ready |-> TRUE]]
    <3>1. /\ u = [rat |-> s.rat, free |-> s.free, prf |-> file,
                  rob |-> Complete(s.rob, e.rob), iq |-> Wakeup(gone, e.prd, v)]
          /\ w = [rat |-> s.rat, free |-> s.free, prf |-> file,
                  rob |-> Complete(s.rob, e.rob), iq |-> Wakeup(both, e.prd, v)]
      BY <1>5, <2>4, <2>7 DEF WriteBack, Result
    <3> HIDE DEF u, w, file, v
    <3>2. [x \in IQSlot |-> IF x \in {p} THEN FreeSlot ELSE Wakeup(gone, e.prd, v)[x]]
             = Wakeup(both, e.prd, v)
      BY <2>3
    <3>3. Removed(u, {p}) = [u EXCEPT !.iq = Wakeup(both, e.prd, v)]
      BY <3>1, <3>2 DEF Removed
    <3> QED
      BY <3>1, <3>3
  <2> QED
    BY <2>5, <2>6, <2>7
<1> HIDE DEF w, u
<1>7. Exec(u, p) = WriteBack(Removed(u, {p}), s.iq[p])
  BY <1>1 DEF Exec
<1> QED
  BY <1>1, <1>6, <1>7 DEF u, w, n

-----------------------------------------------------------------------------
(* The actions. *)

LEMMA InitKeeps ==
    ASSUME Init
    PROVE  IInv(State) /\ FlightOf(State) = << >> /\ RegsOf(State) = [a \in Reg |-> 0]
<1> DEFINE s == State
<1>1. /\ s.rat = [a \in Reg |-> a] /\ s.rob = ResetRob /\ s.iq = ResetIQ
      /\ s.free = [k \in 1 .. PRFCount - NumRegisters |-> NumRegisters + k - 1]
      /\ s.prf = [p \in Physical |-> [value |-> 0, ready |-> p \in Reg]]
      /\ s = [rat |-> s.rat, free |-> s.free, prf |-> s.prf, rob |-> s.rob, iq |-> s.iq]
  BY DEF Init, State
<1> HIDE DEF s
<1>2. 0 \in Index /\ s.rob.head = 0 /\ s.rob.tail = 0 /\ s.rob.count = 0
      /\ s.rob.slot = [i \in Index |-> EmptyEntry]
  BY <1>1, CapacityAssumption DEF ResetRob, Index
<1>3. \A a \in Reg : a \in Physical /\ a \in 0 .. NumRegisters - 1
  BY RegistersAssumption DEF Reg, Physical
<1>4. InFlight(s) = {} /\ Writers(s) = {}
  <2>1. \A i \in Index : Position(s.rob, i) \in Nat
    BY <1>2, PositionValue DEF Index
  <2>2. InFlight(s) = {}
    BY <1>2, <2>1 DEF InFlight, InWindow
  <2> QED
    BY <2>2 DEF Writers
<1>5. \A k, a : a \in Reg => Mapping(s, k, a) = a /\ Home(s, a) = a
  <2>1. \A k, a : LaterWriters(s, k, a) = {}
    BY <1>4 DEF LaterWriters
  <2> QED
    BY <1>1, <2>1 DEF Mapping, Home
<1>6. s \in StateSet
  <2>1. s.rat \in [Reg -> Physical]
    BY <1>1, <1>3
  <2>2. s.free \in Seq(Physical)
    <3>1. \A k \in 1 .. PRFCount - NumRegisters : NumRegisters + k - 1 \in Physical
      BY RegistersAssumption DEF Physical
    <3>2. PRFCount - NumRegisters \in Nat
      BY RegistersAssumption
    <3> QED
      BY <1>1, <3>1, <3>2, SMTT(30)
  <2>3. s.prf \in [Physical -> Cell]
    <3>1. \A p \in Physical : [value |-> 0, ready |-> p \in Reg] \in Cell
      BY InstructionAssumption DEF Cell
    <3> QED
      BY <1>1, <3>1
  <2>4. s.rob \in RingSet
    <3>1. EmptyEntry \in [valid : BOOLEAN, completed : BOOLEAN, data : DataSet \cup {NoData}]
      BY DEF EmptyEntry
    <3>2. 0 \in 0 .. Capacity
      BY CapacityAssumption
    <3> QED
      BY <1>1, <1>2, <3>1, <3>2 DEF ResetRob, RingSet
  <2>5. s.iq \in [IQSlot -> EntrySet \cup {FreeSlot}]
    BY <1>1 DEF ResetIQ
  <2> QED
    BY <1>1, <2>1, <2>2, <2>3, <2>4, <2>5 DEF StateSet
<1>7. WindowOK(s)
  <2>1. (0 + 0) % Capacity = 0
    <3>1. 0 \in 0 .. Capacity /\ 0 + 0 < Capacity
      BY CapacityAssumption
    <3>2. (0 + 0) % Capacity = IF 0 + 0 < Capacity THEN 0 + 0 ELSE 0 + 0 - Capacity
      BY <1>2, <3>1, TailValue
    <3> QED
      BY <3>1, <3>2
  <2>2. InOrder(s.rob)
    BY <1>2, <2>1, CapacityAssumption DEF InOrder
  <2>3. \A i \in Index : ~s.rob.slot[i].valid /\ ~InWindow(s.rob, i)
    <3>1. \A i \in Index : ~InWindow(s.rob, i)
      BY <1>4 DEF InFlight
    <3>2. EmptyEntry.valid = FALSE
      BY DEF EmptyEntry
    <3> QED
      BY <1>2, <3>1, <3>2
  <2> QED
    BY <1>4, <2>2, <2>3 DEF WindowOK
<1>8. AllTracked(s) /\ Checkpoints(s) /\ ResultsOK(s)
  BY <1>4, <1>5 DEF AllTracked, Tracked, Checkpoints, ResultsOK
<1>9. EveryRegisterOwned(s)
  <2> SUFFICES ASSUME NEW p \in Physical
               PROVE  \/ \E n \in DOMAIN s.free : s.free[n] = p
                      \/ \E a \in Reg : Home(s, a) = p
    BY DEF EveryRegisterOwned
  <2>1. CASE p \in Reg
    BY <1>5, <2>1
  <2>2. CASE p \notin Reg
    <3> DEFINE n == p - NumRegisters + 1
    <3>1. n \in 1 .. PRFCount - NumRegisters /\ NumRegisters + n - 1 = p
      BY <2>2, RegistersAssumption DEF Reg, Physical
    <3> HIDE DEF n
    <3>2. n \in DOMAIN s.free /\ s.free[n] = p
      BY <1>1, <3>1
    <3> QED
      BY <3>2
  <2> QED
    BY <2>1, <2>2
<1>10. OneOwner(s)
  <2>1. /\ DOMAIN s.free = 1 .. PRFCount - NumRegisters
        /\ \A n \in DOMAIN s.free : s.free[n] = NumRegisters + n - 1
    BY <1>1
  <2>2. \A m, n \in DOMAIN s.free : s.free[m] = s.free[n] => m = n
    BY <2>1, RegistersAssumption
  <2>3. \A n \in DOMAIN s.free : \A a \in Reg : Home(s, a) # s.free[n]
    <3> TAKE n \in DOMAIN s.free
    <3> TAKE a \in Reg
    <3>1. Home(s, a) = a /\ a \in 0 .. NumRegisters - 1
      BY <1>3, <1>5
    <3>2. n \in 1 .. PRFCount - NumRegisters /\ s.free[n] = NumRegisters + n - 1
      BY <2>1
    <3> QED
      BY <3>1, <3>2, RegistersAssumption
  <2>4. \A a, b \in Reg : Home(s, a) = Home(s, b) => a = b
    BY <1>5
  <2> QED
    BY <1>4, <2>2, <2>3, <2>4 DEF OneOwner
<1>11. ReadyOK(s)
  <2>1. \A a \in Reg : s.prf[Home(s, a)].ready
    <3> TAKE a \in Reg
    <3>1. s.prf[a] = [value |-> 0, ready |-> a \in Reg]
      BY <1>1, <1>3
    <3>2. s.prf[a].ready = (a \in Reg)
      BY <3>1
    <3> QED
      BY <1>5, <3>2
  <2> QED
    BY <1>4, <2>1 DEF ReadyOK
<1>12. QueueOK(s)
  <2>1. \A q \in IQSlot : ~s.iq[q].valid
    <3>1. FreeSlot.valid = FALSE
      BY DEF FreeSlot
    <3> QED
      BY <1>1, <3>1 DEF ResetIQ
  <2> QED
    BY <2>1 DEF QueueOK
<1>13. IInv(s)
  BY <1>6, <1>7, <1>8, <1>9, <1>10, <1>11, <1>12 DEF IInv
<1>14. FlightOf(s) = << >>
  <2>1. FlightOf(s) \in Seq(ItemSet) /\ Len(FlightOf(s)) = 0
    BY <1>2, <1>13, FlightFacts
  <2> QED
    BY <2>1, EmptySeq
<1>15. RegsOf(s) = [a \in Reg |-> 0]
  <2>1. \A a \in Reg : s.prf[Home(s, a)].value = 0
    <3> TAKE a \in Reg
    <3>1. s.prf[a] = [value |-> 0, ready |-> a \in Reg]
      BY <1>1, <1>3
    <3>2. s.prf[a].value = 0 /\ Home(s, a) = a
      BY <1>5, <3>1
    <3> QED
      BY <3>2
  <2> QED
    BY <2>1 DEF RegsOf
<1> QED
  BY <1>13, <1>14, <1>15 DEF s

(* Renaming and dispatching one instruction is entering it. *)
LEMMA EnterOneStep ==
    ASSUME IInv(State), NEW i \in Instruction, EnterOne(i)
    PROVE  IInv(State') /\ Program!EnterOne(i)
<1> DEFINE t == Entered(State, i)
<1>1. CanRename(State, i) /\ HasRoom(Rename(State, i)) /\ Becomes(t)
  BY DEF EnterOne, Entered
<1>2. /\ IInv(t) /\ RegsOf(t) = RegsOf(State)
      /\ FlightOf(t) = Append(FlightOf(State), Program!Undecided(i))
  BY <1>1, EnterKeeps, FlightEnters
<1>3. State' = t
  BY <1>1, <1>2, BecomesState DEF IInv
<1> HIDE DEF t
<1> QED
  BY <1>2, <1>3 DEF Program!EnterOne

LEMMA EnterTwoStep ==
    ASSUME IInv(State), NEW i \in Instruction, NEW j \in Instruction, EnterTwo(i, j)
    PROVE  IInv(State') /\ Program!EnterTwo(i, j)
<1> DEFINE u == Entered(State, i)
           t == Entered(u, j)
<1>1. /\ ~i.branch /\ ~j.branch
      /\ CanRename(State, i) /\ CanRename(Rename(State, i), j)
      /\ HasRoom(Rename(Rename(State, i), j))
      /\ HasRoom(Dispatch(Rename(Rename(State, i), j), Bundle(State, i), NoData))
      /\ Becomes(Dispatch(Dispatch(Rename(Rename(State, i), j), Bundle(State, i), NoData),
                          Bundle(Rename(State, i), j), NoData))
  BY DEF EnterTwo
<1>2. /\ HasRoom(Rename(State, i)) /\ CanRename(u, j) /\ HasRoom(Rename(u, j)) /\ Becomes(t)
  BY <1>1, PairEnters
<1>3. /\ IInv(u) /\ RegsOf(u) = RegsOf(State)
      /\ FlightOf(u) = Append(FlightOf(State), Program!Undecided(i))
  BY <1>1, <1>2, EnterKeeps, FlightEnters
<1> HIDE DEF u
<1>4. /\ IInv(t) /\ RegsOf(t) = RegsOf(u)
      /\ FlightOf(t) = Append(FlightOf(u), Program!Undecided(j))
  BY <1>2, <1>3, EnterKeeps, FlightEnters
<1>5. State' = t
  BY <1>2, <1>4, BecomesState DEF IInv
<1> HIDE DEF t
<1> QED
  BY <1>3, <1>4, <1>5 DEF Program!EnterTwo

(* Two attempts to retire make none, one or two instructions take effect.   *)
LEMMA CycleStep ==
    ASSUME NEW s, IInv(s), FlightOf(s) = FlightOf(State), RegsOf(s) = RegsOf(State),
           Becomes(Retire(Retire(s)))
    PROVE  /\ IInv(State')
           /\ \/ Program!RetireOne
              \/ Program!RetireTwo
              \/ UNCHANGED <<FlightOf(State), RegsOf(State)>>
<1> DEFINE t == Retire(s)
           u == Retire(t)
<1>1. CASE ~CanCommit(s.rob)
  <2>1. u = s
    BY <1>1 DEF Retire
  <2>2. State' = s
    BY <2>1, BecomesState DEF IInv
  <2> QED
    BY <2>2
<1>2. CASE CanCommit(s.rob)
  <2>1. /\ IInv(t) /\ Program!MayRetire(FlightOf(s), RegsOf(s)) /\ FlightOf(t) = Tail(FlightOf(s))
        /\ RegsOf(t) = Program!Effect(Head(FlightOf(s)).ins, RegsOf(s))
    BY <1>2, FlightRetires
  <2>2. CASE ~CanCommit(t.rob)
    <3>1. u = t
      BY <2>2 DEF Retire
    <3>2. State' = t
      BY <2>1, <3>1, BecomesState DEF IInv
    <3> HIDE DEF t
    <3> QED
      BY <2>1, <3>2 DEF Program!RetireOne
  <2>3. CASE CanCommit(t.rob)
    <3> HIDE DEF t
    <3>1. /\ IInv(u) /\ Program!MayRetire(FlightOf(t), RegsOf(t)) /\ FlightOf(u) = Tail(FlightOf(t))
          /\ RegsOf(u) = Program!Effect(Head(FlightOf(t)).ins, RegsOf(t))
      BY <2>1, <2>3, FlightRetires
    <3>2. State' = u
      BY <3>1, BecomesState DEF IInv, t
    <3> HIDE DEF u
    <3> QED
      BY <2>1, <3>1, <3>2 DEF Program!RetireTwo
  <2> QED
    BY <2>2, <2>3
<1> QED
  BY <1>1, <1>2

LEMMA CycleNoneStep ==
    ASSUME IInv(State), CycleNone
    PROVE  /\ IInv(State')
           /\ \/ Program!RetireOne
              \/ Program!RetireTwo
              \/ UNCHANGED <<FlightOf(State), RegsOf(State)>>
BY CycleStep DEF CycleNone

LEMMA CycleOneStep ==
    ASSUME IInv(State), CycleOne
    PROVE  /\ IInv(State')
           /\ \/ Program!RetireOne
              \/ Program!RetireTwo
              \/ UNCHANGED <<FlightOf(State), RegsOf(State)>>
<1>1. PICK q \in Executable : Becomes(Retire(Retire(WriteBack(Removed(State, {q}), iq[q]))))
  BY DEF CycleOne
<1>2. q \in IQSlot /\ State.iq[q].valid /\ Ready(State.iq[q]) /\ ~State.iq[q].ins.branch
  BY DEF Executable, Ready, State
<1> DEFINE t == Exec(State, q)
<1>3. Becomes(Retire(Retire(t)))
  BY <1>1 DEF Exec, State
<1>4. IInv(t) /\ FlightOf(t) = FlightOf(State) /\ RegsOf(t) = RegsOf(State)
  BY <1>2, FlightExecutes
<1> HIDE DEF t
<1> QED
  BY <1>3, <1>4, CycleStep

LEMMA CycleTwoStep ==
    ASSUME IInv(State), CycleTwo
    PROVE  /\ IInv(State')
           /\ \/ Program!RetireOne
              \/ Program!RetireTwo
              \/ UNCHANGED <<FlightOf(State), RegsOf(State)>>
<1> DEFINE s == State
<1>a. PICK q \in FirstSlot(Executable) : \E p \in FirstSlot(Executable \ {q}) :
         Becomes(Retire(Retire(WriteBack(WriteBack(Removed(s, {q, p}), iq[q]), iq[p]))))
  BY DEF CycleTwo
<1>1. PICK p \in FirstSlot(Executable \ {q}) :
         Becomes(Retire(Retire(WriteBack(WriteBack(Removed(s, {q, p}), iq[q]), iq[p]))))
  BY <1>a
<1>2. s.iq = iq
  BY DEF State
<1>3. q \in Executable /\ p \in Executable /\ q # p
  BY DEF FirstSlot
<1>4. /\ q \in IQSlot /\ s.iq[q].valid /\ Ready(s.iq[q]) /\ ~s.iq[q].ins.branch
      /\ p \in IQSlot /\ s.iq[p].valid /\ Ready(s.iq[p]) /\ ~s.iq[p].ins.branch
  BY <1>2, <1>3 DEF Executable, Ready
<1> DEFINE u == Exec(s, q)
           t == Exec(u, p)
<1> HIDE DEF s
<1>5. u.iq[p] = s.iq[p] /\ Becomes(Retire(Retire(t)))
  <2>1. u.iq[p] = s.iq[p]
        /\ WriteBack(WriteBack(Removed(s, {q, p}), s.iq[q]), s.iq[p]) = t
    BY <1>3, <1>4, PairExecutes DEF s
  <2> QED
    BY <1>1, <1>2, <2>1
<1>6. IInv(u) /\ FlightOf(u) = FlightOf(s) /\ RegsOf(u) = RegsOf(s)
  BY <1>4, FlightExecutes DEF s
<1> HIDE DEF u
<1>7. IInv(t) /\ FlightOf(t) = FlightOf(u) /\ RegsOf(t) = RegsOf(u)
  BY <1>4, <1>5, <1>6, FlightExecutes
<1> HIDE DEF t
<1> QED
  BY <1>5, <1>6, <1>7, CycleStep DEF s

LEMMA ResolveBranchStep ==
    ASSUME IInv(State), ResolveBranch
    PROVE  /\ IInv(State')
           /\ \E k \in 1 .. Len(FlightOf(State)), taken \in BOOLEAN : Program!Decide(k, taken)
<1> DEFINE s == State
<1>1. PICK q \in FirstSlot({x \in IQSlot : Ready(iq[x])}) :
         LET e == iq[q]
             done == [Removed(s, {q}) EXCEPT !.rob = Complete(@, e.rob)]
         IN  /\ e.ins.branch
             /\ IF Taken(e.ins, e.op1.value, e.op2.value) = e.ins.predicted
                THEN Becomes(done)
                ELSE \E order \in Released(done.rob, e.rob) : Becomes(Recover(done, e.rob, order))
  BY DEF ResolveBranch
<1>2. s.iq = iq
  BY DEF State
<1> DEFINE e == s.iq[q]
           done == [Removed(s, {q}) EXCEPT !.rob = Complete(@, e.rob)]
           t == Exec(s, q)
           taken == Taken(e.ins, e.op1.value, e.op2.value)
           f == FlightOf(s)
           k == Position(s.rob, e.rob) + 1
           marked == [f EXCEPT ![k] = [ins |-> f[k].ins, decided |-> {taken}]]
<1>3. /\ e.ins.branch
      /\ IF taken = e.ins.predicted THEN Becomes(done)
         ELSE \E order \in Released(done.rob, e.rob) : Becomes(Recover(done, e.rob, order))
  BY <1>1, <1>2
<1>4. q \in IQSlot /\ e.valid /\ Ready(e)
  BY <1>2 DEF FirstSlot, Ready
<1>5. done = t
  <2>1. Removed(s, {q}).rob = s.rob
    BY DEF Removed, State
  <2>2. s.rob.slot[e.rob].valid /\ ~e.ins.write
    <3>1. EntryOK(s, e) /\ WindowOK(s) /\ s \in StateSet
      BY <1>4, SMTT(30) DEF IInv, QueueOK
    <3>2. s.rob.slot[e.rob].valid
      BY <3>1 DEF EntryOK, WindowOK, InFlight
    <3>3. e.ins \in Instruction
      BY <3>1 DEF EntryOK, WindowOK, DataSet
    <3> QED
      BY <1>3, <3>2, <3>3, InstructionAssumption
  <2> HIDE DEF s
  <2> QED
    BY <2>1, <2>2 DEF Exec, WriteBack
<1>6. /\ IInv(t) /\ RegsOf(t) = RegsOf(s)
      /\ k \in 1 .. Len(f) /\ f[k].ins = e.ins /\ f[k].decided = {} /\ FlightOf(t) = marked
      /\ taken \in BOOLEAN /\ e.rob \in InFlight(t) /\ Data(t, e.rob).ins = e.ins
      /\ Position(t.rob, e.rob) + 1 = k
  BY <1>3, <1>4, FlightDecides, ZenonT(30)
<1> HIDE DEF s, e, done, t, taken, f, k, marked
<1>7. CASE taken = e.ins.predicted
  <2>1. State' = t
    BY <1>3, <1>5, <1>6, <1>7, BecomesState DEF IInv
  <2>2. Program!Decide(k, taken)
    BY <1>3, <1>6, <1>7, <2>1 DEF Program!Decide, s, f, marked
  <2> QED
    BY <1>6, <2>1, <2>2 DEF f, s
<1>8. CASE taken # e.ins.predicted
  <2>1. PICK order \in Released(t.rob, e.rob) : Becomes(Recover(t, e.rob, order))
    BY <1>3, <1>5, <1>8
  <2> DEFINE u == Recover(t, e.rob, order)
  <2>2. IInv(u) /\ RegsOf(u) = RegsOf(t) /\ FlightOf(u) = SubSeq(marked, 1, k)
    BY <1>3, <1>6, FlightRecovers
  <2>3. State' = u
    BY <2>1, <2>2, BecomesState DEF IInv
  <2> HIDE DEF u
  <2>4. Program!Decide(k, taken)
    BY <1>3, <1>6, <1>8, <2>2, <2>3 DEF Program!Decide, s, f, marked
  <2> QED
    BY <1>6, <2>2, <2>3, <2>4 DEF f, s
<1> QED
  BY <1>7, <1>8

-----------------------------------------------------------------------------
(* The theorems. *)

LEMMA NextKeeps ==
    ASSUME IInv(State), [Next]_vars
    PROVE  /\ IInv(State')
           /\ [Program!Next]_<<FlightOf(State), RegsOf(State)>>
<1> DEFINE Stays == UNCHANGED <<FlightOf(State), RegsOf(State)>>
<1>1. ASSUME NEW i \in Instruction, EnterOne(i)
      PROVE  IInv(State') /\ Program!Next
  BY <1>1, EnterOneStep DEF Program!Next
<1>2. ASSUME NEW i \in Instruction, NEW j \in Instruction, EnterTwo(i, j)
      PROVE  IInv(State') /\ Program!Next
  BY <1>2, EnterTwoStep DEF Program!Next
<1>3. CASE CycleNone \/ CycleOne \/ CycleTwo
  <2>1. IInv(State') /\ (Program!RetireOne \/ Program!RetireTwo \/ Stays)
    BY <1>3, CycleNoneStep, CycleOneStep, CycleTwoStep
  <2> QED
    BY <2>1 DEF Program!Next
<1>4. CASE ResolveBranch
  <2>1. /\ IInv(State')
        /\ \E k \in 1 .. Len(FlightOf(State)), taken \in BOOLEAN : Program!Decide(k, taken)
    BY <1>4, ResolveBranchStep
  <2> QED
    BY <2>1 DEF Program!Next
<1>5. CASE UNCHANGED vars
  <2>1. State' = State
    BY <1>5 DEF vars, State
  <2> QED
    BY <2>1
<1> QED
  BY <1>1, <1>2, <1>3, <1>4, <1>5 DEF Next

(* Whatever enters, executes, retires and is squashed, the structures fit   *)
(* together: the inductive invariant of the integer back end. *)
THEOREM BackEndInvariant == Spec => []IInv(State)
<1>1. Init => IInv(State)
  BY InitKeeps
<1>2. IInv(State) /\ [Next]_vars => IInv(State)'
  BY NextKeeps
<1> QED
  BY <1>1, <1>2, PTL DEF Spec

(* The structures of the back end hold what they may hold. *)
THEOREM BackEndTypes == Spec => []TypeOK
<1>1. IInv(State) => TypeOK
  <2> SUFFICES ASSUME IInv(State) PROVE TypeOK
    OBVIOUS
  <2>1. /\ State \in StateSet /\ State.rat = rat /\ State.free = freeList /\ State.prf = prf
        /\ State.rob = rob /\ State.iq = iq
    BY DEF IInv, State
  <2>2. /\ rat \in [Reg -> Physical] /\ freeList \in Seq(Physical) /\ prf \in [Physical -> Cell]
        /\ rob \in RingSet /\ iq \in [IQSlot -> EntrySet \cup {FreeSlot}]
    BY <2>1 DEF StateSet
  <2>3. \A q \in IQSlot : iq[q].valid => iq[q].rob \in Index
    <3>1. FreeSlot.valid = FALSE
      BY DEF FreeSlot
    <3>2. \A q \in IQSlot : iq[q].valid => iq[q] \in EntrySet
      BY <2>2, <3>1
    <3> QED
      BY <3>2 DEF EntrySet
  <2> QED
    BY <2>2, <2>3 DEF TypeOK, Cell, RingSet
<1> QED
  BY <1>1, BackEndInvariant, PTL

(* Renaming, retirement and recovery lose no physical register and never    *)
(* give one to two owners. *)
THEOREM NoRegisterLostOrShared == Spec => []RegistersConserved
<1>1. IInv(State) => RegistersConserved
  BY DEF IInv, RegistersConserved
<1> QED
  BY <1>1, BackEndInvariant, PTL

(* No operand in the issue queue is stale, and none waits for a result that *)
(* has already been broadcast. *)
THEOREM NoOperandStale == Spec => []OperandsCurrent
<1>1. IInv(State) => OperandsCurrent
  <2> DEFINE s == State
  <2> SUFFICES ASSUME IInv(s), NEW q \in IQSlot, s.iq[q].valid
               PROVE  LET e == s.iq[q]
                      IN  /\ e.rob \in InFlight(s) /\ ~s.rob.slot[e.rob].completed
                          /\ e.ins.use1 => Current(s, e.rob, e.op1, e.ins.rs1)
                          /\ e.ins.use2 => Current(s, e.rob, e.op2, e.ins.rs2)
                          /\ e.op1.ready \/ HasProducer(s, e.rob, e.op1)
                          /\ e.op2.ready \/ HasProducer(s, e.rob, e.op2)
    BY DEF OperandsCurrent, State
  <2> DEFINE e == s.iq[q]
  <2> HIDE DEF s
  <2>1. /\ s \in StateSet /\ WindowOK(s) /\ AllTracked(s) /\ ReadyOK(s) /\ EntryOK(s, e)
    BY DEF IInv, QueueOK
  <2> HIDE DEF e
  <2>2. /\ e.rob \in InFlight(s) /\ ~s.rob.slot[e.rob].completed
        /\ OperandOK(s, e.rob, e.op1, e.ins.use1, e.ins.rs1)
        /\ OperandOK(s, e.rob, e.op2, e.ins.use2, e.ins.rs2)
        /\ e.ins = Data(s, e.rob).ins
    BY <2>1 DEF EntryOK
  <2>3. /\ Position(s.rob, e.rob) \in 0 .. s.rob.count
        /\ e.ins.rs1 \in Reg /\ e.ins.rs2 \in Reg
    BY <2>1, <2>2, PositionsBelow, InstructionAssumption DEF WindowOK, DataSet
  <2>4. ASSUME NEW op, NEW used, NEW a \in Reg, OperandOK(s, e.rob, op, used, a), ~op.ready
        PROVE  HasProducer(s, e.rob, op)
    <3>1. Current(s, e.rob, op, a)
      BY <2>4 DEF OperandOK
    <3>2. op.reg = Mapping(s, Position(s.rob, e.rob), a) /\ ~s.prf[op.reg].ready
      BY <2>4, <3>1 DEF Current, Before
    <3>3. Tracked(s, Position(s.rob, e.rob), a)
      BY <2>1, <2>3 DEF AllTracked
    <3>4. op.reg # Home(s, a)
      BY <2>1, <3>2 DEF ReadyOK
    <3>5. PICK j \in Writers(s) : /\ Position(s.rob, j) < Position(s.rob, e.rob)
                                  /\ op.reg = Data(s, j).prd
      BY <3>2, <3>3, <3>4 DEF Tracked
    <3>6. ~s.rob.slot[j].completed
      BY <2>1, <3>2, <3>5 DEF ReadyOK
    <3> QED
      BY <3>5, <3>6 DEF HasProducer
  <2>5. /\ e.op1.ready \/ HasProducer(s, e.rob, e.op1)
        /\ e.op2.ready \/ HasProducer(s, e.rob, e.op2)
    BY <2>2, <2>3, <2>4
  <2>6. /\ e.ins.use1 => Current(s, e.rob, e.op1, e.ins.rs1)
        /\ e.ins.use2 => Current(s, e.rob, e.op2, e.ins.rs2)
    BY <2>2 DEF OperandOK
  <2> QED
    BY <2>2, <2>5, <2>6 DEF e
<1> QED
  BY <1>1, BackEndInvariant, PTL

(* For every number of registers, every capacity and every instruction set: *)
(* the back end cannot be told from one that executes in program order.     *)
THEOREM BackEndImplementsInOrder == Spec => ImplementsInOrder
<1>1. Init => Program!Init
  BY InitKeeps DEF Program!Init
<1>2. IInv(State) /\ [Next]_vars => [Program!Next]_<<FlightOf(State), RegsOf(State)>>
  BY NextKeeps
<1> QED
  BY <1>1, <1>2, BackEndInvariant, PTL DEF Spec, ImplementsInOrder, Program!Spec
=============================================================================
